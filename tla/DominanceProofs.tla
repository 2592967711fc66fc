-------------------------- MODULE DominanceProofs --------------------------
(***************************************************************************)
(* The dominance analysis, for every graph: back edges are the latches of  *)
(* the one loop of their header, the body of a loop is the least set that  *)
(* has its header, its latches and the predecessors of all its blocks but  *)
(* the header, loops nest, and a search for a point of convergence, once   *)
(* its stack is empty, has seen what can be reached.                       *)
(***************************************************************************)
EXTENDS Dominance, FlowGraphProofs

LoopRecord ==
    [header : Blocks(graph), body : SUBSET Blocks(graph), latches : SUBSET Blocks(graph)]

\* What the search needs to know of the variables.
LoopShapes ==
    /\ WellWired(graph)
    /\ node \in Nat \ {0} /\ edge \in Nat \ {0}
    /\ body \subseteq Blocks(graph) /\ work \subseteq body
    /\ loops \in Seq(LoopRecord)
    /\ phase \in {"walk", "body"} => HasEdge

\* The blocks off the worklist have all their predecessors in the body.
Explored ==
    phase = "body" =>
        /\ {target, node} \subseteq body
        /\ \A n \in body \ work : n # target => Preds(n) \subseteq body

\* Nothing is in the body that need not be there.
Needed ==
    phase = "body" /\ target # node =>
        /\ target \notin work
        /\ \A S \in SUBSET Blocks(graph) :
            {target, node} \subseteq S /\ ClosedBack(S, target) => body \subseteq S

LoopInv == LoopShapes /\ Explored /\ Needed /\ BodiesOfLatches

-----------------------------------------------------------------------------

\* The ends of an edge are blocks.
LEMMA EdgeFacts ==
    ASSUME WellWired(graph), HasEdge, node \in Nat \ {0}, edge \in Nat \ {0}
    PROVE  node \in Blocks(graph) /\ target \in Blocks(graph)
<1>1. Len(graph) \in Nat
  BY DEF WellWired
<1>2. node \in 1 .. Len(graph) /\ edge \in 1 .. Len(Succ(graph, node))
  <2>1. graph[node] \in Terminators(node, Len(graph))
    BY <1>1 DEF WellWired, HasEdge
  <2>2. Len(Succ(graph, node)) \in Nat
    BY <2>1, <1>1 DEF Succ, Terminators, Return, Jump, Branch, LostJump, LostBranch
  <2> QED
    BY <1>1, <2>2 DEF HasEdge
<1>3. graph[node] \in Terminators(node, Len(graph))
  BY <1>2 DEF WellWired
<1>4. CASE graph[node] \in {Return, LostJump, LostBranch}
  BY <1>2, <1>4 DEF Succ, Return, LostJump, LostBranch
<1>5. CASE \E t \in 1 .. Len(graph) : graph[node] = Jump(t)
  BY <1>1, <1>2, <1>5 DEF Succ, Jump, target, Blocks
<1>6. CASE node < Len(graph) /\ \E t \in 1 .. Len(graph) : graph[node] = Branch(t, node + 1)
  BY <1>1, <1>2, <1>6 DEF Succ, Branch, target, Blocks
<1> QED
  BY <1>3, <1>4, <1>5, <1>6 DEF Terminators

LEMMA PredsAreBlocks ==
    ASSUME NEW n
    PROVE  Preds(n) \subseteq Blocks(graph)
BY DEF Preds

\* What the operators mean does not change while graph, node and edge stay.
LEMMA SameEdge ==
    ASSUME UNCHANGED <<graph, node, edge>>
    PROVE  /\ target' = target
           /\ HasEdge' = HasEdge
           /\ Blocks(graph)' = Blocks(graph)
           /\ \A n : Preds(n)' = Preds(n)
BY DEF target, HasEdge, Preds

LEMMA SameGraph ==
    ASSUME UNCHANGED graph
    PROVE  /\ Blocks(graph)' = Blocks(graph)
           /\ LoopRecord' = LoopRecord
           /\ \A S, h : ClosedBack(S, h)' = ClosedBack(S, h)
           /\ \A l : NaturalBody(l)' = NaturalBody(l)
BY DEF Preds, LoopRecord, ClosedBack, Encloses, NaturalBody

LEMMA SameLoops ==
    ASSUME UNCHANGED <<graph, loops>>, BodiesOfLatches
    PROVE  BodiesOfLatches'
BY SameGraph DEF BodiesOfLatches

-----------------------------------------------------------------------------

LEMMA LoopInit == Init => LoopInv
<1> SUFFICES ASSUME Init
             PROVE  LoopInv
  OBVIOUS
<1> USE DEF Init, TreeInit, LoopsInit
<1>1. WellWired(graph)
  BY GraphAssumption
<1>2. loops \in Seq(LoopRecord) /\ Len(loops) = 0
  OBVIOUS
<1>3. BodiesOfLatches
  BY <1>2 DEF BodiesOfLatches
<1> QED
  BY <1>1, <1>2, <1>3 DEF LoopInv, LoopShapes, Explored, Needed

\* The steps that neither search nor record.
LEMMA QuietStep ==
    ASSUME LoopInv, UNCHANGED <<graph, body, work, loops>>,
           node' \in Nat \ {0}, edge' \in Nat \ {0},
           phase' # "body", phase' = "walk" => HasEdge'
    PROVE  LoopInv'
<1>1. BodiesOfLatches'
  BY SameLoops DEF LoopInv
<1>2. LoopShapes'
  BY SameGraph DEF LoopInv, LoopShapes
<1> QED
  BY <1>1, <1>2 DEF LoopInv, Explored, Needed

LEMMA StartStep ==
    ASSUME LoopInv, StartBody, HasEdge, UNCHANGED <<graph, node, edge, loops>>
    PROVE  LoopInv'
<1>1. node \in Blocks(graph) /\ target \in Blocks(graph)
  BY EdgeFacts DEF LoopInv, LoopShapes
<1>2. BodiesOfLatches'
  BY SameLoops DEF LoopInv
<1>3. body' = {target, node} /\ work' = {node} /\ phase' = "body"
  BY DEF StartBody
<1>4. LoopShapes'
  BY <1>1, <1>3, SameEdge, SameGraph DEF LoopInv, LoopShapes
<1>5. Explored'
  BY <1>3, SameEdge DEF Explored
<1>6. Needed'
  BY <1>3, SameEdge DEF Needed
<1> QED
  BY <1>2, <1>4, <1>5, <1>6 DEF LoopInv

LEMMA GrowStep ==
    ASSUME LoopInv, NEW n \in work, Grow(n), UNCHANGED graph
    PROVE  LoopInv'
<1>1. /\ phase = "body" /\ phase' = "body"
      /\ body' = body \cup Preds(n)
      /\ work' = (work \ {n}) \cup ((Preds(n) \ body) \ {target})
      /\ UNCHANGED <<graph, node, edge, loops>>
  BY DEF Grow, Pushed
<1>2. BodiesOfLatches'
  BY <1>1, SameLoops DEF LoopInv
<1>3. LoopShapes'
  BY <1>1, SameEdge, SameGraph, PredsAreBlocks DEF LoopInv, LoopShapes
<1>4. Explored'
  <2>1. {target, node} \subseteq body
    BY <1>1 DEF LoopInv, Explored
  <2>2. ASSUME NEW m \in body' \ work', m # target
        PROVE  Preds(m) \subseteq body'
    <3>1. m \in body
      BY <1>1, <2>2
    <3>2. CASE m = n
      BY <1>1, <3>2
    <3>3. CASE m # n
      <4>1. m \in body \ work
        BY <1>1, <2>2, <3>1, <3>3
      <4> QED
        BY <1>1, <2>2, <4>1 DEF LoopInv, Explored
    <3> QED
      BY <3>2, <3>3
  <2> QED
    BY <1>1, <2>1, <2>2, SameEdge DEF Explored
<1>5. Needed'
  <2> SUFFICES ASSUME target # node
               PROVE  /\ target \notin work'
                      /\ \A S \in SUBSET Blocks(graph) :
                           {target, node} \subseteq S /\ ClosedBack(S, target) => body' \subseteq S
    BY <1>1, SameEdge, SameGraph DEF Needed
  <2>1. target \notin work
    BY <1>1 DEF LoopInv, Needed
  <2>2. ASSUME NEW S \in SUBSET Blocks(graph),
               {target, node} \subseteq S, ClosedBack(S, target)
        PROVE  body' \subseteq S
    <3>1. body \subseteq S
      BY <1>1, <2>2 DEF LoopInv, Needed
    <3>2. n \in S /\ n # target
      BY <2>1, <3>1 DEF LoopInv, LoopShapes
    <3> QED
      BY <1>1, <2>2, <3>1, <3>2 DEF ClosedBack
  <2> QED
    BY <1>1, <2>1, <2>2
<1> QED
  BY <1>2, <1>3, <1>4, <1>5 DEF LoopInv

\* A search that has ended has found the body of its one latch.
LEMMA SearchEnds ==
    ASSUME LoopInv, phase = "body", work = {}, target # node
    PROVE  NaturalBody([header |-> target, body |-> body, latches |-> {node}])
<1> DEFINE l == [header |-> target, body |-> body, latches |-> {node}]
<1>1. ClosedBack(body, target) /\ {target, node} \subseteq body
  BY DEF LoopInv, Explored, ClosedBack
<1>2. Encloses(body, l)
  BY <1>1 DEF Encloses
<1>3. ASSUME NEW S \in SUBSET Blocks(graph), Encloses(S, l)
      PROVE  body \subseteq S
  BY <1>3 DEF Encloses, LoopInv, Needed
<1> QED
  BY <1>2, <1>3 DEF NaturalBody

\* The union of two natural bodies of one header is natural.
LEMMA UnionIsNatural ==
    ASSUME NEW k \in LoopRecord, NEW l \in LoopRecord, k.header = l.header,
           NaturalBody(k), NaturalBody(l)
    PROVE  NaturalBody([k EXCEPT !.body = k.body \cup l.body,
                                 !.latches = k.latches \cup l.latches])
<1> DEFINE m == [k EXCEPT !.body = k.body \cup l.body,
                          !.latches = k.latches \cup l.latches]
<1>1. /\ m.header = k.header
      /\ m.body = k.body \cup l.body
      /\ m.latches = k.latches \cup l.latches
  BY DEF LoopRecord
<1>2. Encloses(m.body, m)
  BY <1>1 DEF NaturalBody, Encloses, ClosedBack
<1>3. ASSUME NEW S \in SUBSET Blocks(graph), Encloses(S, m)
      PROVE  m.body \subseteq S
  <2>1. Encloses(S, k) /\ Encloses(S, l)
    BY <1>1, <1>3 DEF Encloses
  <2> QED
    BY <1>1, <2>1 DEF NaturalBody
<1> QED
  BY <1>2, <1>3 DEF NaturalBody

LEMMA RecordStep ==
    ASSUME LoopInv, Record, UNCHANGED graph
    PROVE  LoopInv'
<1> DEFINE new == [header |-> target, body |-> body, latches |-> {node}]
<1>1. /\ phase = "body" /\ phase' = "edge" /\ work = {} /\ edge' = edge + 1
      /\ UNCHANGED <<graph, node, body, work>>
  BY DEF Record
<1>2. LoopShapes
  BY DEF LoopInv
<1>3. node \in Blocks(graph) /\ target \in Blocks(graph)
  BY <1>1, <1>2, EdgeFacts DEF LoopShapes
<1>4. new \in LoopRecord /\ new = NewLoop
  BY <1>2, <1>3 DEF LoopRecord, LoopShapes, NewLoop
<1>5. loops \in Seq(LoopRecord) /\ Len(loops) \in Nat
  BY <1>2 DEF LoopShapes
<1>6. ASSUME NEW i \in 1 .. Len(loops)
      PROVE  /\ Merged(loops[i]) \in LoopRecord
             /\ Merged(loops[i]) = [loops[i] EXCEPT !.body = loops[i].body \cup new.body,
                                                    !.latches = loops[i].latches \cup new.latches]
  <2>1. loops[i] \in LoopRecord
    BY <1>5
  <2> QED
    BY <2>1, <1>2, <1>3 DEF Merged, LoopRecord, LoopShapes
<1>7. CASE Known
  <2>1. loops' = [i \in 1 .. Len(loops) |->
                    IF loops[i].header = target THEN Merged(loops[i]) ELSE loops[i]]
    BY <1>7 DEF Record
  <2>2. loops' \in Seq(LoopRecord) /\ Len(loops') = Len(loops)
    <3>1. ASSUME NEW i \in 1 .. Len(loops)
          PROVE  (IF loops[i].header = target THEN Merged(loops[i]) ELSE loops[i]) \in LoopRecord
      <4>1. Merged(loops[i]) \in LoopRecord
        BY <1>6
      <4>2. loops[i] \in LoopRecord
        BY <1>5
      <4> QED
        BY <4>1, <4>2
    <3> QED
      BY <1>5, <2>1, <3>1
  <2>3. ASSUME NEW i \in 1 .. Len(loops'), loops'[i].header \notin loops'[i].latches
        PROVE  NaturalBody(loops'[i])
    <3>1. loops[i] \in LoopRecord /\ i \in 1 .. Len(loops)
      BY <1>5, <2>2
    <3>2. CASE loops[i].header # target
      <4>1. loops'[i] = loops[i]
        BY <2>1, <3>1, <3>2
      <4> QED
        BY <2>3, <3>1, <4>1 DEF LoopInv, BodiesOfLatches
    <3>3. CASE loops[i].header = target
      <4>1. loops'[i] = [loops[i] EXCEPT !.body = loops[i].body \cup new.body,
                                        !.latches = loops[i].latches \cup new.latches]
        BY <1>6, <2>1, <3>1, <3>3
      <4>2. /\ loops'[i].header = target
            /\ loops'[i].latches = loops[i].latches \cup {node}
        BY <3>1, <3>3, <4>1 DEF LoopRecord
      <4>3. target # node /\ target \notin loops[i].latches
        BY <2>3, <4>2
      <4>4. NaturalBody(loops[i])
        BY <3>1, <3>3, <4>3 DEF LoopInv, BodiesOfLatches
      <4>5. NaturalBody(new)
        BY <1>1, <4>3, SearchEnds
      <4>6. new \in LoopRecord /\ loops[i].header = new.header
        BY <1>4, <3>3
      <4> HIDE DEF new
      <4>7. NaturalBody([loops[i] EXCEPT !.body = loops[i].body \cup new.body,
                                         !.latches = loops[i].latches \cup new.latches])
        BY <3>1, <4>4, <4>5, <4>6, UnionIsNatural
      <4> QED
        BY <4>1, <4>7
    <3> QED
      BY <3>2, <3>3
  <2>4. BodiesOfLatches'
    BY <1>1, <2>3, SameGraph DEF BodiesOfLatches
  <2>5. LoopShapes'
    BY <1>1, <1>2, <2>2, SameGraph DEF LoopShapes
  <2> QED
    BY <1>1, <2>4, <2>5 DEF LoopInv, Explored, Needed
<1>8. CASE ~Known
  <2>1. loops' = Append(loops, new)
    BY <1>4, <1>8 DEF Record
  <2>2. /\ loops' \in Seq(LoopRecord)
        /\ Len(loops') = Len(loops) + 1
        /\ \A i \in 1 .. Len(loops) : loops'[i] = loops[i]
        /\ loops'[Len(loops) + 1] = new
    BY <1>4, <1>5, <2>1
  <2>3. ASSUME NEW i \in 1 .. Len(loops'), loops'[i].header \notin loops'[i].latches
        PROVE  NaturalBody(loops'[i])
    <3>1. CASE i \in 1 .. Len(loops)
      BY <2>2, <2>3, <3>1 DEF LoopInv, BodiesOfLatches
    <3>2. CASE i = Len(loops) + 1
      <4>1. target # node
        BY <2>2, <2>3, <3>2
      <4>2. NaturalBody(new)
        BY <1>1, <4>1, SearchEnds
      <4> QED
        BY <2>2, <3>2, <4>2
    <3> QED
      BY <1>5, <2>2, <3>1, <3>2
  <2>4. BodiesOfLatches'
    BY <1>1, <2>3, SameGraph DEF BodiesOfLatches
  <2>5. LoopShapes'
    BY <1>1, <1>2, <2>2, SameGraph DEF LoopShapes
  <2> QED
    BY <1>1, <2>4, <2>5 DEF LoopInv, Explored, Needed
<1> QED
  BY <1>7, <1>8

LEMMA LoopStep == LoopInv /\ [Next]_vars => LoopInv'
<1> SUFFICES ASSUME LoopInv, [Next]_vars
             PROVE  LoopInv'
  OBVIOUS
<1>1. LoopShapes
  BY DEF LoopInv
<1>2. CASE FindLoops
  <2>1. UNCHANGED graph
    BY <1>2 DEF FindLoops
  <2>2. CASE AskSelf
    BY <2>1, <2>2, StartStep DEF AskSelf
  <2>3. CASE Ask
    BY <1>1, <2>1, <2>3, QuietStep, SameEdge DEF Ask, LoopShapes
  <2>4. CASE NotDominated
    BY <1>1, <2>1, <2>4, QuietStep DEF NotDominated, LoopShapes
  <2>5. CASE WalkUp
    BY <1>1, <2>1, <2>5, QuietStep, SameEdge DEF WalkUp, LoopShapes
  <2>6. CASE Dominated
    BY <1>1, <2>1, <2>6, StartStep DEF Dominated, LoopShapes
  <2>7. CASE \E n \in work : Grow(n)
    BY <2>1, <2>7, GrowStep
  <2>8. CASE Record
    BY <2>1, <2>8, RecordStep
  <2>9. CASE NextNode
    BY <1>1, <2>1, <2>9, QuietStep DEF NextNode, LoopShapes
  <2>10. CASE Finish
    BY <1>1, <2>1, <2>10, QuietStep DEF Finish, LoopShapes
  <2> QED
    BY <1>2, <2>2, <2>3, <2>4, <2>5, <2>6, <2>7, <2>8, <2>9, <2>10 DEF FindLoops, LoopsNext
<1>3. CASE FindConvergence \/ Returned \/ UNCHANGED vars
  <2>1. UNCHANGED <<graph, loopVars>>
    BY <1>3 DEF FindConvergence, Returned, vars
  <2>2. UNCHANGED <<graph, phase, node, edge, body, work, loops>>
    BY <2>1 DEF loopVars
  <2>3. BodiesOfLatches'
    BY <2>2, SameLoops DEF LoopInv
  <2>4. LoopShapes'
    BY <1>1, <2>2, SameEdge, SameGraph DEF LoopShapes
  <2>5. Explored'
    BY <2>2, SameEdge DEF LoopInv, Explored
  <2>6. Needed'
    BY <2>2, SameEdge, SameGraph DEF LoopInv, Needed
  <2> QED
    BY <2>3, <2>4, <2>5, <2>6 DEF LoopInv
<1> QED
  BY <1>2, <1>3 DEF Next

(***************************************************************************)
(* dominance.rs, find_natural_loops and compute_loop_body: in every graph, *)
(* the body of a loop whose header does not jump to itself is the least    *)
(* set that has the header, its latches and the predecessors of every      *)
(* block but the header, merged loops included.                            *)
(***************************************************************************)
THEOREM LoopBodiesAreLeast == Spec => []BodiesOfLatches
<1>1. LoopInv => BodiesOfLatches
  BY DEF LoopInv
<1> QED
  BY <1>1, LoopInit, LoopStep, PTL DEF Spec

-----------------------------------------------------------------------------
(* The tree, and the walk up the tree.                                     *)

TreeInv == Graph(graph) /\ idom = ImmediateDominators(graph)

LEMMA IdomFacts ==
    ASSUME TreeInv, NEW n \in Blocks(graph)
    PROVE  /\ idom[n] = 0 <=> Strict(graph, n) = {}
           /\ idom[n] # 0 => /\ idom[n] \in Strict(graph, n)
                             /\ \A c \in Strict(graph, n) : Dom(graph, c, idom[n])
<1>1. idom[n] = IF Strict(graph, n) = {} THEN 0
                ELSE CHOOSE d \in Strict(graph, n) :
                        \A c \in Strict(graph, n) : Dom(graph, c, d)
  BY DEF TreeInv, ImmediateDominators, Strict
<1>2. 0 \notin Strict(graph, n)
  BY DEF Strict, Blocks
<1>3. CASE Strict(graph, n) = {}
  BY <1>1, <1>3
<1>4. CASE Strict(graph, n) # {}
  <2>1. \E d \in Strict(graph, n) : \A c \in Strict(graph, n) : Dom(graph, c, d)
    BY <1>4, NearestDominator DEF TreeInv
  <2>2. /\ idom[n] \in Strict(graph, n)
        /\ \A c \in Strict(graph, n) : Dom(graph, c, idom[n])
    BY <1>1, <1>4, <2>1, Zenon
  <2> QED
    BY <1>2, <1>4, <2>2
<1> QED
  BY <1>3, <1>4

LEMMA TreeStep == TreeInv /\ [Next]_vars => TreeInv'
<1> SUFFICES ASSUME TreeInv, [Next]_vars PROVE TreeInv'
  OBVIOUS
<1>1. UNCHANGED <<graph, idom>>
  BY DEF Next, FindLoops, FindConvergence, Returned, vars
<1> QED
  BY <1>1 DEF TreeInv

LEMMA TreeStart == Init => TreeInv
BY GraphAssumption DEF Init, TreeInit, TreeInv, Graph

\* Edge k of block m has been asked about.
Asked(m, k) == m < node \/ (m = node /\ k < edge)

AskedEdge(h, m) ==
    \E k \in 1 .. Len(Succ(graph, m)) : Asked(m, k) /\ Succ(graph, m)[k] = h

Dominates(h, m) == h = m \/ Dom(graph, h, m)

IsLatch(h, m) == \E i \in 1 .. Len(loops) : loops[i].header = h /\ m \in loops[i].latches

LatchesSoFar ==
    \A h, m \in Blocks(graph) : IsLatch(h, m) <=> AskedEdge(h, m) /\ Dominates(h, m)

OneLoopEach ==
    \A i, j \in 1 .. Len(loops) : i # j => loops[i].header # loops[j].header

\* The dominators of the block that are left are those of cur.
Walking ==
    phase = "walk" =>
        /\ cur \in Blocks(graph) /\ target # node
        /\ Dominates(cur, node)
        /\ Dom(graph, target, node) => Dom(graph, target, cur) /\ target # cur

Searching == phase = "body" => Dominates(target, node)

AllAsked == phase = "done" => node > Len(graph)

LatchInv ==
    /\ LoopShapes /\ TreeInv
    /\ LatchesSoFar /\ OneLoopEach
    /\ Walking /\ Searching /\ AllAsked

LEMMA SameTree ==
    ASSUME UNCHANGED graph
    PROVE  /\ \A h, m : Dominates(h, m)' = Dominates(h, m)
           /\ \A h, m : Dom(graph, h, m)' = Dom(graph, h, m)
           /\ Blocks(graph)' = Blocks(graph)
           /\ \A n : Succ(graph, n)' = Succ(graph, n)
BY DEF Dominates

LEMMA SuccLength ==
    ASSUME WellWired(graph), NEW n \in Blocks(graph)
    PROVE  Len(Succ(graph, n)) \in Nat
<1>1. graph[n] \in Terminators(n, Len(graph))
  BY DEF WellWired, Blocks
<1> QED
  BY <1>1 DEF Succ, Terminators, Return, Jump, Branch, LostJump, LostBranch

\* After the question about an edge it is one of those asked about.
LEMMA OneMoreAsked ==
    ASSUME LoopShapes, HasEdge, UNCHANGED <<graph, node>>, edge' = edge + 1,
           NEW h \in Blocks(graph), NEW m \in Blocks(graph)
    PROVE  AskedEdge(h, m)' <=> AskedEdge(h, m) \/ (m = node /\ h = target)
<1>1. node \in Nat /\ edge \in Nat \ {0} /\ m \in Nat /\ Len(Succ(graph, m)) \in Nat
  BY SuccLength DEF LoopShapes, Blocks
<1>2. \A k \in 1 .. Len(Succ(graph, m)) :
        Asked(m, k)' <=> Asked(m, k) \/ (m = node /\ k = edge)
  BY <1>1 DEF Asked
<1>3. AskedEdge(h, m)' <=> \E k \in 1 .. Len(Succ(graph, m)) : Asked(m, k)' /\ Succ(graph, m)[k] = h
  BY DEF AskedEdge
<1>4. m = node => edge \in 1 .. Len(Succ(graph, m)) /\ target = Succ(graph, m)[edge]
  BY <1>1 DEF HasEdge, target
<1> QED
  BY <1>2, <1>3, <1>4 DEF AskedEdge

\* The recorded latch is the only one added, and headers stay apart.
LEMMA RecordAdds ==
    ASSUME LatchInv, Record
    PROVE  /\ \A h, m : IsLatch(h, m)' <=> IsLatch(h, m) \/ (h = target /\ m = node)
           /\ OneLoopEach'
<1>1. loops \in Seq(LoopRecord) /\ Len(loops) \in Nat
  BY DEF LatchInv, LoopShapes
<1>2. CASE Known
  <2>1. loops' = [i \in 1 .. Len(loops) |->
                    IF loops[i].header = target THEN Merged(loops[i]) ELSE loops[i]]
    BY <1>2 DEF Record
  <2>2. Len(loops') = Len(loops)
    BY <1>1, <2>1
  <2>3. \A i \in 1 .. Len(loops) :
            /\ loops'[i].header = loops[i].header
            /\ loops'[i].latches = IF loops[i].header = target THEN loops[i].latches \cup {node}
                                   ELSE loops[i].latches
    <3> TAKE i \in 1 .. Len(loops)
    <3>1. loops[i] \in LoopRecord
      BY <1>1
    <3>2. /\ Merged(loops[i]).header = loops[i].header
          /\ Merged(loops[i]).latches = loops[i].latches \cup {node}
      BY <3>1 DEF Merged, LoopRecord
    <3> QED
      BY <2>1, <3>2
  <2>4. PICK i \in 1 .. Len(loops) : loops[i].header = target
    BY <1>2 DEF Known
  <2>5. \A h, m : IsLatch(h, m)' <=> IsLatch(h, m) \/ (h = target /\ m = node)
    BY <2>2, <2>3, <2>4 DEF IsLatch
  <2>6. OneLoopEach'
    BY <2>2, <2>3 DEF OneLoopEach, LatchInv
  <2> QED
    BY <2>5, <2>6
<1>3. CASE ~Known
  <2>1. loops' = Append(loops, NewLoop)
    BY <1>3 DEF Record
  <2>2. /\ Len(loops') = Len(loops) + 1
        /\ loops'[Len(loops) + 1] = NewLoop
        /\ \A i \in 1 .. Len(loops) : loops'[i] = loops[i]
    BY <1>1, <2>1
  <2>3. NewLoop.header = target /\ NewLoop.latches = {node}
    BY DEF NewLoop
  <2>4. \A i : i \in 1 .. Len(loops) + 1 <=> i \in 1 .. Len(loops) \/ i = Len(loops) + 1
    BY <1>1
  <2>5. \A h, m : IsLatch(h, m)' <=> IsLatch(h, m) \/ (h = target /\ m = node)
    BY <2>2, <2>3, <2>4 DEF IsLatch
  <2>6. OneLoopEach'
    BY <1>3, <2>2, <2>3, <2>4 DEF OneLoopEach, Known, LatchInv
  <2> QED
    BY <2>5, <2>6
<1> QED
  BY <1>2, <1>3

LEMMA LatchStart == Init => LatchInv
<1> SUFFICES ASSUME Init PROVE LatchInv
  OBVIOUS
<1>1. LoopShapes /\ TreeInv
  BY LoopInit, TreeStart DEF LoopInv
<1>2. phase = "edge" /\ node = 1 /\ edge = 1 /\ Len(loops) = 0
  BY DEF Init, LoopsInit
<1>3. \A h, m \in Blocks(graph) : ~AskedEdge(h, m)
  BY <1>2 DEF AskedEdge, Asked, Blocks
<1>4. \A h, m : ~IsLatch(h, m)
  BY <1>2 DEF IsLatch
<1>5. LatchesSoFar
  BY <1>3, <1>4 DEF LatchesSoFar
<1>6. OneLoopEach
  BY <1>2 DEF OneLoopEach
<1> QED
  BY <1>1, <1>2, <1>5, <1>6 DEF LatchInv, Walking, Searching, AllAsked

\* Between two questions nothing is asked and nothing recorded.
LEMMA NothingAsked ==
    ASSUME LatchInv, UNCHANGED <<graph, node, edge, loops>>
    PROVE  LatchesSoFar' /\ OneLoopEach'
<1>1. \A h, m : AskedEdge(h, m)' <=> AskedEdge(h, m)
  BY DEF AskedEdge, Asked
<1>2. \A h, m : IsLatch(h, m)' <=> IsLatch(h, m)
  BY DEF IsLatch
<1>3. LatchesSoFar'
  BY <1>1, <1>2, SameTree DEF LatchesSoFar, LatchInv
<1>4. OneLoopEach'
  BY DEF OneLoopEach, LatchInv
<1> QED
  BY <1>3, <1>4

\* An edge that is no back edge.
LEMMA EdgePassed ==
    ASSUME LatchInv, HasEdge, UNCHANGED <<graph, node, loops>>, edge' = edge + 1,
           ~Dominates(target, node)
    PROVE  LatchesSoFar' /\ OneLoopEach'
<1>1. \A h, m \in Blocks(graph) :
        AskedEdge(h, m)' <=> AskedEdge(h, m) \/ (m = node /\ h = target)
  BY OneMoreAsked DEF LatchInv
<1>2. \A h, m : IsLatch(h, m)' <=> IsLatch(h, m)
  BY DEF IsLatch
<1>3. LatchesSoFar'
  BY <1>1, <1>2, SameTree DEF LatchesSoFar, LatchInv
<1>4. OneLoopEach'
  BY DEF OneLoopEach, LatchInv
<1> QED
  BY <1>3, <1>4

\* All edges of the block have been asked about.
LEMMA NodePassed ==
    ASSUME LatchInv, NextNode, UNCHANGED graph
    PROVE  LatchesSoFar' /\ OneLoopEach'
<1>1. /\ node \in Nat /\ node # 0 /\ edge \in Nat /\ node <= Len(graph) /\ ~HasEdge
      /\ node' = node + 1 /\ edge' = 1 /\ UNCHANGED loops
  BY DEF LatchInv, LoopShapes, NextNode
<1>2. \A m \in Blocks(graph) : m \in Nat /\ Len(Succ(graph, m)) \in Nat
  BY SuccLength DEF LatchInv, LoopShapes, Blocks
<1>3. \A m \in Blocks(graph) : \A k \in 1 .. Len(Succ(graph, m)) : Asked(m, k)' <=> Asked(m, k)
  <2> TAKE m \in Blocks(graph)
  <2> TAKE k \in 1 .. Len(Succ(graph, m))
  <2>1. CASE m = node
    BY <1>1, <1>2, <2>1 DEF Asked, HasEdge
  <2>2. CASE m # node
    BY <1>1, <1>2, <2>2 DEF Asked
  <2> QED
    BY <2>1, <2>2
<1>4. \A h, m \in Blocks(graph) : AskedEdge(h, m)' <=> AskedEdge(h, m)
  BY <1>3 DEF AskedEdge
<1>5. \A h, m : IsLatch(h, m)' <=> IsLatch(h, m)
  BY <1>1 DEF IsLatch
<1>6. LatchesSoFar'
  BY <1>4, <1>5, SameTree DEF LatchesSoFar, LatchInv
<1>7. OneLoopEach'
  BY <1>1 DEF OneLoopEach, LatchInv
<1> QED
  BY <1>6, <1>7

\* What the walk finds at cur.
LEMMA WalkFacts ==
    ASSUME LatchInv, phase = "walk"
    PROVE  /\ cur \in Blocks(graph) /\ node \in Blocks(graph) /\ target \in Blocks(graph)
           /\ target # node /\ HasEdge
           /\ idom[cur] = 0 => ~Dominates(target, node)
           /\ idom[cur] = target => Dominates(target, node)
           /\ idom[cur] # 0 =>
                /\ idom[cur] \in Blocks(graph)
                /\ Dominates(idom[cur], node)
                /\ Dom(graph, target, node) /\ idom[cur] # target =>
                        Dom(graph, target, idom[cur])
<1>1. /\ cur \in Blocks(graph) /\ target # node /\ Dominates(cur, node)
      /\ Dom(graph, target, node) => Dom(graph, target, cur) /\ target # cur
      /\ HasEdge
  BY DEF LatchInv, Walking, LoopShapes
<1>2. node \in Blocks(graph) /\ target \in Blocks(graph)
  BY <1>1, EdgeFacts DEF LatchInv, LoopShapes
<1>3. Dom(graph, target, node) => target \in Strict(graph, cur)
  BY <1>1, <1>2 DEF Strict
<1>4. TreeInv /\ Graph(graph)
  BY DEF LatchInv, TreeInv
<1>5. idom[cur] = 0 => ~Dominates(target, node)
  BY <1>1, <1>3, <1>4, IdomFacts DEF Dominates
<1>6. ASSUME idom[cur] # 0
      PROVE  /\ idom[cur] \in Blocks(graph)
             /\ Dominates(idom[cur], node)
             /\ Dom(graph, target, node) => Dom(graph, target, idom[cur])
  <2>1. idom[cur] \in Strict(graph, cur) /\ \A c \in Strict(graph, cur) : Dom(graph, c, idom[cur])
    BY <1>1, <1>4, <1>6, IdomFacts
  <2>2. idom[cur] \in Blocks(graph) /\ Dom(graph, idom[cur], cur)
    BY <2>1 DEF Strict
  <2>3. Dominates(idom[cur], node)
    BY <1>1, <1>4, <2>2, DomTransitive DEF Dominates
  <2> QED
    BY <1>3, <2>1, <2>2, <2>3
<1>7. idom[cur] = target => Dominates(target, node)
  <2>1. target # 0
    BY <1>2 DEF Blocks
  <2> QED
    BY <1>6, <2>1
<1> QED
  BY <1>1, <1>2, <1>5, <1>6, <1>7

LEMMA LatchStep ==
    ASSUME LoopInv, LatchInv, [Next]_vars
    PROVE  LatchInv'
<1>1. LoopShapes' /\ TreeInv'
  BY LoopStep, TreeStep DEF LoopInv, LatchInv
<1>2. CASE FindLoops
  <2>1. UNCHANGED graph
    BY <1>2 DEF FindLoops
  <2>2. CASE AskSelf
    <3>1. UNCHANGED <<node, edge, loops>> /\ target = node /\ phase' = "body"
      BY <2>2 DEF AskSelf, StartBody
    <3>2. Searching'
      BY <2>1, <3>1, SameEdge DEF Searching, Dominates
    <3> QED
      BY <1>1, <2>1, <3>1, <3>2, NothingAsked DEF LatchInv, Walking, AllAsked
  <2>3. CASE Ask
    <3>1. /\ UNCHANGED <<node, edge, loops>> /\ target # node /\ HasEdge
          /\ phase' = "walk" /\ cur' = node
      BY <2>3 DEF Ask
    <3>2. node \in Blocks(graph)
      BY <3>1, EdgeFacts DEF LatchInv, LoopShapes
    <3>3. Walking'
      BY <2>1, <3>1, <3>2, SameEdge, SameTree DEF Walking, Dominates
    <3> QED
      BY <1>1, <2>1, <3>1, <3>3, NothingAsked DEF LatchInv, Searching, AllAsked
  <2>4. CASE NotDominated
    <3>1. /\ UNCHANGED <<node, loops>> /\ edge' = edge + 1 /\ phase' = "edge"
          /\ ~Dominates(target, node) /\ HasEdge
      BY <2>4, WalkFacts DEF NotDominated
    <3> QED
      BY <1>1, <2>1, <3>1, EdgePassed DEF LatchInv, Walking, Searching, AllAsked
  <2>5. CASE WalkUp
    <3>1. /\ UNCHANGED <<phase, node, edge, loops>> /\ phase = "walk"
          /\ idom[cur] # 0 /\ idom[cur] # target /\ cur' = idom[cur]
      BY <2>5 DEF WalkUp, Climbed
    <3>2. Walking'
      BY <2>1, <3>1, WalkFacts, SameEdge, SameTree DEF Walking
    <3> QED
      BY <1>1, <2>1, <3>1, <3>2, NothingAsked DEF LatchInv, Searching, AllAsked
  <2>6. CASE Dominated
    <3>1. UNCHANGED <<node, edge, loops>> /\ phase' = "body" /\ Dominates(target, node)
      BY <2>6, WalkFacts DEF Dominated, StartBody
    <3>2. Searching'
      BY <2>1, <3>1, SameEdge, SameTree DEF Searching
    <3> QED
      BY <1>1, <2>1, <3>1, <3>2, NothingAsked DEF LatchInv, Walking, AllAsked
  <2>7. CASE \E n \in work : Grow(n)
    <3>1. UNCHANGED <<phase, node, edge, loops>> /\ phase = "body"
      BY <2>7 DEF Grow
    <3>2. Searching'
      BY <2>1, <3>1, SameEdge, SameTree DEF LatchInv, Searching
    <3> QED
      BY <1>1, <2>1, <3>1, <3>2, NothingAsked DEF LatchInv, Walking, AllAsked
  <2>8. CASE Record
    <3>1. /\ UNCHANGED node /\ edge' = edge + 1 /\ phase = "body" /\ phase' = "edge"
          /\ HasEdge
      BY <2>8 DEF Record, LatchInv, LoopShapes
    <3>2. Dominates(target, node)
      BY <3>1 DEF LatchInv, Searching
    <3>3. \A h, m \in Blocks(graph) :
            AskedEdge(h, m)' <=> AskedEdge(h, m) \/ (m = node /\ h = target)
      BY <2>1, <3>1, OneMoreAsked DEF LatchInv
    <3>4. /\ \A h, m : IsLatch(h, m)' <=> IsLatch(h, m) \/ (h = target /\ m = node)
          /\ OneLoopEach'
      BY <2>8, RecordAdds
    <3>5. LatchesSoFar'
      BY <2>1, <3>2, <3>3, <3>4, SameTree DEF LatchesSoFar, LatchInv
    <3> QED
      BY <1>1, <3>1, <3>4, <3>5 DEF LatchInv, Walking, Searching, AllAsked
  <2>9. CASE NextNode
    <3>1. phase' = "edge"
      BY <2>9 DEF NextNode
    <3> QED
      BY <1>1, <2>1, <2>9, <3>1, NodePassed DEF LatchInv, Walking, Searching, AllAsked
  <2>10. CASE Finish
    <3>1. UNCHANGED <<node, edge, loops>> /\ phase' = "done" /\ node > Len(graph)
      BY <2>10 DEF Finish
    <3> QED
      BY <1>1, <2>1, <3>1, NothingAsked DEF LatchInv, Walking, Searching, AllAsked
  <2> QED
    BY <1>2, <2>2, <2>3, <2>4, <2>5, <2>6, <2>7, <2>8, <2>9, <2>10 DEF FindLoops, LoopsNext
<1>3. CASE FindConvergence \/ Returned \/ UNCHANGED vars
  <2>1. UNCHANGED <<graph, loopVars>>
    BY <1>3 DEF FindConvergence, Returned, vars
  <2>2. UNCHANGED <<graph, phase, node, edge, cur, loops>>
    BY <2>1 DEF loopVars
  <2>3. Walking' /\ Searching' /\ AllAsked'
    BY <2>2, SameEdge, SameTree DEF LatchInv, Walking, Searching, AllAsked
  <2> QED
    BY <1>1, <2>2, <2>3, NothingAsked DEF LatchInv
<1> QED
  BY <1>2, <1>3 DEF Next

LEMMA AllEdgesAsked ==
    ASSUME LatchInv, phase = "done", NEW h \in Blocks(graph), NEW m \in Blocks(graph)
    PROVE  IsLatch(h, m) <=> h \in Targets(graph, m) /\ Dominates(h, m)
<1>1. m < node
  BY DEF LatchInv, AllAsked, LoopShapes, Blocks
<1>2. AskedEdge(h, m) <=> h \in Targets(graph, m)
  BY <1>1 DEF AskedEdge, Asked, Targets
<1> QED
  BY <1>2 DEF LatchInv, LatchesSoFar

LEMMA LatchesAre == LatchInv => LatchesAreBackEdges
BY AllEdgesAsked DEF LatchInv, OneLoopEach, LatchesAreBackEdges, IsLatch, Dominates

(***************************************************************************)
(* dominance.rs, find_natural_loops and dominates: in every graph no two   *)
(* loops have one header, and when the search is over the latches of a     *)
(* header are the blocks with an edge to it that it dominates.             *)
(***************************************************************************)
THEOREM LatchesAreTheBackEdges == Spec => []LatchesAreBackEdges
<1>1. Init => LoopInv /\ LatchInv
  BY LoopInit, LatchStart
<1>2. LoopInv /\ LatchInv /\ [Next]_vars => (LoopInv /\ LatchInv)'
  BY LoopStep, LatchStep
<1>3. LoopInv /\ LatchInv => LatchesAreBackEdges
  BY LatchesAre
<1> QED
  BY <1>1, <1>2, <1>3, PTL DEF Spec

-----------------------------------------------------------------------------
(* Nesting.                                                                *)

\* A natural loop of back edges.
BackLoop(l) ==
    /\ l \in LoopRecord /\ l.header \notin l.latches /\ NaturalBody(l)
    /\ \A m \in l.latches : l.header \in Targets(graph, m) /\ Dom(graph, l.header, m)

LEMMA PlainLoops ==
    ASSUME LatchInv, BodiesOfLatches, phase = "done", NEW i, Plain(i)
    PROVE  BackLoop(loops[i])
<1> DEFINE l == loops[i]
<1>1. i \in 1 .. Len(loops) /\ l \in LoopRecord /\ l.header \notin l.latches
  BY DEF LatchInv, LoopShapes, Plain
<1>2. NaturalBody(l)
  BY <1>1 DEF BodiesOfLatches
<1>3. l.header \in Blocks(graph) /\ l.latches \subseteq Blocks(graph)
  BY <1>1 DEF LoopRecord
<1>4. ASSUME NEW m \in l.latches
      PROVE  l.header \in Targets(graph, m) /\ Dom(graph, l.header, m)
  <2>1. IsLatch(l.header, m)
    BY <1>1 DEF IsLatch
  <2>2. l.header \in Targets(graph, m) /\ Dominates(l.header, m)
    BY <1>3, <2>1, AllEdgesAsked
  <2> QED
    BY <1>1, <2>2 DEF Dominates
<1> QED
  BY <1>1, <1>2, <1>4 DEF BackLoop

\* The header of a loop dominates what control can reach of its body.
LEMMA HeaderDominates ==
    ASSUME Graph(graph), NEW l, BackLoop(l), NEW n \in l.body \cap Reachable(graph)
    PROVE  Dom(graph, l.header, n)
<1> DEFINE S == {k \in Blocks(graph) : k \in Reachable(graph) => Dom(graph, l.header, k)}
<1>1. l.header \in S /\ l.latches \subseteq S
  BY DomFacts DEF BackLoop, LoopRecord
<1>2. ASSUME NEW k \in S, k # l.header, NEW p \in Preds(k), p \in Reachable(graph)
      PROVE  Dom(graph, l.header, p)
  <2>1. k \in Targets(graph, p)
    BY DEF Preds
  <2>2. k \in Reachable(graph)
    BY <1>2, <2>1, ReachableIsLeast
  <2> QED
    BY <1>2, <2>1, <2>2, DomOfPred
<1>3. ClosedBack(S, l.header)
  BY <1>2 DEF ClosedBack, Preds
<1>4. l.body \subseteq S
  BY <1>1, <1>3 DEF BackLoop, NaturalBody, Encloses
<1> QED
  BY <1>4

\* The header further down is in the loop of the one further up.
LEMMA InnerHeader ==
    ASSUME Graph(graph), NEW k, BackLoop(k), NEW h, h # k.header, Dom(graph, k.header, h),
           NEW x \in k.body \cap Reachable(graph), Dom(graph, h, x)
    PROVE  h \in k.body
<1> SUFFICES ASSUME h \notin k.body PROVE FALSE
  OBVIOUS
<1> DEFINE C == (Blocks(graph) \ k.body) \cup Without(graph, h)
<1>1. Without(graph, h) \subseteq Blocks(graph) /\ x \notin Without(graph, h)
  BY WithoutIsLeast, ReachableIsLeast, DomIs
<1>2. k.header \in Without(graph, h)
  <2>1. ~Dom(graph, h, k.header)
    BY DomAntisymmetric
  <2>2. k.header \in Reachable(graph)
    BY DomFacts
  <2> QED
    BY <2>1, <2>2, DomIs
<1>3. 1 \in C
  BY WithoutIsLeast, ReachableIsLeast
<1>4. ASSUME NEW n \in C, NEW t \in Targets(graph, n) PROVE t \in C
  <2>1. n \in Blocks(graph) /\ t \in Blocks(graph)
    BY <1>1, TargetsAreBlocks DEF Graph
  <2>2. CASE n \in Without(graph, h)
    BY <2>1, <2>2, WithoutIsLeast
  <2>3. CASE n \notin k.body
    <3>1. t \in k.body /\ t # k.header => n \in k.body
      <4>1. n \in Preds(t)
        BY <2>1 DEF Preds
      <4> QED
        BY <4>1 DEF BackLoop, NaturalBody, Encloses, ClosedBack
    <3> QED
      BY <1>2, <2>1, <2>3, <3>1
  <2> QED
    BY <2>2, <2>3
<1> HIDE DEF C
<1>5. Reachable(graph) \subseteq C
  BY <1>3, <1>4, ReachableIsLeast
<1> QED
  BY <1>1, <1>5 DEF C

\* Of two loops that share a live block, the one further down is inside.
LEMMA InnerBody ==
    ASSUME Graph(graph), NEW k, BackLoop(k), NEW l, BackLoop(l), l.header # k.header,
           Dom(graph, k.header, l.header), l.header \in k.body
    PROVE  l.body \cap Reachable(graph) \subseteq k.body
<1> DEFINE S == {n \in Blocks(graph) :
                    n \in Reachable(graph) => n \in k.body /\ Dom(graph, l.header, n)}
<1>1. l.header \in S
  BY DomFacts DEF BackLoop, LoopRecord
<1>2. l.latches \subseteq S
  <2> SUFFICES ASSUME NEW m \in l.latches PROVE m \in S
    OBVIOUS
  <2>1. m \in Blocks(graph) /\ l.header \in Targets(graph, m) /\ Dom(graph, l.header, m)
    BY DEF BackLoop, LoopRecord
  <2>2. m \in Preds(l.header)
    BY <2>1 DEF Preds
  <2>3. m \in k.body
    BY <2>2 DEF BackLoop, NaturalBody, Encloses, ClosedBack
  <2> QED
    BY <2>1, <2>3
<1>3. ASSUME NEW n \in S, n # l.header, NEW p \in Preds(n), p \in Reachable(graph)
      PROVE  p \in k.body /\ Dom(graph, l.header, p)
  <2>1. n \in Targets(graph, p)
    BY DEF Preds
  <2>2. n \in Reachable(graph)
    BY <1>3, <2>1, ReachableIsLeast
  <2>3. n \in k.body /\ Dom(graph, l.header, n)
    BY <2>2
  <2>4. n # k.header
    BY <2>3, DomAntisymmetric
  <2>5. p \in k.body
    BY <2>3, <2>4 DEF BackLoop, NaturalBody, Encloses, ClosedBack
  <2> QED
    BY <1>3, <2>1, <2>3, <2>5, DomOfPred
<1>4. ClosedBack(S, l.header)
  BY <1>3 DEF ClosedBack, Preds
<1>5. l.body \subseteq S
  BY <1>1, <1>2, <1>4 DEF BackLoop, NaturalBody, Encloses
<1> QED
  BY <1>5

LEMMA LoopsDoNest ==
    ASSUME LatchInv, BodiesOfLatches
    PROVE  LoopsNest
<1> SUFFICES ASSUME phase = "done", NEW i \in 1 .. Len(loops), NEW j \in 1 .. Len(loops),
                    Plain(i), Plain(j), NEW x \in Live(i) \cap Live(j), i # j
             PROVE  Live(i) \subseteq Live(j) \/ Live(j) \subseteq Live(i)
  BY Zenon DEF LoopsNest
<1> DEFINE k == loops[i]
           l == loops[j]
<1>1. Graph(graph) /\ k.header # l.header
  BY DEF LatchInv, TreeInv, OneLoopEach
<1>2. BackLoop(k) /\ BackLoop(l)
  BY PlainLoops
<1>3. x \in k.body \cap Reachable(graph) /\ x \in l.body \cap Reachable(graph)
  BY DEF Live
<1>4. Dom(graph, k.header, x) /\ Dom(graph, l.header, x)
  BY <1>1, <1>2, <1>3, HeaderDominates
<1>5. Dom(graph, k.header, l.header) \/ Dom(graph, l.header, k.header)
  BY <1>1, <1>4, DomChain
<1>6. CASE Dom(graph, k.header, l.header)
  <2>1. l.header \in k.body
    BY <1>1, <1>2, <1>3, <1>4, <1>6, InnerHeader
  <2>2. l.body \cap Reachable(graph) \subseteq k.body
    BY <1>1, <1>2, <1>6, <2>1, InnerBody
  <2> QED
    BY <2>2 DEF Live
<1>7. CASE Dom(graph, l.header, k.header)
  <2>1. k.header \in l.body
    BY <1>1, <1>2, <1>3, <1>4, <1>7, InnerHeader
  <2>2. k.body \cap Reachable(graph) \subseteq l.body
    BY <1>1, <1>2, <1>7, <2>1, InnerBody
  <2> QED
    BY <2>2 DEF Live
<1> QED
  BY <1>5, <1>6, <1>7

(***************************************************************************)
(* dominance.rs, find_natural_loops: in every graph, of any two loops      *)
(* whose headers do not jump to themselves, the blocks control can reach   *)
(* are apart or those of one are all in the other.                         *)
(***************************************************************************)
THEOREM NaturalLoopsNest == Spec => []LoopsNest
<1>1. Init => LoopInv /\ LatchInv
  BY LoopInit, LatchStart
<1>2. LoopInv /\ LatchInv /\ [Next]_vars => (LoopInv /\ LatchInv)'
  BY LoopStep, LatchStep
<1>3. LoopInv /\ LatchInv => LoopsNest
  BY LoopsDoNest DEF LoopInv
<1> QED
  BY <1>1, <1>2, <1>3, PTL DEF Spec
-----------------------------------------------------------------------------
(* Convergence: the subtree the branch dominates.                          *)

ChildRound(C) == C \cup UNION {Children(m) : m \in C}

LEMMA ChildRoundIs ==
    ASSUME NEW C, NEW t
    PROVE  t \in ChildRound(C) <=> t \in C \/ (t \in Blocks(graph) /\ idom[t] \in C)
<1>1. PICK U : U = UNION {Children(m) : m \in C}
  OBVIOUS
<1>2. t \in U <=> \E m \in C : t \in Children(m)
  BY <1>1
<1>3. ChildRound(C) = C \cup U
  BY <1>1, Zenon DEF ChildRound
<1> QED
  BY <1>2, <1>3 DEF Children

\* The recursion of collect_subtree, unfolded.
LEMMA SubtreeUnfolds ==
    ASSUME WellWired(graph), NEW b \in Blocks(graph)
    PROVE  \E f \in [Nat -> SUBSET Blocks(graph)] :
              /\ f[0] = {b}
              /\ \A k \in Nat : f[k + 1] = ChildRound(f[k])
              /\ DominatedBy(b) = f[Len(graph)]
<1> DEFINE f == CHOOSE f : f = [k \in Nat |->
            IF k = 0 THEN {b}
            ELSE f[k - 1] \cup UNION {Children(m) : m \in f[k - 1]}]
<1>1. DominatedBy(b) = f[Len(graph)]
  BY DEF DominatedBy
<1>2. PICK V : V = SUBSET Blocks(graph)
  OBVIOUS
<1>3. \A C \in V : ChildRound(C) \in V
  BY <1>2, ChildRoundIs
<1>4. PICK step \in [V -> V] : \A C \in V : step[C] = ChildRound(C)
  <2>1. [C \in V |-> ChildRound(C)] \in [V -> V]
    BY <1>3
  <2> QED
    BY <2>1
<1>5. PICK h \in [Nat -> V] : h[0] = {b} /\ \A n \in Nat : h[n + 1] = step[h[n]]
  <2>1. {b} \in V
    BY <1>2
  <2> QED
    BY <2>1, IterationExists
<1>6. \A k \in Nat : h[k + 1] = ChildRound(h[k])
  BY <1>4, <1>5
<1>7. h = [k \in Nat |->
            IF k = 0 THEN {b}
            ELSE h[k - 1] \cup UNION {Children(m) : m \in h[k - 1]}]
  <2>1. \A k \in Nat : k # 0 => h[k] = ChildRound(h[k - 1])
    <3> TAKE k \in Nat
    <3> HAVE k # 0
    <3>1. k - 1 \in Nat /\ (k - 1) + 1 = k
      OBVIOUS
    <3> QED
      BY <1>6, <3>1
  <2>2. \A k \in Nat : k # 0 =>
            h[k] = h[k - 1] \cup UNION {Children(m) : m \in h[k - 1]}
    BY <2>1 DEF ChildRound
  <2>3. h = [k \in Nat |-> h[k]] /\ h[0] = {b}
    BY <1>5
  <2> QED
    BY <2>2, <2>3
<1>8. f = [k \in Nat |->
            IF k = 0 THEN {b}
            ELSE f[k - 1] \cup UNION {Children(m) : m \in f[k - 1]}]
  BY <1>7, Zenon
<1> HIDE DEF f
<1>9. f = [k \in Nat |-> IF k = 0 THEN {b} ELSE ChildRound(f[k - 1])]
  BY <1>8 DEF ChildRound
<1>10. f[0] = {b} /\ \A k \in Nat : f[k + 1] = ChildRound(f[k])
  <2>1. f[0] = {b}
    BY <1>9
  <2>2. \A k \in Nat : k # 0 => f[k] = ChildRound(f[k - 1])
    BY <1>9, Zenon
  <2>3. \A k \in Nat : k + 1 \in Nat /\ k + 1 # 0 /\ (k + 1) - 1 = k
    OBVIOUS
  <2>4. \A k \in Nat : f[k + 1] = ChildRound(f[k])
    BY <2>2, <2>3
  <2> QED
    BY <2>1, <2>4
<1>11. \A k \in Nat : f[k] \subseteq Blocks(graph)
  <2> DEFINE T == {k \in Nat : f[k] \subseteq Blocks(graph)}
  <2>1. 0 \in T
    BY <1>10
  <2>2. \A k \in Nat : k \in T => k + 1 \in T
    BY <1>2, <1>3, <1>10
  <2> HIDE DEF T
  <2>3. \A k \in Nat : k \in T
    BY <2>1, <2>2, AllNumbers
  <2> QED
    BY <2>3 DEF T
<1>12. f \in [Nat -> SUBSET Blocks(graph)]
  <2>1. PICK d : d = [k \in Nat |-> IF k = 0 THEN {b} ELSE ChildRound(f[k - 1])]
    OBVIOUS
  <2>2. f = d /\ d = [k \in Nat |-> d[k]]
    BY <1>9, <2>1
  <2> QED
    BY <1>11, <2>2
<1> QED
  BY <1>1, <1>10, <1>12

\* The subtree is the least set with the block and the children of its members.
LEMMA SubtreeIsLeast ==
    ASSUME WellWired(graph), NEW b \in Blocks(graph)
    PROVE  /\ DominatedBy(b) \subseteq Blocks(graph) /\ b \in DominatedBy(b)
           /\ \A n \in Blocks(graph) : idom[n] \in DominatedBy(b) => n \in DominatedBy(b)
           /\ \A C : b \in C /\ (\A n \in Blocks(graph) : idom[n] \in C => n \in C)
                     => DominatedBy(b) \subseteq C
<1>1. PICK f \in [Nat -> SUBSET Blocks(graph)] :
              /\ f[0] = {b}
              /\ \A k \in Nat : f[k + 1] = ChildRound(f[k])
              /\ DominatedBy(b) = f[Len(graph)]
  BY SubtreeUnfolds, Zenon
<1>2. Len(graph) \in Nat /\ IsFiniteSet(Blocks(graph)) /\ Cardinality(Blocks(graph)) = Len(graph)
  BY BlocksAreFinite
<1>3. \A k \in Nat : f[k] \subseteq f[k + 1]
  BY <1>1, ChildRoundIs
<1>4. \A k \in Nat : b \in f[k]
  <2> DEFINE T == {k \in Nat : b \in f[k]}
  <2>1. 0 \in T /\ \A k \in Nat : k \in T => k + 1 \in T
    BY <1>1, <1>3
  <2> HIDE DEF T
  <2>2. \A k \in Nat : k \in T
    BY <2>1, AllNumbers
  <2> QED
    BY <2>2 DEF T
<1>5. ASSUME NEW C, b \in C, \A n \in Blocks(graph) : idom[n] \in C => n \in C
      PROVE  \A k \in Nat : f[k] \subseteq C
  <2> DEFINE T == {k \in Nat : f[k] \subseteq C}
  <2>1. 0 \in T
    BY <1>1, <1>5
  <2>2. \A k \in Nat : k \in T => k + 1 \in T
    <3> TAKE k \in Nat
    <3> HAVE k \in T
    <3>1. ASSUME NEW t \in f[k + 1] PROVE t \in C
      <4>1. f[k + 1] = ChildRound(f[k])
        BY <1>1
      <4>2. t \in f[k] \/ (t \in Blocks(graph) /\ idom[t] \in f[k])
        BY <3>1, <4>1, ChildRoundIs, Zenon
      <4>3. f[k] \subseteq C
        OBVIOUS
      <4> QED
        BY <1>5, <4>2, <4>3
    <3> QED
      BY <3>1
  <2> HIDE DEF T
  <2>3. \A k \in Nat : k \in T
    BY <2>1, <2>2, AllNumbers
  <2> QED
    BY <2>3 DEF T
<1>6. ASSUME NEW k \in Nat, f[k + 1] = f[k] PROVE f[(k + 1) + 1] = f[k + 1]
  <2>1. f[k + 1] = ChildRound(f[k]) /\ f[(k + 1) + 1] = ChildRound(f[k + 1])
    BY <1>1
  <2> QED
    BY <1>6, <2>1
<1>7. f[Len(graph) + 1] = f[Len(graph)]
  BY <1>2, <1>3, <1>6, RoundsAreEnough
<1>8. \A n \in Blocks(graph) : idom[n] \in f[Len(graph)] => n \in f[Len(graph)]
  BY <1>1, <1>2, <1>7, ChildRoundIs
<1> QED
  BY <1>1, <1>2, <1>4, <1>5, <1>8

\* collect_subtree finds the blocks the branch dominates.
LEMMA SubtreeIsDominated ==
    ASSUME TreeInv, NEW b \in Blocks(graph)
    PROVE  DominatedBy(b) = {n \in Blocks(graph) : n = b \/ Dom(graph, b, n)}
<1> DEFINE D == DominatedBy(b)
           I == {n \in Blocks(graph) : n = b \/ Dom(graph, b, n)}
           missed == {n \in I : n \notin D}
           size(n) == Cardinality(Dominators(graph, n))
           T == {size(n) : n \in missed}
<1>1. Graph(graph) /\ WellWired(graph)
  BY DEF TreeInv, Graph
<1>2. \A n \in Blocks(graph) : idom[n] \in I => n \in I
  <2> TAKE n \in Blocks(graph)
  <2> HAVE idom[n] \in I
  <2>1. idom[n] # 0
    BY DEF Blocks
  <2>2. Dom(graph, idom[n], n)
    BY <2>1, IdomFacts DEF Strict
  <2> QED
    BY <1>1, <2>2, DomTransitive
<1>3. D \subseteq I
  <2>1. b \in I
    OBVIOUS
  <2> HIDE DEF I
  <2> QED
    BY <1>1, <1>2, <2>1, SubtreeIsLeast
<1>4. SUFFICES ASSUME missed # {} PROVE FALSE
  BY <1>3
<1>5. \A n \in missed : n \in Blocks(graph) /\ n # b /\ Dom(graph, b, n) /\ n \notin D
  BY <1>1, SubtreeIsLeast
<1>6. \A n \in missed : size(n) \in Nat
  BY <1>1, <1>5, DominatorsGrow
<1>7. T \subseteq Nat /\ T # {}
  BY <1>4, <1>6
<1>8. PICK m \in T : \A k \in T : m <= k
  BY <1>7, LeastOf
<1>9. PICK n \in missed : m = size(n)
  BY <1>8
<1>10. b \in Strict(graph, n)
  BY <1>5 DEF Strict
<1>11. idom[n] \in Strict(graph, n) /\ Dom(graph, b, idom[n])
  BY <1>5, <1>10, IdomFacts
<1>12. idom[n] \in Blocks(graph) /\ Dom(graph, idom[n], n) /\ idom[n] # n
  BY <1>11 DEF Strict
<1>13. idom[n] \in missed
  <2>1. idom[n] \notin D
    BY <1>1, <1>5, SubtreeIsLeast
  <2> QED
    BY <1>11, <1>12, <2>1
<1>14. size(idom[n]) < size(n) /\ size(idom[n]) \in Nat /\ size(n) \in Nat
  BY <1>1, <1>12, DominatorsGrow
<1>15. size(n) <= size(idom[n])
  BY <1>8, <1>9, <1>13
<1> QED
  BY <1>14, <1>15
-----------------------------------------------------------------------------
(* Convergence: the searches from the arms.                                *)

\* What the search from arm s is to find.
Outside(s) == Spread(graph, {s}, Blocked)

Members(q) == {q[k] : k \in 1 .. Len(q)}

Queued == Members(queue)

SearchShapes ==
    /\ TreeInv
    /\ stage \in {"idle", "arms", "search", "answered"}
    /\ stage = "idle" => sets = <<>>
    /\ stage # "idle" => branch \in Blocks(graph)
    /\ queue \in Seq(Blocks(graph))
    /\ sets \in Seq(SUBSET Blocks(graph)) /\ Len(sets) <= 2
    /\ stage = "search" => Len(arms) = 2 /\ Len(sets) < 2
    /\ Len(sets) > 0 => Len(arms) = 2

\* The searches that have ended.
Searched == \A i \in 1 .. Len(sets) : sets[i] = Outside(arms[i])

\* The search under way.
Underway ==
    stage = "search" =>
        LET s == arms[Len(sets) + 1]
        IN  /\ {s} \ Blocked \subseteq seen /\ seen \subseteq Outside(s)
            /\ Queued \subseteq seen
            /\ \A n \in seen \ Queued : Targets(graph, n) \ Blocked \subseteq seen

SearchInv == SearchShapes /\ Searched /\ Underway

LEMMA SameBranch ==
    ASSUME UNCHANGED <<graph, idom, branch>>
    PROVE  /\ Blocks(graph)' = Blocks(graph) /\ arms' = arms /\ Blocked' = Blocked
           /\ \A s : Outside(s)' = Outside(s)
<1>1. Blocked' = Blocked
  BY DEF Blocked, DominatedBy, Children, Blocks
<1> QED
  BY <1>1 DEF arms, Outside

\* The arms of a branch are blocks.
LEMMA ArmsAreBlocks ==
    ASSUME SearchShapes, stage # "idle", NEW k \in 1 .. Len(arms)
    PROVE  arms[k] \in Blocks(graph) /\ arms[k] \in Targets(graph, branch)
<1>1. branch \in Blocks(graph) /\ WellWired(graph)
  BY DEF SearchShapes, TreeInv, Graph
<1>2. arms[k] \in Targets(graph, branch)
  BY DEF arms, Targets
<1> QED
  BY <1>1, <1>2, TargetsAreBlocks

\* What Outside means: the least set with the arm and the targets of its
\* members that are not blocked.
LEMMA OutsideIsLeast ==
    ASSUME SearchShapes, NEW s \in Blocks(graph)
    PROVE  /\ Outside(s) \subseteq Blocks(graph) /\ {s} \ Blocked \subseteq Outside(s)
           /\ \A n \in Outside(s) : Targets(graph, n) \ Blocked \subseteq Outside(s)
           /\ \A C : /\ {s} \ Blocked \subseteq C
                     /\ \A n \in C : Targets(graph, n) \ Blocked \subseteq C
                     => Outside(s) \subseteq C
<1>1. WellWired(graph) /\ {s} \subseteq Blocks(graph)
  BY DEF SearchShapes, TreeInv, Graph
<1>2. PICK B : B = Blocked
  OBVIOUS
<1>3. /\ Spread(graph, {s}, B) \subseteq Blocks(graph)
      /\ {s} \ B \subseteq Spread(graph, {s}, B)
      /\ Closed(graph, Spread(graph, {s}, B), B)
      /\ \A C : {s} \ B \subseteq C /\ Closed(graph, C, B) => Spread(graph, {s}, B) \subseteq C
  BY <1>1, SpreadIsLeast
<1>4. Outside(s) = Spread(graph, {s}, B)
  BY <1>2 DEF Outside
<1> QED
  BY <1>2, <1>3, <1>4 DEF Closed

\* The targets of a block are its first and its second successor.
LEMMA TwoSuccessors ==
    ASSUME WellWired(graph), NEW n \in Blocks(graph)
    PROVE  /\ Succ(graph, n) \in Seq(Nat)
           /\ Len(Succ(graph, n)) <= 2
<1>1. graph[n] \in Terminators(n, Len(graph)) /\ n \in Nat /\ Len(graph) \in Nat
  BY DEF WellWired, Blocks
<1>2. CASE graph[n] \in {Return, LostJump, LostBranch}
  BY <1>2 DEF Succ, Return, LostJump, LostBranch
<1>3. CASE \E t \in 1 .. Len(graph) : graph[n] = Jump(t)
  BY <1>1, <1>3 DEF Succ, Jump
<1>4. CASE n < Len(graph) /\ \E t \in 1 .. Len(graph) : graph[n] = Branch(t, n + 1)
  <2>1. PICK t \in 1 .. Len(graph) : graph[n] = Branch(t, n + 1)
    BY <1>4
  <2>2. Succ(graph, n) = <<n + 1, t>>
    BY <2>1 DEF Succ, Branch
  <2> QED
    BY <1>1, <2>2
<1> QED
  BY <1>1, <1>2, <1>3, <1>4 DEF Terminators

LEMMA MembersOfConcat ==
    ASSUME NEW S, NEW p \in Seq(S), NEW q \in Seq(S)
    PROVE  p \o q \in Seq(S) /\ Members(p \o q) = Members(p) \cup Members(q)
<1>1. /\ p \o q \in Seq(S) /\ Len(p \o q) = Len(p) + Len(q)
      /\ Len(p) \in Nat /\ Len(q) \in Nat
      /\ \A k \in 1 .. Len(p) : (p \o q)[k] = p[k]
      /\ \A k \in 1 .. Len(q) : (p \o q)[Len(p) + k] = q[k]
  OBVIOUS
<1> DEFINE r == p \o q
<1> HIDE DEF r
<1>2. ASSUME NEW t \in Members(r) PROVE t \in Members(p) \cup Members(q)
  <2>1. PICK k \in 1 .. Len(r) : t = r[k]
    BY DEF Members
  <2>2. k <= Len(p) \/ (k - Len(p) \in 1 .. Len(q) /\ k = Len(p) + (k - Len(p)))
    BY <1>1 DEF r
  <2>3. CASE k <= Len(p)
    BY <1>1, <2>1, <2>3 DEF Members, r
  <2>4. CASE k - Len(p) \in 1 .. Len(q) /\ k = Len(p) + (k - Len(p))
    BY <1>1, <2>1, <2>4 DEF Members, r
  <2> QED
    BY <2>2, <2>3, <2>4
<1>3. Members(p) \subseteq Members(r)
  <2>1. \A k \in 1 .. Len(p) : k \in 1 .. Len(r) /\ r[k] = p[k]
    BY <1>1 DEF r
  <2> QED
    BY <2>1 DEF Members
<1>4. Members(q) \subseteq Members(r)
  <2>1. \A k \in 1 .. Len(q) : Len(p) + k \in 1 .. Len(r) /\ r[Len(p) + k] = q[k]
    BY <1>1 DEF r
  <2> QED
    BY <2>1 DEF Members
<1> QED
  BY <1>1, <1>2, <1>3, <1>4 DEF r

LEMMA MembersOfOne ==
    /\ Members(<<>>) = {}
    /\ \A t : Members(<<t>>) = {t}
BY DEF Members

\* Exactly the successors that are neither blocked nor seen are enqueued.
LEMMA FreshFacts ==
    ASSUME SearchShapes, NEW n \in Blocks(graph)
    PROVE  /\ Fresh(n) \in Seq(Blocks(graph))
           /\ Members(Fresh(n)) = (Targets(graph, n) \ Blocked) \ seen
<1> DEFINE s == Succ(graph, n)
           out == Blocked \cup seen
<1>1. s \in Seq(Nat) /\ Len(s) <= 2 /\ Len(s) \in Nat /\ WellWired(graph)
  BY TwoSuccessors DEF SearchShapes, TreeInv, Graph
<1>2. Targets(graph, n) \subseteq Blocks(graph)
  BY <1>1, TargetsAreBlocks
<1>3. \A t : t \in Targets(graph, n) <=> \E k \in 1 .. Len(s) : t = s[k]
  BY DEF Targets
<1>4. \A k : k \in DOMAIN s <=> k \in 1 .. Len(s)
  BY <1>1
<1>5. \A k \in {1, 2} : Enqueued(n, k) =
        IF k \in 1 .. Len(s) /\ s[k] \notin out /\ (k = 2 => s[1] # s[2])
        THEN <<s[k]>> ELSE <<>>
  BY <1>4 DEF Enqueued
<1> HIDE DEF s, out
<1>6. \A k \in {1, 2} :
        /\ Enqueued(n, k) \in Seq(Blocks(graph))
        /\ Members(Enqueued(n, k)) =
                IF k \in 1 .. Len(s) /\ s[k] \notin out /\ (k = 2 => s[1] # s[2])
                THEN {s[k]} ELSE {}
  <2> TAKE k \in {1, 2}
  <2>1. CASE k \in 1 .. Len(s) /\ s[k] \notin out /\ (k = 2 => s[1] # s[2])
    <3>1. Enqueued(n, k) = <<s[k]>> /\ s[k] \in Blocks(graph)
      BY <1>2, <1>3, <1>5, <2>1
    <3>2. Members(<<s[k]>>) = {s[k]}
      BY MembersOfOne
    <3>3. <<s[k]>> \in Seq(Blocks(graph))
      BY <3>1
    <3>4. Enqueued(n, k) \in Seq(Blocks(graph)) /\ Members(Enqueued(n, k)) = {s[k]}
      BY <3>1, <3>2, <3>3, Zenon
    <3> QED
      BY <2>1, <3>4, Zenon
  <2>2. CASE ~(k \in 1 .. Len(s) /\ s[k] \notin out /\ (k = 2 => s[1] # s[2]))
    <3>1. Enqueued(n, k) = <<>>
      BY <1>5, <2>2, Zenon
    <3>2. Enqueued(n, k) \in Seq(Blocks(graph)) /\ Members(Enqueued(n, k)) = {}
      BY <3>1, MembersOfOne
    <3> QED
      BY <2>2, <3>2, Zenon
  <2> QED
    BY <2>1, <2>2
<1>7. /\ Fresh(n) \in Seq(Blocks(graph))
      /\ Members(Fresh(n)) = Members(Enqueued(n, 1)) \cup Members(Enqueued(n, 2))
  BY <1>6, MembersOfConcat DEF Fresh
<1>8. \A t : t \in Members(Fresh(n)) <=> t \in Targets(graph, n) /\ t \notin out
  BY <1>1, <1>3, <1>6, <1>7
<1> QED
  BY <1>7, <1>8 DEF out
LEMMA SearchStart == Init => SearchInv
BY TreeStart DEF Init, ConvergenceInit, SearchInv, SearchShapes, Searched, Underway

LEMMA SameSearched ==
    ASSUME SearchInv, UNCHANGED <<graph, idom, branch, sets>>
    PROVE  Searched'
BY SameBranch DEF SearchInv, Searched

LEMMA BeginStep ==
    ASSUME SearchInv, NEW b \in Blocks(graph), Begin(b), UNCHANGED <<graph, idom>>
    PROVE  SearchInv'
<1>1. /\ stage = "idle" /\ branch' = b /\ stage' = "arms"
      /\ UNCHANGED <<queue, sets>> /\ sets = <<>>
  BY DEF Begin, SearchInv, SearchShapes
<1>2. TreeInv'
  BY DEF SearchInv, SearchShapes, TreeInv
<1>3. SearchShapes'
  BY <1>1, <1>2 DEF SearchInv, SearchShapes
<1> QED
  BY <1>1, <1>3 DEF SearchInv, Searched, Underway

LEMMA StartArmStep ==
    ASSUME SearchInv, StartArm, UNCHANGED <<graph, idom>>
    PROVE  SearchInv'
<1> DEFINE s == arms[Len(sets) + 1]
<1>1. /\ stage = "arms" /\ stage' = "search" /\ Len(arms) = 2 /\ Len(sets) < 2
      /\ queue' = (IF s \in Blocked THEN <<>> ELSE <<s>>)
      /\ seen' = {s} \ Blocked
      /\ UNCHANGED <<branch, sets>>
  BY DEF StartArm
<1>2. SearchShapes /\ TreeInv' /\ Len(sets) \in Nat
  BY DEF SearchInv, SearchShapes, TreeInv
<1>3. s \in Blocks(graph)
  BY <1>1, <1>2, ArmsAreBlocks
<1> HIDE DEF s
<1>4. queue' \in Seq(Blocks(graph)) /\ Members(queue') = seen'
  <2>1. CASE s \in Blocked
    BY <1>1, <2>1, MembersOfOne
  <2>2. CASE s \notin Blocked
    <3>1. queue' = <<s>> /\ Members(<<s>>) = {s} /\ <<s>> \in Seq(Blocks(graph)) /\ seen' = {s}
      BY <1>1, <1>3, <2>2, MembersOfOne
    <3> QED
      BY <3>1, Zenon
  <2> QED
    BY <2>1, <2>2
<1>5. /\ Blocks(graph)' = Blocks(graph) /\ arms' = arms /\ Blocked' = Blocked
      /\ \A t : Outside(t)' = Outside(t)
  BY <1>1, SameBranch
<1>6. SearchShapes'
  BY <1>1, <1>2, <1>4, <1>5 DEF SearchShapes
<1>7. {s} \ Blocked \subseteq Outside(s)
  BY <1>2, <1>3, OutsideIsLeast
<1>8. Queued' = seen'
  BY <1>4 DEF Queued
<1>9. Underway'
  BY <1>1, <1>5, <1>7, <1>8 DEF Underway, s
<1> QED
  BY <1>1, <1>6, <1>9, SameSearched DEF SearchInv

LEMMA VisitStep ==
    ASSUME SearchInv, Visit, UNCHANGED <<graph, idom>>
    PROVE  SearchInv'
<1> DEFINE n == Head(queue)
           new == Fresh(n)
<1>0. PICK s : s = arms[Len(sets) + 1]
  OBVIOUS
<1>1. /\ stage = "search" /\ queue # <<>>
      /\ queue' = Tail(queue) \o new /\ seen' = seen \cup Members(new)
      /\ UNCHANGED <<branch, stage, sets>>
  BY DEF Visit, Members
<1>2. SearchShapes /\ TreeInv' /\ Len(sets) \in Nat /\ Len(sets) + 1 \in 1 .. Len(arms)
  <2>1. SearchShapes /\ TreeInv'
    BY DEF SearchInv, SearchShapes, TreeInv
  <2>2. Len(sets) \in Nat /\ Len(sets) < 2 /\ Len(arms) = 2
    BY <1>1, <2>1 DEF SearchShapes
  <2> QED
    BY <2>1, <2>2
<1>3. s \in Blocks(graph)
  BY <1>0, <1>1, <1>2, ArmsAreBlocks
<1>4. /\ {s} \ Blocked \subseteq seen /\ seen \subseteq Outside(s)
      /\ Queued \subseteq seen
      /\ \A m \in seen \ Queued : Targets(graph, m) \ Blocked \subseteq seen
  BY <1>0, <1>1 DEF SearchInv, Underway
<1>5. /\ n \in Blocks(graph) /\ Tail(queue) \in Seq(Blocks(graph))
      /\ Queued = {n} \cup Members(Tail(queue))
  <2>1. queue \in Seq(Blocks(graph)) /\ <<n>> \in Seq(Blocks(graph)) /\ n \in Blocks(graph)
        /\ Tail(queue) \in Seq(Blocks(graph)) /\ queue = <<n>> \o Tail(queue)
    BY <1>1, <1>2 DEF SearchShapes
  <2>2. Members(<<n>> \o Tail(queue)) = Members(<<n>>) \cup Members(Tail(queue))
    BY <2>1, MembersOfConcat
  <2>3. Members(<<n>>) = {n}
    BY MembersOfOne
  <2>4. Queued = {n} \cup Members(Tail(queue))
    BY <2>1, <2>2, <2>3, Zenon DEF Queued
  <2> QED
    BY <2>1, <2>4
<1>6. new \in Seq(Blocks(graph)) /\ Members(new) = (Targets(graph, n) \ Blocked) \ seen
  BY <1>2, <1>5, FreshFacts
<1> HIDE DEF n, new
<1>7. queue' \in Seq(Blocks(graph)) /\ Queued' = Members(Tail(queue)) \cup Members(new)
  <2>1. /\ Tail(queue) \o new \in Seq(Blocks(graph))
        /\ Members(Tail(queue) \o new) = Members(Tail(queue)) \cup Members(new)
    BY <1>5, <1>6, MembersOfConcat
  <2> QED
    BY <1>1, <2>1, Zenon DEF Queued
<1>8. /\ Blocks(graph)' = Blocks(graph) /\ arms' = arms /\ Blocked' = Blocked
      /\ \A t : Outside(t)' = Outside(t)
  BY <1>1, SameBranch
<1>9. SearchShapes'
  BY <1>1, <1>2, <1>7, <1>8 DEF SearchShapes
<1>10. seen' \subseteq Outside(s)
  <2>1. n \in Outside(s)
    BY <1>4, <1>5
  <2>2. Targets(graph, n) \ Blocked \subseteq Outside(s)
    BY <1>2, <1>3, <2>1, OutsideIsLeast
  <2> QED
    BY <1>1, <1>4, <1>6, <2>2
<1>11. \A m \in seen' \ Queued' : Targets(graph, m) \ Blocked \subseteq seen'
  <2> TAKE m \in seen' \ Queued'
  <2>1. m \in seen /\ (m = n \/ m \notin Queued)
    BY <1>1, <1>5, <1>7
  <2> QED
    BY <1>1, <1>4, <1>6, <2>1
<1>12. Underway'
  <2>1. {s} \ Blocked \subseteq seen' /\ Queued' \subseteq seen'
    BY <1>1, <1>4, <1>5, <1>7
  <2>2. arms'[Len(sets') + 1] = s
    BY <1>0, <1>1, <1>8
  <2>3. /\ {s} \ Blocked' \subseteq seen' /\ seen' \subseteq Outside(s)'
        /\ Queued' \subseteq seen'
        /\ \A m \in seen' \ Queued' : Targets(graph', m) \ Blocked' \subseteq seen'
    BY <1>8, <1>10, <1>11, <2>1
  <2> QED
    BY <2>2, <2>3 DEF Underway
<1> QED
  BY <1>1, <1>9, <1>12, SameSearched DEF SearchInv

LEMMA EndArmStep ==
    ASSUME SearchInv, EndArm, UNCHANGED <<graph, idom>>
    PROVE  SearchInv'
<1> DEFINE s == arms[Len(sets) + 1]
<1>1. /\ stage = "search" /\ queue = <<>> /\ stage' = "arms" /\ sets' = Append(sets, seen)
      /\ UNCHANGED <<branch, queue>>
  BY DEF EndArm
<1>2. /\ SearchShapes /\ TreeInv' /\ Len(sets) \in Nat /\ Len(sets) + 1 \in 1 .. Len(arms)
      /\ sets \in Seq(SUBSET Blocks(graph)) /\ Len(sets) < 2 /\ Len(arms) = 2
  <2>1. SearchShapes /\ TreeInv'
    BY DEF SearchInv, SearchShapes, TreeInv
  <2>2. /\ Len(sets) \in Nat /\ Len(sets) < 2 /\ Len(arms) = 2
        /\ sets \in Seq(SUBSET Blocks(graph))
    BY <1>1, <2>1 DEF SearchShapes
  <2> QED
    BY <2>1, <2>2
<1>3. s \in Blocks(graph)
  BY <1>1, <1>2, ArmsAreBlocks
<1>4. /\ {s} \ Blocked \subseteq seen /\ seen \subseteq Outside(s)
      /\ \A m \in seen : Targets(graph, m) \ Blocked \subseteq seen
  BY <1>1, MembersOfOne DEF SearchInv, Underway, Queued
<1> HIDE DEF s
<1>5. seen = Outside(s) /\ seen \in SUBSET Blocks(graph)
  <2>1. Outside(s) \subseteq seen /\ Outside(s) \subseteq Blocks(graph)
    BY <1>2, <1>3, <1>4, OutsideIsLeast
  <2> QED
    BY <1>4, <2>1
<1>6. /\ Blocks(graph)' = Blocks(graph) /\ arms' = arms /\ Blocked' = Blocked
      /\ \A t : Outside(t)' = Outside(t)
  BY <1>1, SameBranch
<1>7. /\ sets' \in Seq(SUBSET Blocks(graph)) /\ Len(sets') = Len(sets) + 1
      /\ sets'[Len(sets) + 1] = seen
      /\ \A i \in 1 .. Len(sets) : sets'[i] = sets[i]
  BY <1>1, <1>2, <1>5
<1>8. SearchShapes'
  BY <1>1, <1>2, <1>6, <1>7 DEF SearchShapes
<1>9. \A i \in 1 .. Len(sets') : sets'[i] = Outside(arms[i])
  <2> TAKE i \in 1 .. Len(sets')
  <2>1. CASE i \in 1 .. Len(sets)
    BY <1>7, <2>1 DEF SearchInv, Searched
  <2>2. CASE i = Len(sets) + 1
    BY <1>5, <1>7, <2>2 DEF s
  <2> QED
    BY <1>2, <1>7, <2>1, <2>2
<1>10. Searched'
  BY <1>6, <1>9 DEF Searched
<1> QED
  BY <1>1, <1>8, <1>10 DEF SearchInv, Underway

\* The steps that leave the search as it is.
LEMMA RestStep ==
    ASSUME SearchInv, UNCHANGED <<graph, idom, branch, seen, queue, sets>>,
           stage' = stage \/ (stage # "idle" /\ stage' = "answered")
    PROVE  SearchInv'
<1>1. /\ Blocks(graph)' = Blocks(graph) /\ arms' = arms /\ Blocked' = Blocked
      /\ \A t : Outside(t)' = Outside(t)
  BY SameBranch
<1>2. SearchShapes'
  BY <1>1 DEF SearchInv, SearchShapes, TreeInv
<1>3. Underway'
  <2>1. CASE stage' = "search"
    BY <1>1, <2>1 DEF SearchInv, Underway, Queued
  <2>2. CASE stage' # "search"
    BY <2>2 DEF Underway
  <2> QED
    BY <2>1, <2>2
<1> QED
  BY <1>2, <1>3, SameSearched DEF SearchInv

LEMMA SearchStep ==
    ASSUME SearchInv, [Next]_vars
    PROVE  SearchInv'
<1>1. CASE FindConvergence
  <2>1. UNCHANGED <<graph, idom>> /\ ConvergenceNext
    BY <1>1 DEF FindConvergence
  <2>2. CASE \E b \in Blocks(graph) : Begin(b)
    BY <2>1, <2>2, BeginStep
  <2>3. CASE TooFew \/ Choose
    BY <2>1, <2>3, RestStep DEF TooFew, Choose
  <2>4. CASE StartArm
    BY <2>1, <2>4, StartArmStep
  <2>5. CASE Visit
    BY <2>1, <2>5, VisitStep
  <2>6. CASE EndArm
    BY <2>1, <2>6, EndArmStep
  <2> QED
    BY <2>1, <2>2, <2>3, <2>4, <2>5, <2>6 DEF ConvergenceNext
<1>2. CASE FindLoops \/ Returned \/ UNCHANGED vars
  <2>1. UNCHANGED <<graph, idom, convergenceVars>>
    BY <1>2 DEF FindLoops, Returned, vars
  <2>2. UNCHANGED <<graph, idom, branch, stage, seen, queue, sets>>
    BY <2>1 DEF convergenceVars
  <2> QED
    BY <2>2, RestStep
<1> QED
  BY <1>1, <1>2 DEF Next

(***************************************************************************)
(* The answer: the least of what both searches found.                      *)
(***************************************************************************)
Chosen ==
    /\ stage # "answered" => answer = 0
    /\ stage = "answered" =>
        IF Len(arms) < 2 THEN answer = 0
        ELSE /\ Len(arms) = 2 /\ Len(sets) = 2
             /\ Common = {} => answer = 0
             /\ Common # {} => answer \in Common /\ \A n \in Common : answer <= n

LEMMA ChosenStart == Init => Chosen
BY DEF Init, ConvergenceInit, Chosen

LEMMA ChosenStep ==
    ASSUME SearchInv, Chosen, [Next]_vars
    PROVE  Chosen'
<1>1. CASE UNCHANGED <<graph, branch, stage, sets, answer>>
  BY <1>1 DEF Chosen, Common, arms
<1>2. CASE TooFew /\ UNCHANGED graph
  BY <1>2 DEF TooFew, Chosen, arms
<1>3. CASE Choose /\ UNCHANGED graph
  <2>1. /\ Len(arms) = 2 /\ Len(sets) = 2 /\ stage' = "answered"
        /\ arms' = arms /\ sets' = sets /\ Common' = Common
    BY <1>3 DEF Choose, arms, Common
  <2>2. Common \subseteq Nat
    <3>1. sets \in Seq(SUBSET Blocks(graph)) /\ 1 \in 1 .. Len(sets)
      BY <2>1 DEF SearchInv, SearchShapes
    <3>2. sets[1] \in SUBSET Blocks(graph)
      BY <3>1
    <3> QED
      BY <3>2 DEF Common, Blocks
  <2>3. Common # {} => answer' \in Common /\ \A m \in Common : answer' <= m
    <3> SUFFICES ASSUME Common # {}
                 PROVE  answer' \in Common /\ \A m \in Common : answer' <= m
      OBVIOUS
    <3>1. \E n \in Common : \A m \in Common : n <= m
      BY <2>2, LeastOf
    <3>2. answer' = CHOOSE n \in Common : \A m \in Common : n <= m
      BY <1>3 DEF Choose
    <3> HIDE DEF Common
    <3> QED
      BY <3>1, <3>2
  <2>4. Common = {} => answer' = 0
    BY <1>3 DEF Choose
  <2>5. /\ Common' = {} => answer' = 0
        /\ Common' # {} => answer' \in Common' /\ \A n \in Common' : answer' <= n
    BY <2>1, <2>3, <2>4
  <2> QED
    BY <2>1, <2>5 DEF Chosen
<1>4. CASE stage' \in {"arms", "search"} /\ answer' = answer /\ stage # "answered"
  BY <1>4 DEF Chosen
<1>5. CASE FindConvergence
  <2>1. UNCHANGED graph /\ ConvergenceNext
    BY <1>5 DEF FindConvergence
  <2>2. ASSUME NEW b \in Blocks(graph), Begin(b) PROVE Chosen'
    BY <1>4, <2>2 DEF Begin
  <2>3. CASE StartArm \/ Visit \/ EndArm
    BY <1>4, <2>3 DEF StartArm, Visit, EndArm
  <2> QED
    BY <1>2, <1>3, <2>1, <2>2, <2>3 DEF ConvergenceNext
<1>6. CASE FindLoops \/ Returned \/ UNCHANGED vars
  BY <1>1, <1>6 DEF FindLoops, Returned, vars, convergenceVars
<1> QED
  BY <1>5, <1>6 DEF Next

\* What can be reached from an arm of a live branch is live.
LEMMA OutsideIsLive ==
    ASSUME SearchShapes, branch \in Reachable(graph), NEW s \in Targets(graph, branch)
    PROVE  Outside(s) \subseteq Reachable(graph)
<1>1. /\ Reachable(graph) \subseteq Blocks(graph)
      /\ \A n \in Reachable(graph) : Targets(graph, n) \subseteq Reachable(graph)
  BY ReachableIsLeast DEF SearchShapes, TreeInv
<1>2. s \in Blocks(graph) /\ {s} \ Blocked \subseteq Reachable(graph)
  BY <1>1
<1> QED
  BY <1>1, <1>2, OutsideIsLeast

LEMMA AnswersAround == SearchInv /\ Chosen => AnswersLieAround
<1> SUFFICES ASSUME SearchInv, Chosen, stage = "answered"
             PROVE  /\ answer = 0 <=> Meetings = {}
                    /\ answer # 0 =>
                        /\ answer \in Meetings
                        /\ \A n \in Meetings : answer <= n
                        /\ branch \in Reachable(graph) =>
                                answer \in Spread(graph, {1}, {branch})
  BY DEF AnswersLieAround
<1>1. branch \in Blocks(graph) /\ SearchShapes
  BY DEF SearchInv, SearchShapes
<1>2. Blocked = Inside
  BY <1>1, SubtreeIsDominated DEF SearchInv, SearchShapes, Blocked, Inside
<1>3. CASE Len(arms) < 2
  BY <1>3 DEF Chosen, Meetings
<1>4. CASE ~(Len(arms) < 2)
  <2>1. Len(arms) = 2 /\ Len(sets) = 2
    BY <1>4 DEF Chosen
  <2>2. sets[1] = Outside(arms[1]) /\ sets[2] = Outside(arms[2])
    BY <2>1 DEF SearchInv, Searched
  <2>3. Meetings = Common
    BY <1>2, <1>4, <2>2 DEF Meetings, Common, Outside
  <2>4. arms[1] \in Blocks(graph) /\ arms[1] \in Targets(graph, branch)
    BY <1>1, <2>1, ArmsAreBlocks
  <2>5. Common \subseteq Outside(arms[1]) /\ Outside(arms[1]) \subseteq Blocks(graph)
    BY <1>1, <2>2, <2>4, OutsideIsLeast DEF Common
  <2>6. answer = 0 <=> Common = {}
    BY <1>4, <2>5 DEF Chosen, Blocks
  <2>7. answer # 0 => answer \in Common /\ \A n \in Common : answer <= n
    BY <1>4, <2>6 DEF Chosen
  <2>8. ASSUME answer # 0, branch \in Reachable(graph)
        PROVE  answer \in Spread(graph, {1}, {branch})
    <3>1. answer \in Outside(arms[1]) /\ answer \in Reachable(graph)
      BY <1>1, <2>4, <2>5, <2>7, <2>8, OutsideIsLive
    <3>2. answer \notin Blocked
      <4> DEFINE C == Blocks(graph) \ Blocked
      <4>1. \A n \in C : Targets(graph, n) \ Blocked \subseteq C
        BY TargetsAreBlocks DEF SearchInv, SearchShapes, TreeInv, Graph
      <4>2. {arms[1]} \ Blocked \subseteq C
        BY <2>4
      <4> HIDE DEF C
      <4>3. Outside(arms[1]) \subseteq C
        BY <1>1, <2>4, <4>1, <4>2, OutsideIsLeast
      <4> QED
        BY <3>1, <4>3 DEF C
    <3> QED
      BY <1>2, <2>5, <3>1, <3>2 DEF Inside, Dom
  <2> QED
    BY <2>3, <2>6, <2>7, <2>8
<1> QED
  BY <1>3, <1>4

(***************************************************************************)
(* dominance.rs, find_convergence, forward_reachable and collect_subtree:  *)
(* in every graph and for every branch, the answer is the lowest block     *)
(* both arms lead to around all the branch dominates, None if there is     *)
(* none; it can be reached without the branch.                             *)
(***************************************************************************)
THEOREM AnswersAreAround == Spec => []AnswersLieAround
<1>1. Init => SearchInv /\ Chosen
  BY SearchStart, ChosenStart
<1>2. SearchInv /\ Chosen /\ [Next]_vars => SearchInv' /\ Chosen'
  BY SearchStep, ChosenStep
<1> QED
  BY <1>1, <1>2, AnswersAround, PTL DEF Spec
=============================================================================
