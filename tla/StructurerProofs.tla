-------------------------- MODULE StructurerProofs --------------------------
(***************************************************************************)
(* The structurer, for every control-flow graph: the order handed to the   *)
(* tree builder has every block exactly once and follows the edges that    *)
(* close no cycle, the headers of natural loops are among the targets of   *)
(* back edges, loops keep every block, and the text of a function with one *)
(* exit has every block.                                                   *)
(***************************************************************************)
EXTENDS Emission, FlowGraphProofs, SequenceTheorems

-----------------------------------------------------------------------------
(* The invariant.                                                          *)

Shapes ==
    /\ WellWired(graph)
    /\ pass \in {"dfs", "degrees", "kahn", "tree", "done"}
    /\ inDegree \in [Blocks(graph) -> Nat]
    /\ queue \in Seq(Blocks(graph))
    /\ popped \in Seq(Blocks(graph)) /\ Len(popped) <= 1
    /\ edge \in Nat \ {0}
    /\ free \in Seq(Blocks(graph))
    /\ order \in Seq(Blocks(graph))

\* The edges into t that Kahn's algorithm has still to take away.
Left(t) ==
    {e \in InEdges(t) :
        \/ e[1] \notin Elements(order)
        \/ popped # <<>> /\ popped[1] = e[1] /\ edge <= e[2]}

Before == pass \in {"dfs", "degrees"} => order = <<>> /\ popped = <<>>

Counted == pass = "kahn" => \A t \in Blocks(graph) : inDegree[t] = Cardinality(Left(t))

PoppedIsOrdered ==
    pass = "kahn" /\ popped # <<>> => popped[1] \in Elements(order)

\* What has been, is or will next be queued has no edge left.
NoneLeft ==
    pass = "kahn" =>
        /\ \A t \in Elements(order) : inDegree[t] = 0
        /\ \A t \in Elements(queue) : inDegree[t] = 0
        /\ popped # <<>> => \A t \in Elements(free) : inDegree[t] = 0

EachOnce ==
    pass = "kahn" =>
        /\ Distinct(order)
        /\ Distinct(queue)
        /\ Elements(order) \cap Elements(queue) = {}
        /\ popped # <<>> =>
            /\ Distinct(free)
            /\ Elements(free) \cap (Elements(order) \cup Elements(queue)) = {}

KahnInv == Shapes /\ Before /\ Counted /\ PoppedIsOrdered /\ NoneLeft /\ EachOnce

OrderInv == KahnInv /\ OrderIsPermutation

-----------------------------------------------------------------------------
(* Lists in order.                                                         *)

LEMMA SortedFacts ==
    ASSUME NEW S, NEW s \in Seq(S)
    PROVE  /\ Sorted(s) \in Seq(S)
           /\ Elements(Sorted(s)) = Elements(s)
           /\ Distinct(s) => Distinct(Sorted(s))
<1>1. CASE Len(s) = 2 /\ s[2] < s[1]
  <2>0. s[1] \in S /\ s[2] \in S
    BY <1>1
  <2>1. Sorted(s) = <<s[2], s[1]>>
    BY <1>1 DEF Sorted
  <2>2. Sorted(s) \in Seq(S) /\ Len(Sorted(s)) = 2
        /\ Sorted(s)[1] = s[2] /\ Sorted(s)[2] = s[1]
    BY <2>0, <2>1
  <2>3. 1 .. 2 = {1, 2}
    OBVIOUS
  <2> QED
    BY <1>1, <2>2, <2>3 DEF Elements, Distinct
<1>2. CASE ~(Len(s) = 2 /\ s[2] < s[1])
  BY <1>2 DEF Sorted
<1> QED
  BY <1>1, <1>2

\* A list of a set of blocks in address order has each of them once.
LEMMA AscendingFacts ==
    ASSUME NEW S, S \subseteq Nat, IsFiniteSet(S),
           NEW q \in [1 .. Cardinality(S) -> S], Ascending(S, q)
    PROVE  q \in Seq(S) /\ Elements(q) = S /\ Distinct(q)
<1>1. Cardinality(S) \in Nat
  BY FS_CardinalityType
<1>2. q \in Seq(S) /\ Len(q) = Cardinality(S)
  BY <1>1
<1>3. Elements(q) = S
  BY <1>2 DEF Elements, Ascending
<1>4. ASSUME NEW i \in 1 .. Len(q), NEW j \in 1 .. Len(q), i # j
      PROVE  q[i] # q[j]
  <2>1. q[i] \in Nat /\ q[j] \in Nat
    BY <1>2
  <2>2. i < j \/ j < i
    BY <1>2, <1>4
  <2> QED
    BY <2>1, <2>2 DEF Ascending
<1> QED
  BY <1>2, <1>3, <1>4 DEF Distinct

-----------------------------------------------------------------------------
(* Edges.                                                                  *)

LEMMA SuccFacts ==
    ASSUME NEW g, WellWired(g), NEW n \in Blocks(g)
    PROVE  Succ(g, n) \in Seq(Blocks(g)) /\ Len(Succ(g, n)) <= 2
<1>1. Len(g) \in Nat /\ n \in 1 .. Len(g) /\ g[n] \in Terminators(n, Len(g))
  BY DEF WellWired, Blocks
<1>2. CASE g[n] \in {Return, LostJump, LostBranch}
  <2>1. ~g[n].wired
    BY <1>2 DEF Return, LostJump, LostBranch
  <2>2. Succ(g, n) = <<>>
    BY <2>1 DEF Succ
  <2> QED
    BY <2>2
<1>3. CASE \E t \in 1 .. Len(g) : g[n] = Jump(t)
  <2>1. PICK t \in 1 .. Len(g) : g[n] = Jump(t)
    BY <1>3
  <2>2. Succ(g, n) = <<t>>
    BY <2>1 DEF Succ, Jump
  <2> QED
    BY <2>2 DEF Blocks
<1>4. CASE n < Len(g) /\ \E t \in 1 .. Len(g) : g[n] = Branch(t, n + 1)
  <2>1. PICK t \in 1 .. Len(g) : g[n] = Branch(t, n + 1)
    BY <1>4
  <2>2. Succ(g, n) = <<n + 1, t>>
    BY <2>1 DEF Succ, Branch
  <2>3. n + 1 \in 1 .. Len(g)
    BY <1>1, <1>4
  <2> QED
    BY <2>2, <2>3 DEF Blocks
<1> QED
  BY <1>1, <1>2, <1>3, <1>4 DEF Terminators

LEMMA BlocksFinite ==
    ASSUME NEW g, WellWired(g)
    PROVE  /\ Len(g) \in Nat /\ Blocks(g) \subseteq Nat
           /\ IsFiniteSet(Blocks(g))
<1>1. Len(g) \in Nat
  BY DEF WellWired
<1> QED
  BY <1>1, FS_Interval DEF Blocks

LEMMA InEdgesFinite ==
    ASSUME WellWired(graph), NEW t
    PROVE  IsFiniteSet(InEdges(t))
<1>1. IsFiniteSet(Blocks(graph))
  BY BlocksFinite
<1>2. IsFiniteSet({1, 2})
  <2>1. {1, 2} = 1 .. 2
    OBVIOUS
  <2> QED
    BY <2>1, FS_Interval, 1 \in Int, 2 \in Int
<1>3. IsFiniteSet(Blocks(graph) \X {1, 2})
  BY <1>1, <1>2, FS_Product
<1> QED
  BY <1>3, FS_Subset DEF InEdges

\* Edges are counted by natural numbers, and none left is a count of zero.
LEMMA LeftFacts ==
    ASSUME WellWired(graph), NEW t
    PROVE  /\ IsFiniteSet(Left(t))
           /\ Cardinality(Left(t)) \in Nat
           /\ Cardinality(Left(t)) = 0 <=> Left(t) = {}
<1>1. IsFiniteSet(Left(t))
  BY InEdgesFinite, FS_Subset DEF Left
<1> QED
  BY <1>1, FS_CardinalityType, FS_EmptySet

-----------------------------------------------------------------------------
(* Steps.                                                                  *)

LEMMA InitKahn == Init => OrderInv
<1> SUFFICES ASSUME Init PROVE OrderInv
  OBVIOUS
<1>1. WellWired(graph) /\ pass = "dfs" /\ order = <<>> /\ popped = <<>>
  BY GraphAssumption DEF Init
<1>2. Shapes
  BY <1>1 DEF Shapes, Init
<1> QED
  BY <1>1, <1>2 DEF OrderInv, KahnInv, Before, Counted, PoppedIsOrdered, NoneLeft,
     EachOnce, OrderIsPermutation, Ready

\* The steps of the search, of the tree builder and the stuttering ones.
LEMMA ElsewhereKeepsKahn ==
    ASSUME OrderInv, UNCHANGED <<graph, kahnVars, order>>,
           \/ UNCHANGED <<pass, back>>
           \/ pass = "dfs" /\ pass' \in {"dfs", "degrees"}
           \/ pass = "tree" /\ pass' \in {"tree", "done"}
    PROVE  OrderInv'
<1> USE DEF kahnVars
<1>1. Shapes'
  BY DEF OrderInv, KahnInv, Shapes
<1>2. Before'
  BY DEF OrderInv, KahnInv, Before
<1>3. ASSUME pass' = "kahn"
      PROVE  Counted' /\ PoppedIsOrdered' /\ NoneLeft' /\ EachOnce'
  <2>1. pass = "kahn" /\ UNCHANGED back
    BY <1>3
  <2>2. Counted'
    <3>1. \A t : InEdges(t)' = InEdges(t)
      BY <2>1 DEF InEdges, Forward
    <3>2. \A t : Left(t)' = Left(t)
      BY <3>1 DEF Left, Elements
    <3> QED
      BY <2>1, <3>2 DEF OrderInv, KahnInv, Counted
  <2>3. PoppedIsOrdered' /\ NoneLeft'
    BY <2>1 DEF OrderInv, KahnInv, PoppedIsOrdered, NoneLeft, Elements
  <2>4. EachOnce'
    BY <2>1 DEF OrderInv, KahnInv, EachOnce
  <2> QED
    BY <2>2, <2>3, <2>4
<1>4. ASSUME pass' # "kahn"
      PROVE  Counted' /\ PoppedIsOrdered' /\ NoneLeft' /\ EachOnce'
  BY <1>4 DEF Counted, PoppedIsOrdered, NoneLeft, EachOnce
<1>5. OrderIsPermutation'
  BY DEF OrderInv, OrderIsPermutation, Ready, Ordered
<1> QED
  BY <1>1, <1>2, <1>3, <1>4, <1>5 DEF OrderInv, KahnInv

LEMMA CountDegreesKahn == OrderInv /\ CountDegrees => OrderInv'
<1> SUFFICES ASSUME OrderInv, CountDegrees PROVE OrderInv'
  OBVIOUS
<1> DEFINE roots == {t \in Blocks(graph) : InEdges(t) = {}}
<1>1. WellWired(graph) /\ order = <<>> /\ popped = <<>>
  BY DEF OrderInv, KahnInv, Shapes, Before, CountDegrees
<1>2. PICK q \in [1 .. Cardinality(roots) -> roots] : Ascending(roots, q) /\ queue' = q
  BY DEF CountDegrees
<1>3. q \in Seq(roots) /\ Elements(q) = roots /\ Distinct(q)
  <2>1. roots \subseteq Nat /\ IsFiniteSet(roots)
    BY <1>1, BlocksFinite, FS_Subset
  <2> QED
    BY <1>2, <2>1, AscendingFacts
<1>4. \A t : InEdges(t)' = InEdges(t)
  BY DEF CountDegrees, InEdges, Forward, dfsVars
<1>5. order' = <<>> /\ popped' = <<>>
  BY <1>1 DEF CountDegrees
<1>6. Elements(<<>>) = {}
  BY DEF Elements
<1>7. Distinct(<<>>)
  BY DEF Distinct
<1>8. \A t : Left(t)' = InEdges(t)
  BY <1>4, <1>5 DEF Left, Elements
<1>9. Shapes'
  <2>1. q \in Seq(Blocks(graph))
    BY <1>3
  <2>2. inDegree' \in [Blocks(graph) -> Nat]
    BY <1>1, InEdgesFinite, FS_CardinalityType DEF CountDegrees
  <2> QED
    BY <1>2, <2>1, <2>2 DEF OrderInv, KahnInv, Shapes, CountDegrees
<1>10. Counted'
  BY <1>8 DEF Counted, CountDegrees
<1>11. NoneLeft'
  <2>1. \A t \in roots : inDegree'[t] = 0
    BY FS_EmptySet DEF CountDegrees
  <2> QED
    BY <1>2, <1>3, <1>5, <1>6, <2>1 DEF NoneLeft
<1>12. EachOnce'
  BY <1>2, <1>3, <1>5, <1>6, <1>7 DEF EachOnce
<1>13. Before' /\ PoppedIsOrdered' /\ OrderIsPermutation'
  BY <1>5 DEF Before, PoppedIsOrdered, OrderIsPermutation, Ready, CountDegrees
<1> QED
  BY <1>9, <1>10, <1>11, <1>12, <1>13 DEF OrderInv, KahnInv

LEMMA PopFrontKahn == OrderInv /\ PopFront => OrderInv'
<1> SUFFICES ASSUME OrderInv, PopFront PROVE OrderInv'
  OBVIOUS
<1> DEFINE h == Head(queue)
<1>1. /\ pass = "kahn" /\ pass' = "kahn" /\ graph' = graph /\ inDegree' = inDegree
      /\ popped = <<>> /\ popped' = <<h>> /\ edge' = 1 /\ free' = <<>> /\ back' = back
      /\ queue # <<>> /\ queue' = Tail(queue) /\ order' = Append(order, h)
  BY DEF PopFront, dfsVars
<1>2. /\ h \in Blocks(graph)
      /\ Tail(queue) \in Seq(Blocks(graph))
      /\ Elements(queue) = Elements(Tail(queue)) \cup {h}
      /\ Distinct(Tail(queue)) /\ h \notin Elements(Tail(queue))
  BY <1>1, HeadFacts DEF OrderInv, KahnInv, Shapes, EachOnce
<1>3. h \notin Elements(order)
  BY <1>1, <1>2 DEF OrderInv, KahnInv, EachOnce
<1>4. /\ order' \in Seq(Blocks(graph))
      /\ Elements(order)' = Elements(order) \cup {h}
      /\ Distinct(order')
  BY <1>1, <1>2, <1>3, AppendFacts DEF OrderInv, KahnInv, Shapes, EachOnce
<1>5. Elements(queue)' = Elements(Tail(queue)) /\ Elements(free)' = {}
  BY <1>1 DEF Elements
<1>6. Shapes'
  BY <1>1, <1>2, <1>4 DEF OrderInv, KahnInv, Shapes
<1>7. Counted'
  <2>1. \A t : InEdges(t)' = InEdges(t)
    BY <1>1 DEF InEdges, Forward
  <2>2. \A t : Left(t)' = Left(t)
    <3> TAKE t
    <3>1. \A e \in InEdges(t) : 1 <= e[2]
      BY DEF InEdges
    <3>2. popped' # <<>> /\ popped'[1] = h
      BY <1>1
    <3> QED
      BY <1>1, <1>3, <1>4, <2>1, <3>1, <3>2 DEF Left
  <2> QED
    BY <1>1, <2>2 DEF OrderInv, KahnInv, Counted
<1>8. NoneLeft'
  BY <1>1, <1>2, <1>4, <1>5 DEF OrderInv, KahnInv, NoneLeft
<1>9. EachOnce'
  <2>1. Distinct(free')
    BY <1>1 DEF Distinct
  <2>2. Distinct(order)' /\ Distinct(queue)' /\ Distinct(free)'
    BY <1>1, <1>2, <1>4, <2>1 DEF Distinct
  <2> QED
    BY <1>1, <1>2, <1>3, <1>4, <1>5, <2>2 DEF OrderInv, KahnInv, EachOnce
<1>10. Before' /\ PoppedIsOrdered' /\ OrderIsPermutation'
  BY <1>1, <1>4 DEF Before, PoppedIsOrdered, OrderIsPermutation, Ready
<1> QED
  BY <1>6, <1>7, <1>8, <1>9, <1>10 DEF OrderInv, KahnInv

\* Taking a forward edge away leaves one edge less into its target, which had
\* at least this one: so it is not queued yet, and is queued at most once.
LEMMA RelaxKahn == OrderInv /\ Relax => OrderInv'
<1> SUFFICES ASSUME OrderInv, Relax PROVE OrderInv'
  OBVIOUS
<1>0. PICK n, t, d, e0 :
        /\ n = popped[1] /\ t = Succ(graph, n)[edge] /\ e0 = <<n, edge>>
        /\ d = IF inDegree[t] = 0 THEN 0 ELSE inDegree[t] - 1
  OBVIOUS
<1>1. /\ pass = "kahn" /\ pass' = "kahn" /\ graph' = graph /\ back' = back
      /\ popped # <<>> /\ popped' = popped /\ order' = order /\ queue' = queue
      /\ edge <= Len(Succ(graph, n)) /\ Forward(n, edge) /\ edge' = edge + 1
      /\ inDegree' = [inDegree EXCEPT ![t] = d]
      /\ free' = IF d = 0 THEN Append(free, t) ELSE free
  BY <1>0 DEF Relax, Relaxing, dfsVars
<1>2. /\ WellWired(graph) /\ inDegree \in [Blocks(graph) -> Nat]
      /\ edge \in Nat \ {0} /\ free \in Seq(Blocks(graph))
  BY DEF OrderInv, KahnInv, Shapes
<1>3. n \in Blocks(graph)
  <2>1. popped \in Seq(Blocks(graph)) /\ popped # <<>>
    BY <1>1 DEF OrderInv, KahnInv, Shapes
  <2> QED
    BY <1>0, <2>1
<1>4. t \in Blocks(graph) /\ edge \in {1, 2}
  <2>1. Succ(graph, n) \in Seq(Blocks(graph)) /\ Len(Succ(graph, n)) <= 2
    BY <1>2, <1>3, SuccFacts
  <2>2. edge \in 1 .. Len(Succ(graph, n))
    BY <1>1, <1>2, <2>1
  <2> QED
    BY <1>0, <2>1, <2>2
<1>5. e0 \in InEdges(t) /\ e0 \in Left(t)
  <2>1. e0 \in InEdges(t)
    BY <1>0, <1>1, <1>3, <1>4 DEF InEdges
  <2> QED
    BY <1>0, <1>1, <1>2, <2>1 DEF Left
<1>6. \A u : InEdges(u)' = InEdges(u)
  BY <1>1 DEF InEdges, Forward
<1>7. \A u : Left(u)' = {e \in Left(u) : e # e0}
  <2> TAKE u
  <2>1. n \in Elements(order)
    BY <1>0, <1>1 DEF OrderInv, KahnInv, PoppedIsOrdered
  <2>2. \A e \in InEdges(u) : e = <<e[1], e[2]>> /\ e[2] \in Nat
    BY DEF InEdges
  <2>3. \A e \in InEdges(u) :
            e[1] = n => (edge + 1 <= e[2] <=> edge <= e[2] /\ e # e0)
    BY <1>0, <1>2, <2>2
  <2>4. \A e : e \in Left(u) <=>
            /\ e \in InEdges(u)
            /\ e[1] \notin Elements(order) \/ (e[1] = n /\ edge <= e[2])
    BY <1>0, <1>1 DEF Left
  <2>5. \A e : e \in Left(u)' <=>
            /\ e \in InEdges(u)
            /\ e[1] \notin Elements(order) \/ (e[1] = n /\ edge + 1 <= e[2])
    BY <1>0, <1>1, <1>6 DEF Left
  <2>6. e0[1] \in Elements(order)
    BY <1>0, <2>1
  <2>7. \A e : e \in Left(u)' <=> e \in Left(u) /\ e # e0
    BY <1>0, <2>1, <2>3, <2>4, <2>5, <2>6
  <2> QED
    BY <2>7
<1>8. /\ Left(t)' = Left(t) \ {e0}
      /\ \A u : u # t => Left(u)' = Left(u)
  <2>1. \A u : u # t => e0 \notin Left(u)
    BY <1>0 DEF Left, InEdges
  <2> QED
    BY <1>7, <2>1
<1>9. inDegree[t] = Cardinality(Left(t)) /\ inDegree[t] # 0 /\ d = inDegree[t] - 1
  <2>1. inDegree[t] = Cardinality(Left(t))
    BY <1>1, <1>4 DEF OrderInv, KahnInv, Counted
  <2> QED
    BY <1>0, <1>2, <1>5, <2>1, LeftFacts
<1>10. /\ d \in Nat
       /\ d = Cardinality(Left(t)')
  <2>1. Cardinality(Left(t) \ {e0}) = Cardinality(Left(t)) - 1
    <3>1. IsFiniteSet(Left(t))
      BY <1>2, LeftFacts
    <3> QED
      BY <1>5, <3>1, FS_RemoveElement
  <2> QED
    BY <1>2, <1>4, <1>8, <1>9, <2>1
<1>11. t \notin Elements(order) /\ t \notin Elements(queue) /\ t \notin Elements(free)
  BY <1>1, <1>9 DEF OrderInv, KahnInv, NoneLeft
<1>12. /\ free' \in Seq(Blocks(graph))
       /\ Distinct(free)'
       /\ Elements(free)' = IF d = 0 THEN Elements(free) \cup {t} ELSE Elements(free)
  <2>1. Distinct(free)
    BY <1>1 DEF OrderInv, KahnInv, EachOnce
  <2>2. /\ Append(free, t) \in Seq(Blocks(graph))
        /\ Distinct(Append(free, t))
        /\ Elements(Append(free, t)) = Elements(free) \cup {t}
    BY <1>2, <1>4, <1>11, <2>1, AppendFacts
  <2> QED
    BY <1>1, <1>2, <2>1, <2>2
<1>13. inDegree' \in [Blocks(graph) -> Nat]
  BY <1>1, <1>2, <1>10
<1>14. Shapes'
  BY <1>1, <1>2, <1>12, <1>13 DEF OrderInv, KahnInv, Shapes
<1>15. inDegree'[t] = d /\ \A u \in Blocks(graph) : u # t => inDegree'[u] = inDegree[u]
  BY <1>1, <1>2, <1>4
<1>16. Counted'
  <2>1. \A u \in Blocks(graph) : inDegree'[u] = Cardinality(Left(u)')
    <3> TAKE u \in Blocks(graph)
    <3>1. CASE u = t
      BY <1>10, <1>15, <3>1
    <3>2. CASE u # t
      BY <1>1, <1>8, <1>15, <3>2 DEF OrderInv, KahnInv, Counted
    <3> QED
      BY <3>1, <3>2
  <2> QED
    BY <1>1, <2>1 DEF Counted
<1>17. NoneLeft'
  <2>1. /\ \A u \in Elements(order) : u \in Blocks(graph)
        /\ \A u \in Elements(queue) : u \in Blocks(graph)
        /\ \A u \in Elements(free) : u \in Blocks(graph)
    BY DEF OrderInv, KahnInv, Shapes, Elements
  <2>2. /\ \A u \in Elements(order) : inDegree'[u] = 0
        /\ \A u \in Elements(queue) : inDegree'[u] = 0
        /\ \A u \in Elements(free) : inDegree'[u] = 0
    BY <1>1, <1>11, <1>15, <2>1 DEF OrderInv, KahnInv, NoneLeft
  <2>3. \A u \in Elements(free)' : inDegree'[u] = 0
    BY <1>12, <1>15, <2>2
  <2> QED
    BY <1>1, <2>2, <2>3 DEF NoneLeft
<1>18. EachOnce'
  <2>1. Distinct(order)' /\ Distinct(queue)'
    BY <1>1 DEF OrderInv, KahnInv, EachOnce
  <2> QED
    BY <1>1, <1>11, <1>12, <2>1 DEF OrderInv, KahnInv, EachOnce
<1>19. PoppedIsOrdered'
  BY <1>1 DEF OrderInv, KahnInv, PoppedIsOrdered
<1>20. Before' /\ OrderIsPermutation'
  BY <1>1 DEF Before, OrderIsPermutation, Ready
<1> QED
  BY <1>14, <1>16, <1>17, <1>18, <1>19, <1>20 DEF OrderInv, KahnInv

LEMMA SkipBackEdgeKahn == OrderInv /\ SkipBackEdge => OrderInv'
<1> SUFFICES ASSUME OrderInv, SkipBackEdge PROVE OrderInv'
  OBVIOUS
<1>1. /\ pass = "kahn" /\ pass' = "kahn" /\ graph' = graph /\ back' = back
      /\ popped # <<>> /\ popped' = popped /\ order' = order /\ queue' = queue
      /\ ~Forward(popped[1], edge) /\ edge' = edge + 1
      /\ inDegree' = inDegree /\ free' = free
  BY DEF SkipBackEdge, Relaxing, dfsVars
<1>2. edge \in Nat \ {0}
  BY DEF OrderInv, KahnInv, Shapes
<1>3. \A u : InEdges(u)' = InEdges(u)
  BY <1>1 DEF InEdges, Forward
<1>4. \A u : Left(u)' = Left(u)
  <2> TAKE u
  <2>1. \A e \in InEdges(u) : e[2] \in Nat /\ (e[1] = popped[1] => e[2] # edge)
    BY <1>1 DEF InEdges
  <2>2. \A e \in InEdges(u) : e[1] = popped[1] => (edge + 1 <= e[2] <=> edge <= e[2])
    BY <1>2, <2>1
  <2> QED
    BY <1>1, <1>3, <2>2 DEF Left
<1>5. Counted'
  BY <1>1, <1>4 DEF OrderInv, KahnInv, Counted
<1>6. Shapes'
  BY <1>1, <1>2 DEF OrderInv, KahnInv, Shapes
<1>7. PoppedIsOrdered' /\ NoneLeft'
  BY <1>1 DEF OrderInv, KahnInv, PoppedIsOrdered, NoneLeft
<1>8. EachOnce'
  BY <1>1 DEF OrderInv, KahnInv, EachOnce
<1>9. Before' /\ OrderIsPermutation'
  BY <1>1 DEF Before, OrderIsPermutation, Ready
<1> QED
  BY <1>5, <1>6, <1>7, <1>8, <1>9 DEF OrderInv, KahnInv

LEMMA EnqueueKahn == OrderInv /\ Enqueue => OrderInv'
<1> SUFFICES ASSUME OrderInv, Enqueue PROVE OrderInv'
  OBVIOUS
<1>1. /\ pass = "kahn" /\ pass' = "kahn" /\ graph' = graph /\ back' = back
      /\ popped # <<>> /\ popped' = <<>> /\ order' = order /\ free' = free
      /\ queue' = queue \o Sorted(free) /\ edge' = edge /\ inDegree' = inDegree
      /\ ~(edge <= Len(Succ(graph, popped[1])))
  BY DEF Enqueue, Relaxing, dfsVars
<1>2. /\ WellWired(graph) /\ edge \in Nat \ {0} /\ popped \in Seq(Blocks(graph))
      /\ queue \in Seq(Blocks(graph)) /\ free \in Seq(Blocks(graph))
  BY DEF OrderInv, KahnInv, Shapes
<1>3. /\ Distinct(order) /\ Distinct(queue) /\ Distinct(free)
      /\ Elements(order) \cap Elements(queue) = {}
      /\ Elements(free) \cap (Elements(order) \cup Elements(queue)) = {}
  BY <1>1 DEF OrderInv, KahnInv, EachOnce
<1>4. /\ Sorted(free) \in Seq(Blocks(graph))
      /\ Elements(Sorted(free)) = Elements(free)
      /\ Distinct(Sorted(free))
  BY <1>2, <1>3, SortedFacts
<1>5. /\ queue' \in Seq(Blocks(graph))
      /\ Elements(queue') = Elements(queue) \cup Elements(free)
      /\ Distinct(queue')
  BY <1>1, <1>2, <1>3, <1>4, JoinFacts
<1>6. \A u : Left(u)' = Left(u)
  <2> TAKE u
  <2>1. InEdges(u)' = InEdges(u)
    BY <1>1 DEF InEdges, Forward
  <2>2. popped[1] \in Blocks(graph)
    BY <1>1, <1>2
  <2>3. Len(Succ(graph, popped[1])) \in Nat
    BY <1>2, <2>2, SuccFacts
  <2>4. \A e \in InEdges(u) : e[1] = popped[1] => ~(edge <= e[2])
    BY <1>1, <1>2, <2>3 DEF InEdges
  <2> QED
    BY <1>1, <2>1, <2>4 DEF Left
<1>7. Counted'
  BY <1>1, <1>6 DEF OrderInv, KahnInv, Counted
<1>8. Shapes'
  BY <1>1, <1>5 DEF OrderInv, KahnInv, Shapes
<1>9. NoneLeft'
  BY <1>1, <1>5 DEF OrderInv, KahnInv, NoneLeft
<1>10. EachOnce'
  BY <1>1, <1>3, <1>5 DEF EachOnce
<1>11. Before' /\ PoppedIsOrdered' /\ OrderIsPermutation'
  BY <1>1 DEF Before, PoppedIsOrdered, OrderIsPermutation, Ready
<1> QED
  BY <1>7, <1>8, <1>9, <1>10, <1>11 DEF OrderInv, KahnInv

LEMMA AppendRestKahn == OrderInv /\ AppendRest => OrderInv'
<1> SUFFICES ASSUME OrderInv, AppendRest PROVE OrderInv'
  OBVIOUS
<1> DEFINE rest == Blocks(graph) \ Ordered
<1>1. /\ pass = "kahn" /\ pass' = "tree" /\ graph' = graph /\ popped = <<>>
      /\ UNCHANGED kahnVars
  BY DEF AppendRest
<1>2. PICK q \in [1 .. Cardinality(rest) -> rest] : Ascending(rest, q) /\ order' = order \o q
  BY DEF AppendRest
<1>3. WellWired(graph) /\ order \in Seq(Blocks(graph)) /\ Distinct(order)
  BY <1>1 DEF OrderInv, KahnInv, Shapes, EachOnce
<1>4. q \in Seq(rest) /\ Elements(q) = rest /\ Distinct(q)
  <2>1. rest \subseteq Nat /\ IsFiniteSet(rest)
    BY <1>3, BlocksFinite, FS_Subset
  <2> QED
    BY <1>2, <2>1, AscendingFacts
<1>5. Ordered = Elements(order) /\ Ordered' = Elements(order')
  BY DEF Ordered, Elements
<1>6. q \in Seq(Blocks(graph))
  BY <1>4
<1>7. /\ order' \in Seq(Blocks(graph))
      /\ Elements(order') = Elements(order) \cup rest
      /\ Distinct(order')
  BY <1>2, <1>3, <1>4, <1>5, <1>6, JoinFacts
<1>8. Elements(order) \subseteq Blocks(graph)
  BY <1>3 DEF Elements
<1>9. OrderIsPermutation'
  <2>1. Ordered' = Blocks(graph)'
    BY <1>1, <1>5, <1>7, <1>8
  <2>2. \A i, j \in 1 .. Len(order') : i # j => order'[i] # order'[j]
    BY <1>7 DEF Distinct
  <2> QED
    BY <2>1, <2>2 DEF OrderIsPermutation
<1>10. Shapes'
  BY <1>1, <1>7 DEF OrderInv, KahnInv, Shapes, kahnVars
<1>11. Before' /\ Counted' /\ PoppedIsOrdered' /\ NoneLeft' /\ EachOnce'
  BY <1>1 DEF Before, Counted, PoppedIsOrdered, NoneLeft, EachOnce
<1> QED
  BY <1>9, <1>10, <1>11 DEF OrderInv, KahnInv

LEMMA OrderStep == OrderInv /\ [Next]_vars => OrderInv'
<1> SUFFICES ASSUME OrderInv, [Next]_vars PROVE OrderInv'
  OBVIOUS
<1>1. CASE BackEdge
  BY <1>1, ElsewhereKeepsKahn DEF BackEdge
<1>2. CASE Descend
  BY <1>2, ElsewhereKeepsKahn DEF Descend
<1>3. CASE PassBy
  BY <1>3, ElsewhereKeepsKahn DEF PassBy
<1>4. CASE Ascend
  BY <1>4, ElsewhereKeepsKahn DEF Ascend
<1>5. CASE EndSearch
  BY <1>5, ElsewhereKeepsKahn DEF EndSearch
<1>6. CASE CountDegrees
  BY <1>6, CountDegreesKahn
<1>7. CASE PopFront
  BY <1>7, PopFrontKahn
<1>8. CASE Relax
  BY <1>8, RelaxKahn
<1>9. CASE SkipBackEdge
  BY <1>9, SkipBackEdgeKahn
<1>10. CASE Enqueue
  BY <1>10, EnqueueKahn
<1>11. CASE AppendRest
  BY <1>11, AppendRestKahn
<1>12. CASE BuildLoop
  BY <1>12, ElsewhereKeepsKahn DEF BuildLoop, dfsVars
<1>13. CASE BuildIf
  BY <1>13, ElsewhereKeepsKahn DEF BuildIf, dfsVars
<1>14. CASE BuildBlock
  BY <1>14, ElsewhereKeepsKahn DEF BuildBlock, dfsVars
<1>15. CASE EndTree
  BY <1>15, ElsewhereKeepsKahn DEF EndTree
<1>16. CASE UNCHANGED vars
  BY <1>16, ElsewhereKeepsKahn DEF vars, kahnVars
<1> QED
  BY <1>1, <1>2, <1>3, <1>4, <1>5, <1>6, <1>7, <1>8, <1>9, <1>10, <1>11, <1>12,
     <1>13, <1>14, <1>15, <1>16 DEF Next, Returned

(***************************************************************************)
(* topo_without_back_edges returns every block of every function exactly   *)
(* once.                                                                   *)
(***************************************************************************)
THEOREM TheOrderIsAPermutation == Spec => []OrderIsPermutation
<1>1. OrderInv => OrderIsPermutation
  BY DEF OrderInv
<1> QED
  BY <1>1, InitKahn, OrderStep, PTL DEF Spec
-----------------------------------------------------------------------------
(* The search for back edges.                                              *)

Frame == [node : Blocks(graph), edge : Nat \ {0}]

SearchShapes ==
    /\ WellWired(graph)
    /\ stack \in Seq(Frame)
    /\ visited \subseteq Blocks(graph) /\ OnStack \subseteq visited
    /\ \A i, j \in 1 .. Len(stack) : i # j => stack[i].node # stack[j].node
    /\ graph # <<>> => 1 \in visited
    /\ pass # "dfs" => stack = <<>>

\* The stack is a path from the entry.
StackIsPath ==
    /\ stack # <<>> => stack[1].node = 1
    /\ \A i \in 1 .. Len(stack) - 1 : stack[i + 1].node \in Targets(graph, stack[i].node)

\* Edge k of block n has been looked at.
Taken(n, k) ==
    n \in visited /\ \A i \in 1 .. Len(stack) : stack[i].node = n => k < stack[i].edge

Retired == visited \ OnStack

\* Block n is below block t on the stack.
Below(n, t) ==
    \E i, j \in 1 .. Len(stack) : i < j /\ stack[i].node = n /\ stack[j].node = t

\* Where the edges that were looked at lead.
EdgesSeen ==
    \A n \in Blocks(graph) : \A k \in 1 .. Len(Succ(graph, n)) :
        Taken(n, k) =>
            LET t == Succ(graph, n)[k]
            IN  /\ t \in visited
                /\ Dom(graph, t, n) => <<n, t>> \in back
                /\ <<n, t>> \in back \/ t \in Retired \/ Below(n, t)

Onward(m, n) == n \in Targets(graph, m) /\ <<m, n>> \notin back

\* Among blocks that are finished there is always one no other leads to.
NoCycles ==
    \A S \in SUBSET Retired : S # {} => \E n \in S : \A m \in S : ~Onward(m, n)

SearchInv == SearchShapes /\ StackIsPath /\ EdgesSeen /\ NoCycles

LEMMA TargetFacts ==
    ASSUME SearchShapes, HasEdge
    PROVE  /\ Len(stack) \in Nat \ {0} /\ Top = stack[Len(stack)] /\ Top \in Frame
           /\ Top.node \in Blocks(graph) /\ Top.edge \in 1 .. Len(Succ(graph, Top.node))
           /\ Target \in Blocks(graph) /\ Target \in Targets(graph, Top.node)
           /\ graph # <<>>
<1>1. stack # <<>> /\ stack \in Seq(Frame) /\ WellWired(graph)
      /\ Top.edge <= Len(Succ(graph, Top.node))
  BY DEF HasEdge, SearchShapes
<1>2. Len(stack) \in Nat \ {0} /\ Top = stack[Len(stack)] /\ Top \in Frame
  BY <1>1 DEF Top
<1>3. Top.node \in Blocks(graph) /\ Top.edge \in Nat \ {0}
  BY <1>2 DEF Frame
<1>4. Succ(graph, Top.node) \in Seq(Blocks(graph))
  BY <1>1, <1>3, SuccFacts
<1>5. Top.edge \in 1 .. Len(Succ(graph, Top.node))
  BY <1>1, <1>3, <1>4
<1>6. Target \in Blocks(graph) /\ Target \in Targets(graph, Top.node)
  BY <1>4, <1>5 DEF Target, Targets
<1>7. graph # <<>>
  BY <1>3 DEF Blocks
<1> QED
  BY <1>2, <1>3, <1>5, <1>6, <1>7

\* A block that dominates the top of the stack is on the stack.
LEMMA DominatorsOnStack ==
    ASSUME SearchShapes, StackIsPath, HasEdge, Dom(graph, Target, Top.node)
    PROVE  Target \in OnStack
<1> SUFFICES ASSUME Target \notin OnStack PROVE FALSE
  OBVIOUS
<1>1. PICK t : t = Target
  OBVIOUS
<1>2. Graph(graph) /\ Len(stack) \in Nat \ {0} /\ Top = stack[Len(stack)]
  BY TargetFacts DEF Graph, SearchShapes
<1>3. \A i \in 1 .. Len(stack) : stack[i].node # t
  BY <1>1 DEF OnStack
<1> DEFINE T == {i \in Nat : i + 1 <= Len(stack) => stack[i + 1].node \in Without(graph, t)}
<1>4. 0 \in T
  <2>1. stack[1].node = 1 /\ 1 \in 1 .. Len(stack)
    BY <1>2 DEF StackIsPath
  <2> QED
    BY <1>2, <1>3, <2>1, WithoutIsLeast
<1>5. \A i \in Nat : i \in T => i + 1 \in T
  <2> TAKE i \in Nat
  <2> HAVE i \in T
  <2> SUFFICES ASSUME (i + 1) + 1 <= Len(stack)
               PROVE  stack[(i + 1) + 1].node \in Without(graph, t)
    OBVIOUS
  <2>1. i + 1 \in 1 .. Len(stack) - 1 /\ (i + 1) + 1 \in 1 .. Len(stack) /\ i + 1 <= Len(stack)
    BY <1>2
  <2>2. stack[i + 1].node \in Without(graph, t)
    BY <2>1
  <2>3. stack[(i + 1) + 1].node \in Targets(graph, stack[i + 1].node)
    BY <2>1 DEF StackIsPath
  <2> QED
    BY <1>2, <1>3, <2>1, <2>2, <2>3, WithoutIsLeast
<1> HIDE DEF T
<1>6. \A i \in Nat : i \in T
  BY <1>4, <1>5, AllNumbers
<1>7. Len(stack) - 1 \in Nat /\ (Len(stack) - 1) + 1 = Len(stack)
  BY <1>2
<1>8. Top.node \in Without(graph, t)
  BY <1>2, <1>6, <1>7 DEF T
<1> QED
  BY <1>1, <1>8, DomIs

LEMMA AdvancedFacts ==
    ASSUME SearchShapes, HasEdge
    PROVE  /\ Advanced \in Seq(Frame) /\ Len(Advanced) = Len(stack)
           /\ \A i \in 1 .. Len(stack) :
                /\ Advanced[i].node = stack[i].node
                /\ Advanced[i].edge = IF i = Len(stack) THEN Top.edge + 1 ELSE stack[i].edge
<1>1. /\ stack \in Seq(Frame) /\ Len(stack) \in Nat \ {0}
      /\ Top = stack[Len(stack)] /\ Top \in Frame
  BY TargetFacts DEF SearchShapes
<1>2. PICK f : f = [Top EXCEPT !.edge = @ + 1]
  OBVIOUS
<1>3. f \in Frame /\ f.node = Top.node /\ f.edge = Top.edge + 1
  BY <1>1, <1>2 DEF Frame
<1>4. Advanced = [stack EXCEPT ![Len(stack)] = f]
  BY <1>1, <1>2 DEF Advanced
<1> QED
  BY <1>1, <1>3, <1>4

\* The edge on top has been looked at, and leads back or to a finished block.
LEMMA EdgePassed ==
    ASSUME SearchInv, HasEdge, stack' = Advanced, UNCHANGED <<graph, pass, visited>>,
           pass = "dfs",
           back' = back \/ back' = back \cup {<<Top.node, Target>>},
           Target \in visited,
           Dom(graph, Target, Top.node) => <<Top.node, Target>> \in back',
           <<Top.node, Target>> \in back' \/ Target \in Retired
    PROVE  SearchInv'
<1>1. SearchShapes /\ StackIsPath /\ stack \in Seq(Frame)
  BY DEF SearchInv, SearchShapes
<1>2. /\ Advanced \in Seq(Frame) /\ Len(Advanced) = Len(stack)
      /\ \A i \in 1 .. Len(stack) :
            /\ Advanced[i].node = stack[i].node
            /\ Advanced[i].edge = IF i = Len(stack) THEN Top.edge + 1 ELSE stack[i].edge
  BY <1>1, AdvancedFacts
<1>3. /\ Len(stack) \in Nat \ {0} /\ Top = stack[Len(stack)]
      /\ Top.node \in Blocks(graph) /\ Top.edge \in 1 .. Len(Succ(graph, Top.node))
  BY <1>1, TargetFacts
<1>4. /\ OnStack' = OnStack /\ Retired' = Retired
      /\ \A n, t : Below(n, t)' <=> Below(n, t)
  <2>1. OnStack' = OnStack
    BY <1>2 DEF OnStack
  <2>2. \A n, t : Below(n, t)' <=> Below(n, t)
    BY <1>2 DEF Below
  <2> QED
    BY <2>1, <2>2 DEF Retired
<1>5. Frame' = Frame /\ Blocks(graph)' = Blocks(graph)
  BY DEF Frame
<1>6. SearchShapes'
  BY <1>1, <1>2, <1>4, <1>5 DEF SearchShapes
<1>7. StackIsPath'
  <2>1. stack # <<>> /\ stack' # <<>> /\ 1 \in 1 .. Len(stack)
    BY <1>2, <1>3
  <2>2. \A i \in 1 .. Len(stack) - 1 : i \in 1 .. Len(stack) /\ i + 1 \in 1 .. Len(stack)
    BY <1>3
  <2> QED
    BY <1>1, <1>2, <2>1, <2>2 DEF StackIsPath
<1>8. \A n \in Blocks(graph) : \A k \in 1 .. Len(Succ(graph, n)) :
        Taken(n, k)' => Taken(n, k) \/ (n = Top.node /\ k = Top.edge)
  <2> TAKE n \in Blocks(graph)
  <2> TAKE k \in 1 .. Len(Succ(graph, n))
  <2> HAVE Taken(n, k)'
  <2> SUFFICES ASSUME ~(n = Top.node /\ k = Top.edge),
                      NEW i \in 1 .. Len(stack), stack[i].node = n
               PROVE  k < stack[i].edge
    BY DEF Taken
  <2>1. k < Advanced[i].edge
    BY <1>2 DEF Taken
  <2>2. CASE i = Len(stack)
    BY <1>2, <1>3, <2>1, <2>2
  <2>3. CASE i # Len(stack)
    BY <1>2, <2>1, <2>3
  <2> QED
    BY <2>2, <2>3
<1>9. EdgesSeen'
  <2> SUFFICES ASSUME NEW n \in Blocks(graph), NEW k \in 1 .. Len(Succ(graph, n)), Taken(n, k)',
                      NEW t, t = Succ(graph, n)[k]
               PROVE  /\ t \in visited'
                      /\ Dom(graph, t, n) => <<n, t>> \in back'
                      /\ <<n, t>> \in back' \/ t \in Retired' \/ Below(n, t)'
    BY <1>5 DEF EdgesSeen
  <2>1. CASE Taken(n, k)
    BY <1>4, <2>1 DEF SearchInv, EdgesSeen
  <2>2. CASE n = Top.node /\ k = Top.edge
    BY <1>4, <2>2 DEF Target
  <2> QED
    BY <1>8, <2>1, <2>2
<1>10. NoCycles'
  <2>1. \A m, n : Onward(m, n)' => Onward(m, n)
    BY DEF Onward
  <2> QED
    BY <1>4, <2>1 DEF SearchInv, NoCycles
<1> QED
  BY <1>6, <1>7, <1>9, <1>10 DEF SearchInv
LEMMA DescendStep ==
    ASSUME SearchInv, Descend
    PROVE  SearchInv'
<1> DEFINE L == Len(stack)
<1>1. /\ SearchShapes /\ StackIsPath /\ stack \in Seq(Frame) /\ HasEdge
      /\ pass = "dfs" /\ Target \notin visited
      /\ visited' = visited \cup {Target}
      /\ stack' = Append(Advanced, [node |-> Target, edge |-> 1])
      /\ UNCHANGED <<graph, pass, back>>
  BY DEF SearchInv, SearchShapes, Descend
<1>2. /\ Advanced \in Seq(Frame) /\ Len(Advanced) = L
      /\ \A i \in 1 .. L :
            /\ Advanced[i].node = stack[i].node
            /\ Advanced[i].edge = IF i = L THEN Top.edge + 1 ELSE stack[i].edge
  BY <1>1, AdvancedFacts
<1>3. /\ L \in Nat \ {0} /\ Top = stack[L] /\ graph # <<>>
      /\ Top.node \in Blocks(graph) /\ Top.edge \in 1 .. Len(Succ(graph, Top.node))
      /\ Target \in Blocks(graph) /\ Target \in Targets(graph, Top.node)
  BY <1>1, TargetFacts
<1>4. PICK f \in Frame : f = [node |-> Target, edge |-> 1] /\ f.node = Target /\ f.edge = 1
  <2>1. Target \in Blocks(graph) /\ 1 \in Nat \ {0}
    BY <1>3
  <2>2. [node |-> Target, edge |-> 1] \in Frame
    BY <2>1, Zenon DEF Frame
  <2> QED
    BY <2>2
<1>5. stack' = Append(Advanced, f)
  BY <1>1, <1>4
<1>6. /\ stack' \in Seq(Frame) /\ Len(stack') = L + 1
      /\ stack'[L + 1] = f
      /\ \A i \in 1 .. L : stack'[i] = Advanced[i]
  BY <1>2, <1>4, <1>5
<1>7. /\ stack'[L + 1].node = Target /\ stack'[L + 1].edge = 1
      /\ \A i \in 1 .. L :
            /\ stack'[i].node = stack[i].node
            /\ stack'[i].edge = IF i = L THEN Top.edge + 1 ELSE stack[i].edge
  BY <1>2, <1>4, <1>6
<1> HIDE DEF L
<1>8. \A i : i \in 1 .. L + 1 <=> i \in 1 .. L \/ i = L + 1
  BY <1>3
<1>9. \A b : b \in OnStack <=> \E i \in 1 .. L : stack[i].node = b
  BY DEF OnStack, L
<1>10. \A b : b \in OnStack' <=> \E i \in 1 .. L + 1 : stack'[i].node = b
  BY <1>6 DEF OnStack
<1>11. OnStack' = OnStack \cup {Target}
  BY <1>7, <1>8, <1>9, <1>10
<1>12. Retired' = Retired
  BY <1>1, <1>11 DEF Retired
<1>13. Frame' = Frame /\ Blocks(graph)' = Blocks(graph)
  BY <1>1 DEF Frame
<1>14. SearchShapes'
  <2>1. Target \notin OnStack
    BY <1>1 DEF SearchShapes
  <2>2. \A i, j \in 1 .. L + 1 : i # j => stack'[i].node # stack'[j].node
    BY <1>1, <1>7, <1>8, <1>9, <2>1 DEF SearchShapes, L
  <2> QED
    BY <1>1, <1>3, <1>6, <1>11, <1>13, <2>2 DEF SearchShapes
<1>15. StackIsPath'
  <2>1. stack # <<>> /\ 1 \in 1 .. L
    BY <1>3 DEF L
  <2>2. \A i \in 1 .. L : (i \in 1 .. L - 1 /\ i + 1 \in 1 .. L) \/ i = L
    BY <1>3
  <2>3. \A i \in 1 .. L : stack'[i + 1].node \in Targets(graph, stack'[i].node)
    BY <1>1, <1>3, <1>7, <2>2 DEF StackIsPath, L
  <2>4. (L + 1) - 1 = L
    BY <1>3
  <2> QED
    BY <1>1, <1>6, <1>7, <2>1, <2>3, <2>4 DEF StackIsPath
<1>16. \A n, t : Below(n, t) => Below(n, t)'
  <2>1. \A n, t : Below(n, t) <=>
            \E i, j \in 1 .. L : i < j /\ stack[i].node = n /\ stack[j].node = t
    BY DEF Below, L
  <2>2. \A n, t : Below(n, t)' <=>
            \E i, j \in 1 .. L + 1 : i < j /\ stack'[i].node = n /\ stack'[j].node = t
    BY <1>6 DEF Below
  <2> QED
    BY <1>7, <1>8, <2>1, <2>2
<1>18. \A n \in Blocks(graph) : \A k \in 1 .. Len(Succ(graph, n)) :
        Taken(n, k)' => Taken(n, k) \/ (n = Top.node /\ k = Top.edge)
  <2> TAKE n \in Blocks(graph)
  <2> TAKE k \in 1 .. Len(Succ(graph, n))
  <2> HAVE Taken(n, k)'
  <2>1. n # Target
    BY <1>6, <1>7, <1>8 DEF Taken
  <2> SUFFICES ASSUME ~(n = Top.node /\ k = Top.edge),
                      NEW i \in 1 .. L, stack[i].node = n
               PROVE  k < stack[i].edge
    BY <1>1, <2>1 DEF Taken, L
  <2>2. k < stack'[i].edge
    BY <1>6, <1>7, <1>8 DEF Taken
  <2>3. CASE i = L
    BY <1>3, <1>7, <2>2, <2>3
  <2>4. CASE i # L
    BY <1>7, <2>2, <2>4
  <2> QED
    BY <2>3, <2>4
<1>19. EdgesSeen'
  <2> SUFFICES ASSUME NEW n \in Blocks(graph), NEW k \in 1 .. Len(Succ(graph, n)), Taken(n, k)',
                      NEW t, t = Succ(graph, n)[k]
               PROVE  /\ t \in visited'
                      /\ Dom(graph, t, n) => <<n, t>> \in back'
                      /\ <<n, t>> \in back' \/ t \in Retired' \/ Below(n, t)'
    BY <1>1, <1>13 DEF EdgesSeen
  <2>1. CASE Taken(n, k)
    BY <1>1, <1>12, <1>16, <2>1 DEF SearchInv, EdgesSeen
  <2>2. CASE n = Top.node /\ k = Top.edge
    <3>1. t = Target /\ ~Dom(graph, t, n)
      <4>1. t = Target
        BY <2>2 DEF Target
      <4>2. Target \notin OnStack
        BY <1>1 DEF SearchShapes
      <4> QED
        BY <1>1, <2>2, <4>1, <4>2, DominatorsOnStack
    <3>2. Below(n, t)'
      <4>1. L \in 1 .. L + 1 /\ L + 1 \in 1 .. L + 1 /\ L < L + 1 /\ L \in 1 .. L
        BY <1>3
      <4>2. stack'[L].node = n /\ stack'[L + 1].node = t
        BY <1>3, <1>7, <2>2, <3>1, <4>1
      <4> QED
        BY <1>6, <4>1, <4>2 DEF Below
    <3> QED
      BY <1>1, <3>1, <3>2
  <2> QED
    BY <1>18, <2>1, <2>2
<1>20. NoCycles'
  <2>1. \A m, n : Onward(m, n)' <=> Onward(m, n)
    BY <1>1 DEF Onward
  <2> QED
    BY <1>12, <2>1 DEF SearchInv, NoCycles
<1> QED
  BY <1>14, <1>15, <1>19, <1>20 DEF SearchInv

\* The block on top is finished: it leads to finished blocks and, by back
\* edges, to blocks below it.
LEMMA AscendStep ==
    ASSUME SearchInv, Ascend
    PROVE  SearchInv'
<1> DEFINE L == Len(stack)
<1>0. PICK n0 : n0 = Top.node
  OBVIOUS
<1>1. /\ SearchShapes /\ StackIsPath /\ stack \in Seq(Frame) /\ stack # <<>> /\ ~HasEdge
      /\ pass = "dfs" /\ stack' = SubSeq(stack, 1, L - 1)
      /\ UNCHANGED <<graph, pass, visited, back>> /\ WellWired(graph)
  BY DEF SearchInv, SearchShapes, Ascend
<1>2. /\ L \in Nat \ {0} /\ Top = stack[L] /\ Top \in Frame
      /\ stack' \in Seq(Frame) /\ Len(stack') = L - 1
      /\ \A i \in 1 .. L - 1 : stack'[i] = stack[i]
  <2>1. L \in Nat \ {0} /\ stack[L] \in Frame
    BY <1>1
  <2>2. /\ SubSeq(stack, 1, L - 1) \in Seq(Frame) /\ Len(SubSeq(stack, 1, L - 1)) = L - 1
        /\ \A i \in 1 .. L - 1 : SubSeq(stack, 1, L - 1)[i] = stack[i]
    <3>1. \A i \in 1 .. L - 1 : i \in 1 .. Len(stack)
      BY <2>1
    <3>2. \A i \in 1 .. L - 1 : stack[i] \in Frame
      BY <1>1, <3>1
    <3> HIDE DEF L
    <3>3. L - 1 \in Int /\ 1 \in Int
      BY <2>1
    <3>4. /\ SubSeq(stack, 1, L - 1) \in Seq(Frame)
          /\ Len(SubSeq(stack, 1, L - 1)) = IF 1 <= L - 1 THEN L - 1 - 1 + 1 ELSE 0
          /\ \A i \in 1 .. L - 1 - 1 + 1 : SubSeq(stack, 1, L - 1)[i] = stack[1 + i - 1]
      BY <3>2, <3>3, SubSeqProperties
    <3> QED
      BY <2>1, <3>4
  <2> QED
    BY <1>1, <2>1, <2>2 DEF Top
<1>3. /\ n0 \in Blocks(graph) /\ Top.edge \in Nat /\ Len(Succ(graph, n0)) \in Nat
      /\ Len(Succ(graph, n0)) < Top.edge
  <2>1. n0 \in Blocks(graph) /\ Top.edge \in Nat
    BY <1>0, <1>2 DEF Frame
  <2>2. Succ(graph, n0) \in Seq(Blocks(graph))
    BY <1>1, <2>1, SuccFacts
  <2> QED
    BY <1>0, <1>1, <2>1, <2>2 DEF HasEdge
<1> HIDE DEF L
<1>4. \A i : i \in 1 .. L <=> i \in 1 .. L - 1 \/ i = L
  BY <1>2
<1>5. \A b : b \in OnStack <=> \E i \in 1 .. L : stack[i].node = b
  BY DEF OnStack, L
<1>6. \A b : b \in OnStack' <=> \E i \in 1 .. L - 1 : stack[i].node = b
  BY <1>2 DEF OnStack
<1>7. \A i \in 1 .. L - 1 : stack[i].node # n0 /\ i \in 1 .. L
  BY <1>0, <1>1, <1>2 DEF SearchShapes, L
<1>8. OnStack = OnStack' \cup {n0} /\ n0 \notin OnStack' /\ n0 \in visited
  <2>1. OnStack = OnStack' \cup {n0}
    BY <1>0, <1>2, <1>4, <1>5, <1>6
  <2> QED
    BY <1>1, <1>6, <1>7, <2>1 DEF SearchShapes
<1>9. Retired' = Retired \cup {n0} /\ n0 \notin Retired
  BY <1>1, <1>8 DEF Retired, SearchShapes
<1>10. SearchShapes'
  <2>1. \A i, j \in 1 .. L - 1 : i # j => stack'[i].node # stack'[j].node
    BY <1>1, <1>2, <1>7 DEF SearchShapes, L
  <2>2. Frame' = Frame
    BY <1>1 DEF Frame
  <2> QED
    BY <1>1, <1>2, <1>8, <2>1, <2>2 DEF SearchShapes
<1>11. StackIsPath'
  <2>1. \A i \in 1 .. (L - 1) - 1 : i \in 1 .. L - 1 /\ i + 1 \in 1 .. L - 1
    BY <1>2
  <2>2. stack' # <<>> => 1 \in 1 .. L - 1
    BY <1>2
  <2> QED
    BY <1>1, <1>2, <2>1, <2>2 DEF StackIsPath, L
<1>12. \A n \in Blocks(graph) : \A k \in 1 .. Len(Succ(graph, n)) : Taken(n, k)' => Taken(n, k)
  <2> TAKE n \in Blocks(graph)
  <2> TAKE k \in 1 .. Len(Succ(graph, n))
  <2> HAVE Taken(n, k)'
  <2> SUFFICES ASSUME NEW i \in 1 .. L, stack[i].node = n PROVE k < stack[i].edge
    BY <1>1 DEF Taken, L
  <2>1. CASE i = L
    BY <1>0, <1>2, <1>3, <2>1
  <2>2. CASE i # L
    BY <1>2, <1>4, <2>2 DEF Taken
  <2> QED
    BY <2>1, <2>2
<1>13. \A n, t : Below(n, t) => Below(n, t)' \/ t = n0
  <2>1. \A n, t : Below(n, t) <=>
            \E i, j \in 1 .. L : i < j /\ stack[i].node = n /\ stack[j].node = t
    BY DEF Below, L
  <2>2. \A n, t : Below(n, t)' <=>
            \E i, j \in 1 .. L - 1 : i < j /\ stack[i].node = n /\ stack[j].node = t
    BY <1>2 DEF Below
  <2>3. \A i, j \in 1 .. L : i < j => i \in 1 .. L - 1
    BY <1>2
  <2> QED
    BY <1>0, <1>2, <1>4, <2>1, <2>2, <2>3
<1>14. EdgesSeen'
  BY <1>1, <1>9, <1>12, <1>13 DEF SearchInv, EdgesSeen
<1>15. \A m \in Retired' : \A t \in Targets(graph, m) : Onward(m, t) => t \in Retired
  <2> TAKE m \in Retired'
  <2> TAKE t \in Targets(graph, m)
  <2> HAVE Onward(m, t)
  <2>1. m \in visited /\ m \in Blocks(graph)
    BY <1>1, <1>8, <1>9 DEF Retired, SearchShapes
  <2>2. PICK k \in 1 .. Len(Succ(graph, m)) : t = Succ(graph, m)[k]
    BY DEF Targets
  <2>3. \A i \in 1 .. L : stack[i].node = m => m = n0 /\ i = L
    BY <1>0, <1>2, <1>4, <1>5, <1>9, <1>8, <1>6 DEF Retired
  <2>4. Taken(m, k)
    <3> SUFFICES ASSUME NEW i \in 1 .. L, stack[i].node = m PROVE k < stack[i].edge
      BY <2>1 DEF Taken, L
    <3> QED
      BY <1>2, <1>3, <2>3
  <2>5. ~Below(m, t)
    <3>1. Below(m, t) => \E i, j \in 1 .. L : i < j /\ stack[i].node = m
      BY DEF Below, L
    <3>2. \A j \in 1 .. L : ~(L < j)
      BY <1>2
    <3> QED
      BY <2>3, <3>1, <3>2
  <2> QED
    BY <2>1, <2>2, <2>4, <2>5 DEF SearchInv, EdgesSeen, Onward
<1>16. \A m, n : Onward(m, n)' <=> Onward(m, n)
  BY <1>1 DEF Onward
<1>17. \A m, n : Onward(m, n) => n \in Targets(graph, m)
  BY DEF Onward
<1>18. NoCycles'
  <2> SUFFICES ASSUME NEW S \in SUBSET Retired', S # {}
               PROVE  \E n \in S : \A m \in S : ~Onward(m, n)
    BY <1>16 DEF NoCycles
  <2>1. CASE n0 \in S
    BY <1>9, <1>15, <1>17, <2>1
  <2>2. CASE n0 \notin S
    <3>1. S \in SUBSET Retired
      BY <1>9, <2>2
    <3> QED
      BY <3>1 DEF SearchInv, NoCycles
  <2> QED
    BY <2>1, <2>2
<1> QED
  BY <1>10, <1>11, <1>14, <1>18 DEF SearchInv
LEMMA SearchStart == Init => SearchInv
<1> SUFFICES ASSUME Init PROVE SearchInv
  OBVIOUS
<1>1. WellWired(graph) /\ pass = "dfs" /\ back = {}
  BY GraphAssumption DEF Init
<1>2. CASE graph = <<>>
  <2>1. stack = <<>> /\ visited = {} /\ Len(stack) = 0
    BY <1>2 DEF Init
  <2>2. OnStack = {} /\ Retired = {}
    BY <2>1 DEF OnStack, Retired
  <2> QED
    BY <1>1, <1>2, <2>1, <2>2 DEF SearchInv, SearchShapes, StackIsPath, EdgesSeen, Taken, NoCycles
<1>3. CASE graph # <<>>
  <2>1. 1 \in Blocks(graph)
    BY <1>1, <1>3, ReachableIsLeast DEF Graph
  <2>2. [node |-> 1, edge |-> 1] \in Frame
    BY <2>1 DEF Frame
  <2>3. PICK f \in Frame : f.node = 1 /\ f.edge = 1 /\ stack = <<f>>
    BY <1>3, <2>2 DEF Init
  <2>4. stack \in Seq(Frame) /\ Len(stack) = 1 /\ stack[1] = f /\ visited = {1}
    BY <1>3, <2>3 DEF Init
  <2>5. OnStack = {1} /\ Retired = {}
    BY <2>3, <2>4 DEF OnStack, Retired
  <2>6. SearchShapes /\ StackIsPath
    BY <1>1, <2>1, <2>3, <2>4, <2>5 DEF SearchShapes, StackIsPath
  <2>7. \A n \in Blocks(graph) : \A k \in 1 .. Len(Succ(graph, n)) : ~Taken(n, k)
    <3>1. \A n \in Blocks(graph) : \A k \in 1 .. Len(Succ(graph, n)) : Taken(n, k) => n = 1 /\ k < 1
      BY <2>3, <2>4 DEF Taken
    <3>2. Len(Succ(graph, 1)) \in Nat
      BY <1>1, <2>1, SuccFacts
    <3> QED
      BY <3>1, <3>2
  <2> QED
    BY <2>5, <2>6, <2>7 DEF SearchInv, EdgesSeen, NoCycles
<1> QED
  BY <1>2, <1>3

\* The steps after the search.
LEMMA AfterSearch ==
    ASSUME SearchInv, UNCHANGED <<graph, dfsVars>>,
           pass' = pass \/ stack = <<>>
    PROVE  SearchInv'
<1>1. UNCHANGED <<stack, visited, back>>
  BY DEF dfsVars
<1>2. /\ OnStack' = OnStack /\ Retired' = Retired /\ Frame' = Frame
      /\ Blocks(graph)' = Blocks(graph)
      /\ \A n, t : Below(n, t)' <=> Below(n, t)
      /\ \A n, k : Taken(n, k)' <=> Taken(n, k)
      /\ \A m, n : Onward(m, n)' <=> Onward(m, n)
  BY <1>1 DEF OnStack, Retired, Frame, Below, Taken, Onward
<1>3. SearchShapes' /\ StackIsPath'
  BY <1>1, <1>2 DEF SearchInv, SearchShapes, StackIsPath
<1>4. EdgesSeen' /\ NoCycles'
  BY <1>1, <1>2 DEF SearchInv, EdgesSeen, NoCycles
<1> QED
  BY <1>3, <1>4 DEF SearchInv

LEMMA SearchStep ==
    ASSUME SearchInv, [Next]_vars
    PROVE  SearchInv'
<1>1. SearchShapes /\ StackIsPath /\ OnStack \subseteq visited
  BY DEF SearchInv, SearchShapes
<1>2. CASE BackEdge
  <2>1. /\ pass = "dfs" /\ HasEdge /\ Target \in OnStack
        /\ back' = back \cup {<<Top.node, Target>>} /\ stack' = Advanced
        /\ UNCHANGED <<graph, pass, visited>>
    BY <1>2 DEF BackEdge
  <2> QED
    BY <1>1, <2>1, EdgePassed
<1>3. CASE PassBy
  <2>1. /\ pass = "dfs" /\ HasEdge /\ Target \in Retired /\ Target \in visited
        /\ Target \notin OnStack
        /\ back' = back /\ stack' = Advanced /\ UNCHANGED <<graph, pass, visited>>
    BY <1>3 DEF PassBy, Retired
  <2>2. ~Dom(graph, Target, Top.node)
    BY <1>1, <2>1, DominatorsOnStack
  <2> QED
    BY <2>1, <2>2, EdgePassed
<1>4. CASE Descend
  BY <1>4, DescendStep
<1>5. CASE Ascend
  BY <1>5, AscendStep
<1>6. CASE EndSearch
  BY <1>6, AfterSearch DEF EndSearch
<1>7. CASE \/ CountDegrees \/ PopFront \/ Relax \/ SkipBackEdge \/ Enqueue \/ AppendRest
           \/ BuildLoop \/ BuildIf \/ BuildBlock \/ EndTree
  <2>1. UNCHANGED <<graph, dfsVars>> /\ pass # "dfs"
    BY <1>7 DEF CountDegrees, PopFront, Relax, SkipBackEdge, Relaxing, Enqueue, AppendRest,
                BuildLoop, BuildIf, BuildBlock, EndTree, InTree
  <2>2. stack = <<>>
    BY <1>1, <2>1 DEF SearchShapes
  <2> QED
    BY <2>1, <2>2, AfterSearch
<1>8. CASE UNCHANGED vars
  BY <1>8, AfterSearch DEF vars, dfsVars
<1> QED
  BY <1>2, <1>3, <1>4, <1>5, <1>6, <1>7, <1>8 DEF Next, Returned

\* When the search is over it has looked at every edge control can take.
LEMMA SearchOver ==
    ASSUME SearchInv, pass # "dfs"
    PROVE  /\ Retired = visited
           /\ Reachable(graph) \subseteq visited
           /\ \A n \in visited : \A t \in Targets(graph, n) :
                /\ t \in visited
                /\ Dom(graph, t, n) => <<n, t>> \in back
<1>1. /\ stack = <<>> /\ Len(stack) = 0 /\ WellWired(graph) /\ visited \subseteq Blocks(graph)
      /\ graph # <<>> => 1 \in visited
  BY DEF SearchInv, SearchShapes
<1>2. Retired = visited
  BY <1>1 DEF Retired, OnStack
<1>3. \A n \in visited : \A t \in Targets(graph, n) :
            t \in visited /\ (Dom(graph, t, n) => <<n, t>> \in back)
  <2> TAKE n \in visited
  <2> TAKE t \in Targets(graph, n)
  <2>1. PICK k \in 1 .. Len(Succ(graph, n)) : t = Succ(graph, n)[k]
    BY DEF Targets
  <2>2. Taken(n, k)
    BY <1>1 DEF Taken
  <2> QED
    BY <1>1, <2>1, <2>2 DEF SearchInv, EdgesSeen
<1>4. Reachable(graph) \subseteq visited
  <2>1. CASE graph = <<>>
    <3>1. Blocks(graph) = {}
      BY <2>1 DEF Blocks
    <3>2. {1} \cap Blocks(graph) \subseteq Blocks(graph)
      OBVIOUS
    <3>3. Reachable(graph) \subseteq Blocks(graph)
      BY <1>1, <3>2, SpreadIsLeast DEF Reachable
    <3> QED
      BY <3>1, <3>3
  <2>2. CASE graph # <<>>
    BY <1>1, <1>3, <2>2, ReachableIsLeast DEF Graph
  <2> QED
    BY <2>1, <2>2
<1> QED
  BY <1>2, <1>3, <1>4

(***************************************************************************)
(* structure.rs, find_back_edges, against dominance.rs: in every graph,    *)
(* when the search is over an edge whose target dominates its source is    *)
(* one of the back edges.                                                  *)
(***************************************************************************)
THEOREM BackEdgesOfNaturalLoops == Spec => []NaturalLoopsAreSeen
<1>1. SearchInv => NaturalLoopsAreSeen
  BY SearchOver DEF NaturalLoopsAreSeen
<1> QED
  BY <1>1, SearchStart, SearchStep, PTL DEF Spec
-----------------------------------------------------------------------------
(* The order follows the edges that are left.                              *)

\* Every block without a predecessor to wait for is on its way.
AllQueued ==
    pass = "kahn" =>
        \A t \in Blocks(graph) :
            inDegree[t] = 0 =>
                \/ t \in Elements(order) \cup Elements(queue)
                \/ popped # <<>> /\ t \in Elements(free)

PredsFirst ==
    \A i \in 1 .. Len(order) : \A m \in Blocks(graph) :
        Onward(m, order[i]) => \E j \in 1 .. i - 1 : order[j] = m

FollowInv ==
    /\ OrderInv /\ SearchInv /\ AllQueued
    /\ pass = "kahn" => PredsFirst
    /\ Ready /\ ~DeadCycle => PredsFirst

LEMMA OnwardEdges ==
    ASSUME WellWired(graph), NEW t
    PROVE  /\ \A e \in InEdges(t) : e[1] \in Blocks(graph) /\ Onward(e[1], t)
           /\ \A m \in Blocks(graph) : Onward(m, t) => \E e \in InEdges(t) : e[1] = m
<1>1. ASSUME NEW e \in InEdges(t) PROVE e[1] \in Blocks(graph) /\ Onward(e[1], t)
  <2>1. /\ e[1] \in Blocks(graph) /\ e[2] \in {1, 2} /\ e[2] <= Len(Succ(graph, e[1]))
        /\ Succ(graph, e[1])[e[2]] = t /\ Forward(e[1], e[2])
    BY DEF InEdges
  <2>2. e[2] \in 1 .. Len(Succ(graph, e[1]))
    <3>1. Len(Succ(graph, e[1])) \in Nat
      BY <2>1, SuccFacts
    <3> QED
      BY <2>1, <3>1
  <2> QED
    BY <2>1, <2>2 DEF Onward, Targets, Forward
<1>2. ASSUME NEW m \in Blocks(graph), Onward(m, t) PROVE \E e \in InEdges(t) : e[1] = m
  <2>1. PICK k \in 1 .. Len(Succ(graph, m)) : t = Succ(graph, m)[k]
    BY <1>2 DEF Onward, Targets
  <2>2. k \in {1, 2} /\ k <= Len(Succ(graph, m))
    <3>1. Len(Succ(graph, m)) \in Nat /\ Len(Succ(graph, m)) <= 2
      BY SuccFacts
    <3> QED
      BY <3>1
  <2>3. PICK e : e = <<m, k>>
    OBVIOUS
  <2>4. e \in InEdges(t) /\ e[1] = m
    BY <1>2, <2>1, <2>2, <2>3 DEF InEdges, Forward, Onward
  <2> QED
    BY <2>4
<1> QED
  BY <1>1, <1>2

\* The blocks that can be reached by at least one edge.
Beyond(n) == Spread(graph, Targets(graph, n), {})

LEMMA BeyondFacts ==
    ASSUME WellWired(graph), NEW m \in Blocks(graph), NEW n \in Targets(graph, m)
    PROVE  /\ n \in Blocks(graph) /\ n \in Beyond(m)
           /\ Beyond(m) \subseteq Blocks(graph) /\ Beyond(n) \subseteq Beyond(m)
<1>1. /\ n \in Blocks(graph) /\ Targets(graph, m) \subseteq Blocks(graph)
      /\ Targets(graph, n) \subseteq Blocks(graph)
  BY TargetsAreBlocks
<1>2. /\ Beyond(m) \subseteq Blocks(graph) /\ Targets(graph, m) \ {} \subseteq Beyond(m)
      /\ Closed(graph, Beyond(m), {})
  BY <1>1, SpreadIsLeast DEF Beyond
<1>3. \A C : Targets(graph, n) \ {} \subseteq C /\ Closed(graph, C, {}) => Beyond(n) \subseteq C
  BY <1>1, SpreadIsLeast DEF Beyond
<1>4. n \in Beyond(m)
  BY <1>2
<1>5. Targets(graph, n) \ {} \subseteq Beyond(m)
  BY <1>2, <1>4 DEF Closed
<1> QED
  BY <1>1, <1>2, <1>3, <1>4, <1>5

\* Without a dead cycle there is always a block no other leads to.
LEMMA NoCycleAnywhere ==
    ASSUME SearchInv, pass # "dfs", ~DeadCycle, NEW S, S \subseteq Blocks(graph), S # {}
    PROVE  \E n \in S : \A m \in S : ~Onward(m, n)
<1>1. /\ WellWired(graph) /\ Retired = visited /\ Reachable(graph) \subseteq visited
      /\ \A n \in visited : Targets(graph, n) \subseteq visited
  BY SearchOver DEF SearchInv, SearchShapes
<1>2. \A m, n : Onward(m, n) => n \in Targets(graph, m)
  BY DEF Onward
<1> DEFINE dead == S \ visited
           size(n) == Cardinality(Beyond(n))
           T == {Len(graph) - size(n) : n \in dead}
<1>3. CASE dead = {}
  BY <1>1, <1>3 DEF SearchInv, NoCycles
<1>4. CASE dead # {}
  <2>1. Len(graph) \in Nat /\ IsFiniteSet(Blocks(graph)) /\ Cardinality(Blocks(graph)) = Len(graph)
    BY <1>1, BlocksAreFinite
  <2>2. \A n \in Blocks(graph) : Beyond(n) \subseteq Blocks(graph)
    <3> TAKE n \in Blocks(graph)
    <3>1. Targets(graph, n) \subseteq Blocks(graph)
      BY <1>1, TargetsAreBlocks
    <3> QED
      BY <1>1, <3>1, SpreadIsLeast DEF Beyond
  <2>3. \A n \in Blocks(graph) : IsFiniteSet(Beyond(n)) /\ size(n) \in Nat /\ size(n) <= Len(graph)
    BY <2>1, <2>2, FS_Subset, FS_CardinalityType
  <2>4. \A n \in dead : n \in Blocks(graph) /\ n \notin Beyond(n)
    BY <1>1 DEF DeadCycle, Beyond
  <2>5. \A m, n \in dead : n \in Targets(graph, m) => size(n) < size(m)
    <3> TAKE m, n \in dead
    <3> HAVE n \in Targets(graph, m)
    <3>1. n \in Beyond(m) /\ Beyond(n) \subseteq Beyond(m) /\ n \notin Beyond(n)
      BY <1>1, <2>4, BeyondFacts
    <3>2. size(n) <= size(m) /\ (size(n) = size(m) => Beyond(n) = Beyond(m))
      BY <2>3, <2>4, <3>1, FS_Subset
    <3>3. size(n) \in Nat /\ size(m) \in Nat
      BY <2>3, <2>4
    <3> QED
      BY <3>1, <3>2, <3>3
  <2> HIDE DEF size
  <2>6. T \subseteq Nat /\ T # {}
    BY <1>4, <2>1, <2>3, <2>4
  <2>7. PICK x \in T : \A k \in T : x <= k
    BY <2>6, LeastOf
  <2>8. PICK n \in dead : x = Len(graph) - size(n)
    BY <2>7
  <2>9. \A m \in dead : ~Onward(m, n)
    <3> TAKE m \in dead
    <3>1. Len(graph) - size(n) <= Len(graph) - size(m)
      BY <2>7, <2>8
    <3>2. size(n) \in Nat /\ size(m) \in Nat
      BY <2>3, <2>4
    <3>3. ~(size(n) < size(m))
      BY <2>1, <3>1, <3>2
    <3> QED
      BY <1>2, <2>5, <3>3
  <2>10. \A m \in S : ~Onward(m, n)
    BY <1>1, <1>2, <2>9
  <2> QED
    BY <2>10
<1> QED
  BY <1>3, <1>4
LEMMA FollowStart == Init => FollowInv
BY InitKahn, SearchStart DEF Init, FollowInv, AllQueued, Ready

\* The steps that leave the queue and the order as they are.
LEMMA ElsewhereFollows ==
    ASSUME FollowInv, UNCHANGED <<graph, kahnVars, order>>,
           OrderInv', SearchInv',
           \/ UNCHANGED <<pass, back>>
           \/ pass = "dfs" /\ pass' \in {"dfs", "degrees"}
           \/ pass = "tree" /\ pass' \in {"tree", "done"} /\ UNCHANGED back
    PROVE  FollowInv'
<1>1. /\ UNCHANGED <<inDegree, queue, popped, free>>
      /\ DeadCycle' <=> DeadCycle
  BY DEF kahnVars, DeadCycle
<1>2. AllQueued'
  BY <1>1 DEF FollowInv, AllQueued, Elements
<1>3. CASE UNCHANGED back
  <2>1. PredsFirst' <=> PredsFirst
    BY <1>3 DEF PredsFirst, Onward
  <2>2. (Ready' => Ready) /\ (pass' = "kahn" => pass = "kahn")
    BY DEF Ready
  <2> QED
    BY <1>1, <1>2, <2>1, <2>2 DEF FollowInv
<1>4. CASE pass' \in {"dfs", "degrees"}
  BY <1>2, <1>4 DEF FollowInv, Ready
<1> QED
  BY <1>2, <1>3, <1>4 DEF FollowInv

LEMMA CountDegreesFollows ==
    ASSUME FollowInv, CountDegrees, OrderInv', SearchInv'
    PROVE  FollowInv'
<1> DEFINE roots == {t \in Blocks(graph) : InEdges(t) = {}}
<1>1. /\ pass = "degrees" /\ pass' = "kahn" /\ order' = order
      /\ inDegree' = [t \in Blocks(graph) |-> Cardinality(InEdges(t))]
      /\ UNCHANGED graph
  BY DEF CountDegrees
<1>2. WellWired(graph) /\ order = <<>>
  BY <1>1 DEF FollowInv, OrderInv, KahnInv, Shapes, Before
<1>3. PICK q \in [1 .. Cardinality(roots) -> roots] : Ascending(roots, q) /\ queue' = q
  BY DEF CountDegrees
<1>4. Elements(queue') = roots
  <2>1. roots \subseteq Nat /\ IsFiniteSet(roots)
    BY <1>2, BlocksFinite, FS_Subset
  <2> QED
    BY <1>3, <2>1, AscendingFacts
<1>5. AllQueued'
  <2> SUFFICES ASSUME NEW t \in Blocks(graph), inDegree'[t] = 0 PROVE t \in Elements(queue')
    BY <1>1 DEF AllQueued
  <2>1. Cardinality(InEdges(t)) = 0 /\ IsFiniteSet(InEdges(t))
    BY <1>1, <1>2, InEdgesFinite
  <2> QED
    BY <1>4, <2>1, FS_EmptySet
<1>6. PredsFirst'
  BY <1>1, <1>2 DEF PredsFirst
<1> QED
  BY <1>5, <1>6 DEF FollowInv

LEMMA PopFrontFollows ==
    ASSUME FollowInv, PopFront, OrderInv', SearchInv'
    PROVE  FollowInv'
<1> DEFINE h == Head(queue)
<1>1. /\ pass = "kahn" /\ pass' = "kahn" /\ graph' = graph /\ inDegree' = inDegree
      /\ popped = <<>> /\ popped' = <<h>> /\ back' = back
      /\ queue # <<>> /\ queue' = Tail(queue) /\ order' = Append(order, h)
  BY DEF PopFront, dfsVars
<1>2. /\ WellWired(graph) /\ queue \in Seq(Blocks(graph)) /\ order \in Seq(Blocks(graph))
      /\ Len(order) \in Nat
  BY DEF FollowInv, OrderInv, KahnInv, Shapes
<1>3. h \in Blocks(graph) /\ Elements(queue) = Elements(queue') \cup {h}
  BY <1>1, <1>2, HeadFacts
<1>4. /\ Elements(order') = Elements(order) \cup {h}
      /\ Len(order') = Len(order) + 1
      /\ order'[Len(order) + 1] = h
      /\ \A i \in 1 .. Len(order) : order'[i] = order[i]
  <2>1. Elements(order') = Elements(order) \cup {h}
    BY <1>1, <1>2, <1>3, AppendFacts
  <2> HIDE DEF h
  <2> QED
    BY <1>1, <1>2, <1>3, <2>1
<1>5. AllQueued'
  BY <1>1, <1>3, <1>4 DEF FollowInv, AllQueued
<1>6. \A m \in Blocks(graph) : Onward(m, h) => m \in Elements(order)
  <2>1. inDegree[h] = 0
    BY <1>1, <1>3 DEF FollowInv, OrderInv, KahnInv, NoneLeft
  <2>2. Left(h) = {}
    BY <1>1, <1>2, <1>3, <2>1, LeftFacts DEF FollowInv, OrderInv, KahnInv, Counted
  <2>3. \A e \in InEdges(h) : e[1] \in Elements(order)
    BY <1>1, <2>2 DEF Left
  <2> QED
    BY <1>2, <2>3, OnwardEdges
<1> HIDE DEF h
<1>7. PredsFirst'
  <2> SUFFICES ASSUME NEW i \in 1 .. Len(order'), NEW m \in Blocks(graph), Onward(m, order'[i])
               PROVE  \E j \in 1 .. i - 1 : order'[j] = m
    BY <1>1 DEF PredsFirst, Onward
  <2>1. CASE i \in 1 .. Len(order)
    <3>1. PICK j \in 1 .. i - 1 : order[j] = m
      BY <1>1, <1>4, <2>1 DEF FollowInv, PredsFirst
    <3>2. j \in 1 .. Len(order)
      BY <1>2, <2>1
    <3> QED
      BY <1>4, <3>1, <3>2
  <2>2. CASE i = Len(order) + 1
    <3>1. m \in Elements(order)
      BY <1>4, <1>6, <2>2
    <3>2. PICK j \in 1 .. Len(order) : order[j] = m
      BY <3>1 DEF Elements
    <3>3. j \in 1 .. i - 1
      BY <1>2, <2>2
    <3> QED
      BY <1>4, <3>2, <3>3
  <2> QED
    BY <1>2, <1>4, <2>1, <2>2
<1> QED
  BY <1>1, <1>5, <1>7 DEF FollowInv, Ready

LEMMA RelaxFollows ==
    ASSUME FollowInv, Relax, OrderInv', SearchInv'
    PROVE  FollowInv'
<1>0. PICK t, d :
        /\ t = Succ(graph, popped[1])[edge]
        /\ d = IF inDegree[t] = 0 THEN 0 ELSE inDegree[t] - 1
  OBVIOUS
<1>1. /\ pass = "kahn" /\ pass' = "kahn" /\ graph' = graph /\ back' = back
      /\ popped # <<>> /\ popped' = popped /\ order' = order /\ queue' = queue
      /\ inDegree' = [inDegree EXCEPT ![t] = d]
      /\ free' = IF d = 0 THEN Append(free, t) ELSE free
  BY <1>0 DEF Relax, Relaxing, dfsVars
<1>2. /\ WellWired(graph) /\ inDegree \in [Blocks(graph) -> Nat]
      /\ free \in Seq(Blocks(graph))
  BY DEF FollowInv, OrderInv, KahnInv, Shapes
<1>3. PICK U : U = Blocks(graph) \cup {t}
  OBVIOUS
<1>4. Elements(free') = IF d = 0 THEN Elements(free) \cup {t} ELSE Elements(free)
  <2>1. free \in Seq(U) /\ t \in U
    BY <1>2, <1>3
  <2>2. Elements(Append(free, t)) = Elements(free) \cup {t}
    BY <2>1, AppendFacts
  <2> QED
    BY <1>1, <2>2
<1>5. AllQueued'
  <2> SUFFICES ASSUME NEW u \in Blocks(graph), inDegree'[u] = 0
               PROVE  u \in Elements(order) \cup Elements(queue) \cup Elements(free')
    BY <1>1 DEF AllQueued
  <2>1. CASE u = t
    BY <1>1, <1>2, <1>4, <2>1
  <2>2. CASE u # t
    BY <1>1, <1>2, <1>4, <2>2 DEF FollowInv, AllQueued
  <2> QED
    BY <2>1, <2>2
<1>6. PredsFirst'
  BY <1>1 DEF FollowInv, PredsFirst, Onward
<1> QED
  BY <1>1, <1>5, <1>6 DEF FollowInv, Ready

LEMMA SkipBackEdgeFollows ==
    ASSUME FollowInv, SkipBackEdge, OrderInv', SearchInv'
    PROVE  FollowInv'
<1>1. /\ pass = "kahn" /\ pass' = "kahn" /\ graph' = graph /\ back' = back
      /\ popped # <<>> /\ UNCHANGED <<popped, order, queue, inDegree, free>>
  BY DEF SkipBackEdge, Relaxing, dfsVars
<1>2. AllQueued'
  BY <1>1 DEF FollowInv, AllQueued
<1>3. PredsFirst'
  BY <1>1 DEF FollowInv, PredsFirst, Onward
<1> QED
  BY <1>1, <1>2, <1>3 DEF FollowInv, Ready

LEMMA EnqueueFollows ==
    ASSUME FollowInv, Enqueue, OrderInv', SearchInv'
    PROVE  FollowInv'
<1>1. /\ pass = "kahn" /\ pass' = "kahn" /\ graph' = graph /\ back' = back
      /\ popped # <<>> /\ popped' = <<>> /\ order' = order
      /\ queue' = queue \o Sorted(free) /\ inDegree' = inDegree
  BY DEF Enqueue, dfsVars
<1>2. queue \in Seq(Blocks(graph)) /\ free \in Seq(Blocks(graph))
  BY DEF FollowInv, OrderInv, KahnInv, Shapes
<1>3. Sorted(free) \in Seq(Blocks(graph)) /\ Elements(Sorted(free)) = Elements(free)
  BY <1>2, SortedFacts
<1>4. Elements(queue') = Elements(queue) \cup Elements(free)
  BY <1>1, <1>2, <1>3, JoinFacts
<1>5. AllQueued'
  BY <1>1, <1>4 DEF FollowInv, AllQueued
<1>6. PredsFirst'
  BY <1>1 DEF FollowInv, PredsFirst, Onward
<1> QED
  BY <1>1, <1>5, <1>6 DEF FollowInv, Ready

\* The safety net finds nothing to add, unless there is a dead cycle.
LEMMA AppendRestFollows ==
    ASSUME FollowInv, AppendRest, OrderInv', SearchInv'
    PROVE  FollowInv'
<1> DEFINE rest == Blocks(graph) \ Ordered
<1>1. /\ pass = "kahn" /\ pass' = "tree" /\ graph' = graph /\ back' = back
      /\ popped = <<>> /\ queue = <<>>
  BY DEF AppendRest, dfsVars
<1>2. /\ WellWired(graph) /\ order \in Seq(Blocks(graph)) /\ Len(order) \in Nat
      /\ OrderInv /\ SearchInv
  BY DEF FollowInv, OrderInv, KahnInv, Shapes
<1>3. PICK q \in [1 .. Cardinality(rest) -> rest] : Ascending(rest, q) /\ order' = order \o q
  BY DEF AppendRest
<1>4. ASSUME ~DeadCycle PROVE PredsFirst'
  <2>1. \A t \in rest : \E m \in rest : Onward(m, t)
    <3> TAKE t \in rest
    <3>1. t \in Blocks(graph) /\ t \notin Elements(order)
      BY DEF Ordered, Elements
    <3>2. t \notin Elements(queue)
      BY <1>1 DEF Elements
    <3>3. inDegree[t] # 0
      BY <1>1, <3>1, <3>2 DEF FollowInv, AllQueued
    <3>4. Left(t) # {}
      BY <1>1, <1>2, <3>1, <3>3, LeftFacts DEF OrderInv, KahnInv, Counted
    <3>5. PICK e \in InEdges(t) : e[1] \notin Elements(order)
      BY <1>1, <3>4 DEF Left
    <3>6. e[1] \in Blocks(graph) /\ Onward(e[1], t)
      BY <1>2, OnwardEdges
    <3>7. e[1] \in rest
      BY <3>5, <3>6 DEF Ordered, Elements
    <3> QED
      BY <3>6, <3>7
  <2>2. rest = {}
    <3>1. rest \subseteq Blocks(graph)
      OBVIOUS
    <3> HIDE DEF rest
    <3> QED
      BY <1>1, <1>2, <1>4, <2>1, <3>1, NoCycleAnywhere
  <2> HIDE DEF rest
  <2>3. Cardinality(rest) = 0
    BY <2>2, FS_EmptySet
  <2>4. q \in Seq({}) /\ Len(q) = 0
    BY <1>3, <2>2, <2>3
  <2>5. Len(order') = Len(order) /\ \A i \in 1 .. Len(order) : order'[i] = order[i]
    BY <1>2, <1>3, <2>4
  <2>6. \A i \in 1 .. Len(order) : \A j \in 1 .. i - 1 : j \in 1 .. Len(order)
    BY <1>2
  <2>7. \A m, n : Onward(m, n)' <=> Onward(m, n)
    BY <1>1 DEF Onward
  <2> SUFFICES ASSUME NEW i \in 1 .. Len(order'), NEW m \in Blocks(graph), Onward(m, order'[i])
               PROVE  \E j \in 1 .. i - 1 : order'[j] = m
    BY <1>1 DEF PredsFirst, Onward
  <2>8. PICK j \in 1 .. i - 1 : order[j] = m
    BY <1>1, <2>5 DEF FollowInv, PredsFirst
  <2> QED
    BY <2>5, <2>6, <2>8
<1>5. DeadCycle' <=> DeadCycle
  BY <1>1 DEF DeadCycle
<1> QED
  BY <1>1, <1>4, <1>5 DEF FollowInv, AllQueued

LEMMA FollowStep ==
    ASSUME FollowInv, [Next]_vars
    PROVE  FollowInv'
<1>1. OrderInv' /\ SearchInv'
  BY OrderStep, SearchStep DEF FollowInv
<1>2. CASE BackEdge \/ Descend \/ PassBy \/ Ascend \/ EndSearch
  BY <1>1, <1>2, ElsewhereFollows DEF BackEdge, Descend, PassBy, Ascend, EndSearch
<1>3. CASE CountDegrees
  BY <1>1, <1>3, CountDegreesFollows
<1>4. CASE PopFront
  BY <1>1, <1>4, PopFrontFollows
<1>5. CASE Relax
  BY <1>1, <1>5, RelaxFollows
<1>6. CASE SkipBackEdge
  BY <1>1, <1>6, SkipBackEdgeFollows
<1>7. CASE Enqueue
  BY <1>1, <1>7, EnqueueFollows
<1>8. CASE AppendRest
  BY <1>1, <1>8, AppendRestFollows
<1>9. CASE BuildLoop \/ BuildIf \/ BuildBlock \/ EndTree
  <2>1. UNCHANGED <<graph, kahnVars, order, back>>
    BY <1>9 DEF BuildLoop, BuildIf, BuildBlock, EndTree, dfsVars
  <2>2. UNCHANGED pass \/ (pass = "tree" /\ pass' = "done")
    BY <1>9 DEF BuildLoop, BuildIf, BuildBlock, EndTree
  <2> QED
    BY <1>1, <2>1, <2>2, ElsewhereFollows
<1>10. CASE UNCHANGED vars
  BY <1>1, <1>10, ElsewhereFollows DEF vars, kahnVars
<1> QED
  BY <1>2, <1>3, <1>4, <1>5, <1>6, <1>7, <1>8, <1>9, <1>10 DEF Next, Returned

LEMMA OrderFollows == FollowInv => OrderFollowsEdges
<1> SUFFICES ASSUME FollowInv, Ready, ~DeadCycle, NEW n \in Blocks(graph),
                    NEW k \in 1 .. Len(Succ(graph, n)), Forward(n, k)
             PROVE  Position(n) < Position(Succ(graph, n)[k])
  BY DEF OrderFollowsEdges, InTopologicalOrder
<1>1. PICK t : t = Succ(graph, n)[k]
  OBVIOUS
<1>2. WellWired(graph) /\ order \in Seq(Blocks(graph)) /\ Len(order) \in Nat
  BY DEF FollowInv, OrderInv, KahnInv, Shapes
<1>3. t \in Blocks(graph) /\ Onward(n, t)
  <2>1. t \in Targets(graph, n)
    BY <1>1 DEF Targets
  <2> QED
    BY <1>1, <1>2, <2>1, TargetsAreBlocks DEF Onward, Forward
<1>4. /\ Ordered = Blocks(graph)
      /\ \A i, j \in 1 .. Len(order) : i # j => order[i] # order[j]
  BY DEF FollowInv, OrderInv, OrderIsPermutation
<1>5. \A b \in Blocks(graph) : Position(b) \in 1 .. Len(order) /\ order[Position(b)] = b
  <2> TAKE b \in Blocks(graph)
  <2>1. \E i \in 1 .. Len(order) : order[i] = b
    BY <1>4 DEF Ordered
  <2> QED
    BY <2>1, Zenon DEF Position
<1>6. PICK p, q : p = Position(n) /\ q = Position(t)
  OBVIOUS
<1>7. p \in 1 .. Len(order) /\ order[p] = n /\ q \in 1 .. Len(order) /\ order[q] = t
  BY <1>3, <1>5, <1>6
<1>8. PICK j \in 1 .. q - 1 : order[j] = n
  BY <1>3, <1>7 DEF FollowInv, PredsFirst
<1>9. j \in 1 .. Len(order) /\ j < q
  BY <1>2, <1>7
<1>10. j = p
  BY <1>4, <1>7, <1>8, <1>9
<1> QED
  BY <1>1, <1>6, <1>9, <1>10

(***************************************************************************)
(* structure.rs, find_back_edges and topo_without_back_edges: in every     *)
(* graph without a cycle of blocks nothing leads to, each block comes      *)
(* before the blocks its edges lead to, back edges aside: the edges that   *)
(* are left have no cycle, and Kahn's algorithm leaves no block over.      *)
(***************************************************************************)
THEOREM TheOrderFollowsTheEdges == Spec => []OrderFollowsEdges
<1> QED
  BY FollowStart, FollowStep, OrderFollows, PTL DEF Spec
-----------------------------------------------------------------------------
(* The tree: loops keep their blocks.                                      *)

\* Block n stands in the order between the positions a and b.
Between(n, a, b) == \E i \in a .. b : order[i] = n

OnlyLoops == \A i \in 1 .. Len(tree) : tree[i].kind # "IfElse"

KeepInv ==
    /\ OrderInv
    /\ (\E S : tree \in Seq(S)) /\ at \in Nat \ {0}
    /\ pass \in {"tree", "done"} \/ (tree = <<>> /\ at = 1)
    /\ pass = "done" => at > Len(order)
    /\ pass \in {"tree", "done"} /\ OnlyLoops =>
        \A n \in Blocks(graph) : Times(n) = IF Between(n, 1, at - 1) THEN 1 ELSE 0

\* Sums over the natural numbers exist.
LEMMA SumExists ==
    ASSUME NEW c
    PROVE  \E h : /\ h = [k \in Nat |-> h[k]] /\ h[0] = 0
                  /\ \A n \in Nat : h[n + 1] = h[n] + c[n + 1]
<1> DEFINE Sums(h, n) == h[0] = 0 /\ \A k \in 0 .. n - 1 : h[k + 1] = h[k] + c[k + 1]
           S == {n \in Nat : \E h : Sums(h, n)}
<1>1. 0 \in S
  <2>1. Sums([k \in Nat |-> 0], 0)
    OBVIOUS
  <2> QED
    BY <2>1, Zenon
<1>2. ASSUME NEW n \in Nat, n \in S PROVE n + 1 \in S
  <2>1. PICK h : Sums(h, n)
    BY <1>2
  <2>2. PICK g : g = [k \in Nat |-> IF k = n + 1 THEN h[n] + c[n + 1] ELSE h[k]]
    OBVIOUS
  <2>3. g[0] = 0
    BY <2>1, <2>2
  <2>4. \A k \in 0 .. n : g[k + 1] = g[k] + c[k + 1]
    <3> TAKE k \in 0 .. n
    <3>1. k # n + 1 /\ k \in Nat /\ k + 1 \in Nat
      OBVIOUS
    <3>2. g[k] = h[k]
      BY <2>2, <3>1
    <3>3. CASE k = n
      BY <2>2, <3>2, <3>3
    <3>4. CASE k # n
      <4>1. k \in 0 .. n - 1 /\ k + 1 # n + 1
        BY <3>4
      <4>2. g[k + 1] = h[k + 1]
        BY <2>2, <3>1, <4>1
      <4> QED
        BY <2>1, <3>2, <4>1, <4>2
    <3> QED
      BY <3>3, <3>4
  <2>5. (n + 1) - 1 = n
    OBVIOUS
  <2>6. Sums(g, n + 1)
    BY <2>3, <2>4, <2>5
  <2> HIDE DEF Sums
  <2>7. \E h1 : Sums(h1, n + 1)
    BY <2>6, Zenon
  <2>8. n + 1 \in Nat
    OBVIOUS
  <2> QED
    BY <2>7, <2>8, Zenon
<1> DEFINE first(n) == CHOOSE h : Sums(h, n)
           f == [n \in Nat |-> first(n)[n]]
<1>3. \A n \in Nat : Sums(first(n), n)
  <2> HIDE DEF Sums
  <2>1. \A n \in Nat : n \in S
    <3> HIDE DEF S
    <3> QED
      BY <1>1, <1>2, AllNumbers
  <2>2. \A n \in Nat : \E h : Sums(h, n)
    BY <2>1
  <2> QED
    BY <2>2, Zenon
<1>4. \A n \in Nat : f[n] = first(n)[n]
  OBVIOUS
<1>5. f = [k \in Nat |-> f[k]]
  OBVIOUS
<1> HIDE DEF f, first
<1>6. \A n, k \in Nat : k <= n => first(n)[k] = first(n + 1)[k]
  <2> TAKE n \in Nat
  <2> DEFINE T == {k \in Nat : k <= n => first(n)[k] = first(n + 1)[k]}
  <2>1. 0 \in T
    BY <1>3
  <2>2. \A k \in Nat : k \in T => k + 1 \in T
    <3> TAKE k \in Nat
    <3> HAVE k \in T
    <3> SUFFICES ASSUME k + 1 <= n PROVE first(n)[k + 1] = first(n + 1)[k + 1]
      OBVIOUS
    <3>1. k \in 0 .. n - 1 /\ k \in 0 .. (n + 1) - 1 /\ k <= n /\ n + 1 \in Nat
      OBVIOUS
    <3>2. first(n)[k + 1] = first(n)[k] + c[k + 1]
      BY <1>3, <3>1
    <3>3. first(n + 1)[k + 1] = first(n + 1)[k] + c[k + 1]
      BY <1>3, <3>1
    <3> QED
      BY <3>1, <3>2, <3>3
  <2> HIDE DEF T
  <2>3. \A k \in Nat : k \in T
    BY <2>1, <2>2, AllNumbers
  <2> QED
    BY <2>3 DEF T
<1>7. f[0] = 0
  BY <1>3, <1>4
<1>8. \A n \in Nat : f[n + 1] = f[n] + c[n + 1]
  <2> TAKE n \in Nat
  <2>1. n + 1 \in Nat /\ n <= n /\ n \in 0 .. (n + 1) - 1
    OBVIOUS
  <2>2. first(n + 1)[n + 1] = first(n + 1)[n] + c[n + 1]
    BY <1>3, <2>1
  <2> QED
    BY <1>4, <1>6, <2>1, <2>2
<1> QED
  BY <1>5, <1>7, <1>8

\* Times, of any tree.
TimesIn(s, n) ==
    LET f[i \in Nat] == IF i = 0 THEN 0 ELSE f[i - 1] + InNode(s[i], n)
    IN  f[Len(s)]

LEMMA TimesIsTimesIn ==
    ASSUME NEW n
    PROVE  Times(n) = TimesIn(tree, n) /\ Times(n)' = TimesIn(tree', n)
BY DEF Times, TimesIn, InNode, Count

\* Its recursion, unfolded.
LEMMA TimesUnfolds ==
    ASSUME NEW s, NEW n
    PROVE  \E h : /\ h[0] = 0
                  /\ \A k \in Nat : h[k + 1] = h[k] + InNode(s[k + 1], n)
                  /\ TimesIn(s, n) = h[Len(s)]
<1> DEFINE f == CHOOSE f : f = [i \in Nat |-> IF i = 0 THEN 0 ELSE f[i - 1] + InNode(s[i], n)]
<1>1. TimesIn(s, n) = f[Len(s)]
  BY DEF TimesIn
<1>2. PICK c : c = [i \in Nat |-> InNode(s[i], n)]
  OBVIOUS
<1>3. PICK h : /\ h = [k \in Nat |-> h[k]] /\ h[0] = 0
               /\ \A k \in Nat : h[k + 1] = h[k] + c[k + 1]
  BY SumExists
<1>4. \A i \in Nat : i # 0 => h[i] = h[i - 1] + InNode(s[i], n)
  <2> TAKE i \in Nat
  <2> HAVE i # 0
  <2>1. i - 1 \in Nat /\ (i - 1) + 1 = i
    OBVIOUS
  <2>2. h[i] = h[i - 1] + c[i]
    BY <1>3, <2>1
  <2>3. c[i] = InNode(s[i], n)
    BY <1>2, Zenon
  <2> QED
    BY <2>2, <2>3
<1>5. h = [i \in Nat |-> IF i = 0 THEN 0 ELSE h[i - 1] + InNode(s[i], n)]
  BY <1>3, <1>4
<1>6. f = [i \in Nat |-> IF i = 0 THEN 0 ELSE f[i - 1] + InNode(s[i], n)]
  BY <1>5, Zenon
<1> HIDE DEF f
<1>7. \A i \in Nat : f[i] = IF i = 0 THEN 0 ELSE f[i - 1] + InNode(s[i], n)
  BY <1>6, Zenon
<1>8. f[0] = 0
  BY <1>7
<1>9. \A k \in Nat : f[k + 1] = f[k] + InNode(s[k + 1], n)
  <2> TAKE k \in Nat
  <2>1. k + 1 \in Nat /\ k + 1 # 0 /\ (k + 1) - 1 = k
    OBVIOUS
  <2>2. f[k + 1] = f[(k + 1) - 1] + InNode(s[k + 1], n)
    BY <1>7, <2>1, Zenon
  <2> QED
    BY <2>1, <2>2
<1> QED
  BY <1>1, <1>8, <1>9

LEMMA TimesOfEmpty ==
    ASSUME NEW n
    PROVE  TimesIn(<<>>, n) = 0
<1>1. PICK h : h[0] = 0 /\ TimesIn(<<>>, n) = h[Len(<<>>)]
  BY TimesUnfolds
<1>2. Len(<<>>) = 0
  OBVIOUS
<1> QED
  BY <1>1, <1>2

LEMMA TimesOfAppended ==
    ASSUME \E S : tree \in Seq(S), NEW t, tree' = Append(tree, t), NEW n
    PROVE  Times(n)' = Times(n) + InNode(t, n)
<1>1. PICK h : /\ h[0] = 0
               /\ \A k \in Nat : h[k + 1] = h[k] + InNode(tree[k + 1], n)
               /\ Times(n) = h[Len(tree)]
  <2>1. PICK s : s = tree
    OBVIOUS
  <2>2. \E g : /\ g[0] = 0
               /\ \A k \in Nat : g[k + 1] = g[k] + InNode(s[k + 1], n)
               /\ TimesIn(s, n) = g[Len(s)]
    BY TimesUnfolds
  <2> QED
    BY <2>1, <2>2, TimesIsTimesIn
<1>2. PICK g : /\ g[0] = 0
               /\ \A k \in Nat : g[k + 1] = g[k] + InNode(tree'[k + 1], n)
               /\ Times(n)' = g[Len(tree')]
  <2>1. PICK s : s = tree'
    OBVIOUS
  <2>2. \E g : /\ g[0] = 0
               /\ \A k \in Nat : g[k + 1] = g[k] + InNode(s[k + 1], n)
               /\ TimesIn(s, n) = g[Len(s)]
    BY TimesUnfolds
  <2> QED
    BY <2>1, <2>2, TimesIsTimesIn
<1>3. PICK L : L = Len(tree)
  OBVIOUS
<1>4. /\ L \in Nat /\ Len(tree') = L + 1 /\ tree'[L + 1] = t
      /\ \A k \in Nat : k + 1 <= L => tree'[k + 1] = tree[k + 1]
  BY <1>3
<1> DEFINE S == {k \in Nat : k <= L => g[k] = h[k]}
<1>5. 0 \in S
  BY <1>1, <1>2
<1>6. \A k \in Nat : k \in S => k + 1 \in S
  <2> TAKE k \in Nat
  <2> HAVE k \in S
  <2> SUFFICES ASSUME k + 1 <= L PROVE g[k + 1] = h[k + 1]
    OBVIOUS
  <2>1. k <= L /\ tree'[k + 1] = tree[k + 1]
    BY <1>4
  <2>2. g[k] = h[k]
    BY <2>1
  <2>3. g[k + 1] = g[k] + InNode(tree[k + 1], n)
    BY <1>2, <2>1
  <2> QED
    BY <1>1, <2>2, <2>3
<1> HIDE DEF S
<1>7. \A k \in Nat : k \in S
  BY <1>5, <1>6, AllNumbers
<1>8. g[L] = h[L]
  BY <1>4, <1>7 DEF S
<1>9. g[L + 1] = g[L] + InNode(tree'[L + 1], n)
  BY <1>2, <1>4
<1> QED
  BY <1>1, <1>2, <1>3, <1>4, <1>8, <1>9

LEMMA CountOfEmpty ==
    ASSUME NEW n
    PROVE  Count(<<>>, n) = 0
<1>1. {i \in 1 .. Len(<<>>) : <<>>[i] = n} = {}
  <2>1. Len(<<>>) = 0
    OBVIOUS
  <2> QED
    BY <2>1
<1> QED
  BY <1>1, FS_EmptySet, Zenon DEF Count

LEMMA CountOfPart ==
    ASSUME OrderInv, Distinct(order), NEW a \in Nat \ {0}, NEW b \in Nat, b <= Len(order), NEW n
    PROVE  Count(SubSeq(order, a, b), n) = IF Between(n, a, b) THEN 1 ELSE 0
<1>1. PICK s : s = SubSeq(order, a, b)
  OBVIOUS
<1>2. order \in Seq(Blocks(graph)) /\ Len(order) \in Nat
  BY DEF OrderInv, KahnInv, Shapes
<1>3. \A i \in a .. b : i \in 1 .. Len(order) /\ order[i] \in Blocks(graph)
  BY <1>2
<1>4. /\ Len(s) = IF a <= b THEN b - a + 1 ELSE 0
      /\ \A i \in 1 .. b - a + 1 : s[i] = order[a + i - 1]
  BY <1>1, <1>3, SubSeqProperties
<1>5. PICK P : P = {i \in 1 .. Len(s) : s[i] = n}
  OBVIOUS
<1>6. Count(s, n) = Cardinality(P)
  BY <1>5 DEF Count
<1>7. CASE Between(n, a, b)
  <2>1. PICK i \in a .. b : order[i] = n
    BY <1>7 DEF Between
  <2>2. PICK k : k = i - a + 1
    OBVIOUS
  <2>3. k \in 1 .. Len(s) /\ s[k] = n
    BY <1>4, <2>1, <2>2
  <2>4. ASSUME NEW j \in P PROVE j = k
    <3>1. j \in 1 .. b - a + 1 /\ order[a + j - 1] = n /\ a <= b
      BY <1>4, <1>5, <2>4
    <3>2. a + j - 1 \in 1 .. Len(order) /\ i \in 1 .. Len(order)
      BY <1>2, <3>1
    <3>3. a + j - 1 = i
      BY <2>1, <3>1, <3>2 DEF Distinct
    <3> QED
      BY <2>2, <3>1, <3>3
  <2>5. P = {k}
    BY <1>5, <2>3, <2>4
  <2> QED
    BY <1>1, <1>6, <1>7, <2>5, FS_Singleton
<1>8. CASE ~Between(n, a, b)
  <2>1. ASSUME NEW j \in P PROVE FALSE
    <3>1. j \in 1 .. b - a + 1 /\ order[a + j - 1] = n /\ a <= b
      BY <1>4, <1>5, <2>1
    <3>2. a + j - 1 \in a .. b
      BY <3>1
    <3> QED
      BY <1>8, <3>1, <3>2 DEF Between
  <2>2. P = {}
    BY <2>1
  <2> QED
    BY <1>1, <1>6, <1>8, <2>2, FS_EmptySet
<1> QED
  BY <1>7, <1>8

LEMMA LoopLastFacts ==
    ASSUME Len(order) \in Nat, at \in 1 .. Len(order)
    PROVE  LoopLast \in at .. Len(order)
<1>1. CASE LoopEnds = {}
  BY <1>1 DEF LoopLast
<1>2. CASE LoopEnds # {}
  <2>1. LoopEnds \subseteq at + 1 .. Len(order)
    BY DEF LoopEnds
  <2>2. LoopEnds \subseteq Nat
    BY <2>1
  <2>3. \E j \in LoopEnds : \A i \in LoopEnds : j <= i
    BY <1>2, <2>2, LeastOf
  <2>4. LoopLast = CHOOSE j \in LoopEnds : \A i \in LoopEnds : j <= i
    BY <1>2 DEF LoopLast
  <2>5. LoopLast \in LoopEnds
    BY <2>3, <2>4, Zenon
  <2> QED
    BY <2>1, <2>5
<1> QED
  BY <1>1, <1>2

\* The node a step adds to the tree has each block from at to last once.
LEMMA NodeOfPart ==
    ASSUME OrderInv, Distinct(order), Len(order) \in Nat, at \in 1 .. Len(order),
           NEW last \in at .. Len(order), NEW t,
           t.head = order[at], t.body = SubSeq(order, at + 1, last), t.other = <<>>, NEW n
    PROVE  InNode(t, n) = IF Between(n, at, last) THEN 1 ELSE 0
<1>1. Count(t.other, n) = 0
  BY CountOfEmpty
<1>2. Count(t.body, n) = IF Between(n, at + 1, last) THEN 1 ELSE 0
  <2>1. at + 1 \in Nat \ {0} /\ last \in Nat /\ last <= Len(order)
    OBVIOUS
  <2> QED
    BY <2>1, CountOfPart
<1>3. Between(n, at, last) <=> order[at] = n \/ Between(n, at + 1, last)
  BY DEF Between
<1>4. ~(order[at] = n /\ Between(n, at + 1, last))
  <2> SUFFICES ASSUME NEW i \in at + 1 .. last, order[i] = order[at] PROVE FALSE
    BY DEF Between
  <2>1. i \in 1 .. Len(order) /\ i # at
    OBVIOUS
  <2> QED
    BY <2>1 DEF Distinct
<1>5. InNode(t, n) = (IF order[at] = n THEN 1 ELSE 0) + (IF Between(n, at + 1, last) THEN 1 ELSE 0) + 0
  BY <1>1, <1>2 DEF InNode
<1> QED
  BY <1>3, <1>4, <1>5

LEMMA Appended ==
    ASSUME NEW s, \E S : s \in Seq(S), NEW e
    PROVE  /\ \E S : Append(s, e) \in Seq(S)
           /\ Len(s) \in Nat /\ Len(s) + 1 \in 1 .. Len(Append(s, e))
           /\ Append(s, e)[Len(s) + 1] = e
<1>1. PICK S : s \in Seq(S)
  OBVIOUS
<1>2. PICK T : T = S \cup {e}
  OBVIOUS
<1>3. s \in Seq(T) /\ e \in T
  BY <1>1, <1>2, SeqMonotonic
<1>4. Append(s, e) \in Seq(T) /\ Len(Append(s, e)) = Len(s) + 1 /\ Append(s, e)[Len(s) + 1] = e
  BY <1>3
<1> QED
  BY <1>3, <1>4

LEMMA KeepStart == Init => KeepInv
<1> SUFFICES ASSUME Init PROVE KeepInv
  OBVIOUS
<1>1. OrderInv
  BY InitKahn
<1>2. tree = <<>> /\ at = 1 /\ pass = "dfs"
  BY DEF Init
<1>3. tree \in Seq({})
  BY <1>2
<1> QED
  BY <1>1, <1>2, <1>3 DEF KeepInv

\* The steps before the tree.
LEMMA BeforeTreeKeeps ==
    ASSUME KeepInv, OrderInv', pass \notin {"tree", "done"}, pass' # "done",
           UNCHANGED <<graph, at, tree>>
    PROVE  KeepInv'
<1>1. tree = <<>> /\ at = 1 /\ tree' = <<>> /\ at' = 1
  BY DEF KeepInv
<1>2. \E S : tree' \in Seq(S)
  BY DEF KeepInv
<1>3. \A n : Times(n)' = 0
  BY <1>1, TimesOfEmpty, TimesIsTimesIn
<1>4. \A n : Between(n, 1, at - 1)' = FALSE
  BY <1>1 DEF Between
<1> QED
  BY <1>1, <1>2, <1>3, <1>4 DEF KeepInv

\* A step that adds a node for the part of the order from at to last.
LEMMA PartKeeps ==
    ASSUME KeepInv, OrderInv', InTree, pass' = pass, UNCHANGED <<graph, order>>,
           NEW last \in at .. Len(order), at' = last + 1,
           NEW t, tree' = Append(tree, t),
           t.head = order[at], t.body = SubSeq(order, at + 1, last), t.other = <<>>
    PROVE  KeepInv'
<1>1. /\ pass = "tree" /\ at <= Len(order) /\ at \in Nat \ {0} /\ (\E S : tree \in Seq(S))
      /\ Len(order) \in Nat /\ OrderInv
  <2>1. pass = "tree" /\ at <= Len(order)
    BY DEF InTree
  <2>2. at \in Nat \ {0} /\ (\E S : tree \in Seq(S)) /\ OrderInv
    BY DEF KeepInv
  <2>3. Len(order) \in Nat
    BY <2>2 DEF OrderInv, KahnInv, Shapes
  <2> QED
    BY <2>1, <2>2, <2>3
<1>2. at \in 1 .. Len(order) /\ Distinct(order)
  BY <1>1 DEF OrderInv, OrderIsPermutation, Ready, Distinct
<1>3. \E S : tree' \in Seq(S)
  BY <1>1, Appended
<1>4. at' \in Nat \ {0} /\ at' - 1 = last /\ pass' = "tree"
  BY <1>1
<1>5. OnlyLoops' => OnlyLoops
  <2>1. Len(tree) \in Nat /\ Len(tree') = Len(tree) + 1
    BY <1>1
  <2>2. \A i \in 1 .. Len(tree) : i \in 1 .. Len(tree') /\ tree'[i] = tree[i]
    BY <1>1, <2>1
  <2> QED
    BY <2>2 DEF OnlyLoops
<1>6. ASSUME OnlyLoops, NEW n \in Blocks(graph)
      PROVE  Times(n)' = IF Between(n, 1, at - 1)' THEN 1 ELSE 0
  <2>1. Times(n)' = Times(n) + InNode(t, n)
    BY <1>1, TimesOfAppended
  <2>2. Times(n) = IF Between(n, 1, at - 1) THEN 1 ELSE 0
    BY <1>1, <1>6 DEF KeepInv
  <2>3. InNode(t, n) = IF Between(n, at, last) THEN 1 ELSE 0
    BY <1>1, <1>2, NodeOfPart
  <2>4. Between(n, 1, at - 1)' <=> Between(n, 1, last)
    BY <1>4 DEF Between
  <2>5. Between(n, 1, last) <=> Between(n, 1, at - 1) \/ Between(n, at, last)
    BY <1>1 DEF Between
  <2>6. ~(Between(n, 1, at - 1) /\ Between(n, at, last))
    <3> SUFFICES ASSUME NEW i \in 1 .. at - 1, NEW j \in at .. last, order[i] = order[j]
                 PROVE  FALSE
      BY DEF Between
    <3>1. i \in 1 .. Len(order) /\ j \in 1 .. Len(order) /\ i # j
      BY <1>1
    <3> QED
      BY <1>2, <3>1 DEF Distinct
  <2> QED
    BY <2>1, <2>2, <2>3, <2>4, <2>5, <2>6
<1>7. Blocks(graph)' = Blocks(graph)
  BY DEF Blocks
<1> QED
  BY <1>3, <1>4, <1>5, <1>6, <1>7 DEF KeepInv

LEMMA BuildLoopKeeps ==
    ASSUME KeepInv, OrderInv', BuildLoop
    PROVE  KeepInv'
<1>1. /\ InTree /\ pass' = pass /\ UNCHANGED <<graph, order>> /\ at' = LoopLast + 1
  BY DEF BuildLoop, AfterLoop
<1>2. order \in Seq(Blocks(graph)) /\ Len(order) \in Nat /\ at \in 1 .. Len(order)
  BY <1>1 DEF KeepInv, InTree, OrderInv, KahnInv, Shapes
<1>3. PICK last : last = LoopLast
  OBVIOUS
<1>4. last \in at .. Len(order)
  BY <1>2, <1>3, LoopLastFacts
<1>5. PICK end : tree' = Append(tree, Loop(order[at], SubSeq(order, at + 1, last), end))
  BY <1>3, Zenon DEF BuildLoop
<1>6. PICK t : t = Loop(order[at], SubSeq(order, at + 1, last), end)
  OBVIOUS
<1>7. t.head = order[at] /\ t.body = SubSeq(order, at + 1, last) /\ t.other = <<>>
  BY <1>6 DEF Loop
<1> QED
  BY <1>1, <1>3, <1>4, <1>5, <1>6, <1>7, PartKeeps

LEMMA BuildBlockKeeps ==
    ASSUME KeepInv, OrderInv', BuildBlock
    PROVE  KeepInv'
<1>1. /\ InTree /\ pass' = pass /\ UNCHANGED <<graph, order>> /\ at' = at + 1
      /\ tree' = Append(tree, BlockNode(order[at]))
  BY DEF BuildBlock
<1>2. order \in Seq(Blocks(graph)) /\ Len(order) \in Nat /\ at \in 1 .. Len(order)
  BY <1>1 DEF KeepInv, InTree, OrderInv, KahnInv, Shapes
<1>3. PICK t : t = BlockNode(order[at])
  OBVIOUS
<1>4. SubSeq(order, at + 1, at) = <<>>
  BY <1>2, SubSeqEmpty
<1>5. t.head = order[at] /\ t.body = SubSeq(order, at + 1, at) /\ t.other = <<>>
  BY <1>3, <1>4 DEF BlockNode
<1>6. at \in at .. Len(order)
  BY <1>2
<1> QED
  BY <1>1, <1>3, <1>5, <1>6, PartKeeps

LEMMA BuildIfKeeps ==
    ASSUME KeepInv, OrderInv', BuildIf
    PROVE  KeepInv'
<1>1. InTree /\ pass' = pass /\ UNCHANGED <<graph, order>>
  BY DEF BuildIf
<1>2. PICK then, else : /\ then = Arm(graph[order[at]].arms[1])
                        /\ else = Arm(graph[order[at]].arms[2])
                        /\ tree' = Append(tree, IfElse(order[at], then, else))
                        /\ at' = at + 1 + ArmLength(then, else)
  BY Zenon DEF BuildIf
<1>3. /\ order \in Seq(Blocks(graph)) /\ Len(order) \in Nat /\ at \in 1 .. Len(order)
      /\ (\E S : tree \in Seq(S)) /\ pass = "tree"
  BY <1>1 DEF KeepInv, InTree, OrderInv, KahnInv, Shapes
<1>4. PICK t : t = IfElse(order[at], then, else)
  OBVIOUS
<1>5. t.kind = "IfElse"
  BY <1>4, Zenon DEF IfElse
<1>6. at' \in Nat \ {0}
  BY <1>2, <1>3 DEF ArmLength
<1>7. (\E S : tree' \in Seq(S)) /\ Len(tree) + 1 \in 1 .. Len(tree') /\ tree'[Len(tree) + 1] = t
  BY <1>2, <1>3, <1>4, Appended
<1>8. ~OnlyLoops'
  BY <1>5, <1>7 DEF OnlyLoops
<1> QED
  BY <1>1, <1>3, <1>6, <1>7, <1>8 DEF KeepInv

\* The steps that leave the tree alone.
LEMMA EndKeeps ==
    ASSUME KeepInv, OrderInv', UNCHANGED <<graph, order, at, tree>>,
           pass' = pass \/ (pass = "tree" /\ pass' = "done" /\ at > Len(order))
    PROVE  KeepInv'
<1>1. Blocks(graph)' = Blocks(graph) /\ (OnlyLoops' <=> OnlyLoops)
  BY DEF Blocks, OnlyLoops
<1>2. \A n : Times(n)' = Times(n)
  BY DEF Times, InNode, Count
<1>3. \A n : Between(n, 1, at - 1)' <=> Between(n, 1, at - 1)
  BY DEF Between
<1>4. ASSUME pass' \in {"tree", "done"}, OnlyLoops', NEW n \in Blocks(graph)
      PROVE  Times(n)' = IF Between(n, 1, at - 1)' THEN 1 ELSE 0
  <2>1. Times(n) = IF Between(n, 1, at - 1) THEN 1 ELSE 0
    BY <1>1, <1>4 DEF KeepInv
  <2> QED
    BY <1>2, <1>3, <2>1
<1>5. (\E S : tree' \in Seq(S)) /\ at' \in Nat \ {0}
  BY <1>1 DEF KeepInv
<1>6. /\ pass' \in {"tree", "done"} \/ (tree' = <<>> /\ at' = 1)
      /\ pass' = "done" => at' > Len(order')
  BY DEF KeepInv
<1> QED
  BY <1>1, <1>4, <1>5, <1>6 DEF KeepInv

LEMMA KeepStep == KeepInv /\ [Next]_vars => KeepInv'
<1> SUFFICES ASSUME KeepInv, [Next]_vars PROVE KeepInv'
  OBVIOUS
<1>1. OrderInv'
  BY OrderStep DEF KeepInv
<1>2. CASE \/ BackEdge \/ Descend \/ PassBy \/ Ascend \/ EndSearch
           \/ CountDegrees \/ PopFront \/ Relax \/ SkipBackEdge \/ Enqueue
  <2>1. /\ pass \notin {"tree", "done"} /\ pass' # "done" /\ UNCHANGED <<graph, at, tree>>
    BY <1>2 DEF BackEdge, Descend, PassBy, Ascend, EndSearch, CountDegrees, PopFront, Relax,
                SkipBackEdge, Enqueue, Relaxing
  <2> QED
    BY <1>1, <2>1, BeforeTreeKeeps
<1>3. CASE AppendRest
  BY <1>1, <1>3, BeforeTreeKeeps DEF AppendRest
<1>4. CASE BuildLoop
  BY <1>1, <1>4, BuildLoopKeeps
<1>5. CASE BuildIf
  BY <1>1, <1>5, BuildIfKeeps
<1>6. CASE BuildBlock
  BY <1>1, <1>6, BuildBlockKeeps
<1>7. CASE EndTree
  BY <1>1, <1>7, EndKeeps DEF EndTree
<1>8. CASE UNCHANGED vars
  BY <1>1, <1>8, EndKeeps DEF vars
<1> QED
  BY <1>2, <1>3, <1>4, <1>5, <1>6, <1>7, <1>8 DEF Next, Returned

LEMMA Kept == KeepInv => LoopsKeepBlocks
<1> SUFFICES ASSUME KeepInv, pass = "done", OnlyLoops, NEW n \in Blocks(graph)
             PROVE  Times(n) = 1
  BY DEF LoopsKeepBlocks, OnlyLoops
<1>1. Times(n) = IF Between(n, 1, at - 1) THEN 1 ELSE 0
  BY DEF KeepInv
<1>2. PICK i \in 1 .. Len(order) : order[i] = n
  BY DEF KeepInv, OrderInv, OrderIsPermutation, Ready, Ordered
<1>3. i \in 1 .. at - 1
  BY <1>2 DEF KeepInv, OrderInv, KahnInv, Shapes
<1> QED
  BY <1>1, <1>2, <1>3 DEF Between

(***************************************************************************)
(* structure.rs, build_sequence and build_loop: a tree without an if has   *)
(* every block of the function exactly once, whatever the loops, their     *)
(* headers, latches and exits: what has been built holds the blocks of the *)
(* part of the order that has been walked, once each.                      *)
(***************************************************************************)
THEOREM LoopsLoseNoBlock == Spec => []LoopsKeepBlocks
<1> QED
  BY KeepStart, KeepStep, Kept, PTL DEF Spec
-----------------------------------------------------------------------------
(* The text: what a sequence of the tree prints.                           *)

Says == {"block", "return", "if", "else", "while", "close", "Continue", "Break"}

Lines == [says : Says, of : Nat]

LEMMA ElementsJoin ==
    ASSUME NEW L, NEW s \in Seq(L), NEW t \in Seq(L)
    PROVE  s \o t \in Seq(L) /\ Elements(s \o t) = Elements(s) \cup Elements(t)
<1>1. /\ s \o t \in Seq(L) /\ Len(s \o t) = Len(s) + Len(t)
      /\ \A i \in 1 .. Len(s) + Len(t) :
            (s \o t)[i] = IF i <= Len(s) THEN s[i] ELSE t[i - Len(s)]
  OBVIOUS
<1>2. ASSUME NEW i \in 1 .. Len(s) PROVE s[i] \in Elements(s \o t)
  BY <1>1 DEF Elements
<1>3. ASSUME NEW i \in 1 .. Len(t) PROVE t[i] \in Elements(s \o t)
  <2>1. Len(s) + i \in 1 .. Len(s \o t) /\ (s \o t)[Len(s) + i] = t[i]
    BY <1>1
  <2> QED
    BY <2>1 DEF Elements
<1>4. ASSUME NEW i \in 1 .. Len(s \o t) PROVE (s \o t)[i] \in Elements(s) \cup Elements(t)
  <2>1. CASE i <= Len(s)
    BY <1>1, <2>1 DEF Elements
  <2>2. CASE ~(i <= Len(s))
    <3>1. i - Len(s) \in 1 .. Len(t) /\ (s \o t)[i] = t[i - Len(s)]
      BY <1>1, <2>2
    <3> QED
      BY <3>1 DEF Elements
  <2> QED
    BY <2>1, <2>2
<1>5. Elements(s \o t) \subseteq Elements(s) \cup Elements(t)
  BY <1>4 DEF Elements
<1>6. Elements(s) \subseteq Elements(s \o t) /\ Elements(t) \subseteq Elements(s \o t)
  BY <1>2, <1>3 DEF Elements
<1> QED
  BY <1>1, <1>5, <1>6

\* Recursion in which a step depends on its number.
Grows(T, e, grow) ==
    \E h \in [Nat -> T] : h[0] = e /\ \A n \in Nat : h[n + 1] = grow[n][h[n]]

LEMMA GrowthExists ==
    \A T, e, grow : e \in T /\ grow \in [Nat -> [T -> T]] => Grows(T, e, grow)
<1>1. SUFFICES ASSUME NEW T, NEW e, NEW grow, e \in T /\ grow \in [Nat -> [T -> T]]
               PROVE  Grows(T, e, grow)
  OBVIOUS
<1> DEFINE Sofar == Nat \X T
<1>2. PICK zero : zero = <<0, e>>
  OBVIOUS
<1>3. PICK onward : onward = [w \in Sofar |-> <<w[1] + 1, grow[w[1]][w[2]]>>]
  OBVIOUS
<1>4. zero \in Sofar
  BY <1>1, <1>2
<1>5. ASSUME NEW w \in Sofar
      PROVE  onward[w] \in Sofar /\ onward[w][1] = w[1] + 1 /\ onward[w][2] = grow[w[1]][w[2]]
  <2>1. w[1] \in Nat /\ w[2] \in T /\ grow[w[1]][w[2]] \in T
    BY <1>1
  <2>2. onward[w] = <<w[1] + 1, grow[w[1]][w[2]]>>
    BY <1>3, Zenon
  <2> QED
    BY <2>1, <2>2
<1>6. onward \in [Sofar -> Sofar]
  BY <1>3, <1>5
<1>7. PICK V : V = Sofar
  OBVIOUS
<1>8. zero \in V /\ onward \in [V -> V]
  BY <1>4, <1>6, <1>7
<1>9. \E h \in [Nat -> V] : h[0] = zero /\ \A n \in Nat : h[n + 1] = onward[h[n]]
  BY <1>8, IterationExists
<1> HIDE DEF Sofar
<1>10. PICK h \in [Nat -> Sofar] : h[0] = zero /\ \A n \in Nat : h[n + 1] = onward[h[n]]
  BY <1>7, <1>9, Zenon
<1>11. \A n \in Nat : /\ h[n + 1][1] = h[n][1] + 1
                     /\ h[n + 1][2] = grow[h[n][1]][h[n][2]]
  <2> TAKE n \in Nat
  <2>1. h[n] \in Sofar
    OBVIOUS
  <2> QED
    BY <1>5, <1>10, <2>1, Zenon
<1>12. \A n \in Nat : h[n][1] = n
  <2> DEFINE S == {n \in Nat : h[n][1] = n}
  <2>1. 0 \in S
    BY <1>2, <1>10
  <2>2. ASSUME NEW n \in Nat, n \in S PROVE n + 1 \in S
    BY <1>11, <2>2
  <2> HIDE DEF S
  <2>3. \A n \in Nat : n \in S
    BY <2>1, <2>2, AllNumbers
  <2> QED
    BY <2>3 DEF S
<1> DEFINE g == [n \in Nat |-> h[n][2]]
<1>13. g \in [Nat -> T]
  BY DEF Sofar
<1>14. g[0] = e
  BY <1>2, <1>10
<1>15. \A n \in Nat : g[n + 1] = grow[n][g[n]]
  <2> TAKE n \in Nat
  <2>1. h[n + 1][2] = grow[n][h[n][2]]
    BY <1>11, <1>12
  <2> QED
    BY <2>1
<1> QED
  BY <1>13, <1>14, <1>15 DEF Grows

\* What has been joined after n parts.
Joins(L, joins) ==
    \E h \in [Nat -> Seq(L)] : h[0] = <<>> /\ \A n \in Nat : h[n + 1] = h[n] \o joins[n]

LEMMA JoinsExist == \A L, joins : joins \in [Nat -> Seq(L)] => Joins(L, joins)
<1>1. SUFFICES ASSUME NEW L, NEW joins, joins \in [Nat -> Seq(L)] PROVE Joins(L, joins)
  OBVIOUS
<1>2. PICK T : T = Seq(L)
  OBVIOUS
<1>3. PICK grow : grow = [n \in Nat |-> [s \in T |-> s \o joins[n]]]
  OBVIOUS
<1>4. \A n \in Nat, s \in T : s \o joins[n] \in T
  BY <1>1, <1>2
<1>5. grow \in [Nat -> [T -> T]]
  BY <1>3, <1>4
<1>6. <<>> \in T
  BY <1>2
<1>7. PICK none : none = <<>>
  OBVIOUS
<1>8. none \in T
  BY <1>6, <1>7, Zenon
<1>9. Grows(T, none, grow)
  BY <1>5, <1>8, GrowthExists, Zenon
<1>10. \E h \in [Nat -> T] : h[0] = none /\ \A n \in Nat : h[n + 1] = grow[n][h[n]]
  BY <1>9, Zenon DEF Grows
<1>11. PICK h \in [Nat -> T] : h[0] = <<>> /\ \A n \in Nat : h[n + 1] = grow[n][h[n]]
  BY <1>7, <1>10
<1>12. \A n \in Nat : h[n + 1] = h[n] \o joins[n]
  <2> TAKE n \in Nat
  <2>1. h[n] \in T
    OBVIOUS
  <2>2. grow[n][h[n]] = h[n] \o joins[n]
    BY <1>3, <2>1, Zenon
  <2> QED
    BY <1>11, <2>2
<1> QED
  BY <1>2, <1>11, <1>12 DEF Joins

\* The recursion of FlattenSeq, unfolded.
LEMMA FlattenUnfolds ==
    ASSUME NEW L, NEW parts \in Seq(Seq(L)), parts # <<>>
    PROVE  \E f : /\ \A i \in 1 .. Len(parts) :
                        f[i] = IF i = 1 THEN parts[i] ELSE f[i - 1] \o parts[i]
                  /\ FlattenSeq(parts) = f[Len(parts)]
<1>1. Len(parts) \in Nat \ {0} /\ \A i \in 1 .. Len(parts) : parts[i] \in Seq(L)
  OBVIOUS
<1>2. PICK joins : joins = [n \in Nat |-> IF n < Len(parts) THEN parts[n + 1] ELSE <<>>]
  OBVIOUS
<1>3. joins \in [Nat -> Seq(L)] /\ \A n \in Nat : n < Len(parts) => joins[n] = parts[n + 1]
  BY <1>1, <1>2
<1>4. Joins(L, joins)
  BY <1>3, JoinsExist, Zenon
<1>5. PICK h \in [Nat -> Seq(L)] : h[0] = <<>> /\ \A n \in Nat : h[n + 1] = h[n] \o joins[n]
  BY <1>4 DEF Joins
<1>6. ASSUME NEW i \in 1 .. Len(parts)
      PROVE  h[i] = IF i = 1 THEN parts[i] ELSE h[i - 1] \o parts[i]
  <2>1. i - 1 \in Nat /\ i - 1 < Len(parts) /\ (i - 1) + 1 = i
    BY <1>1
  <2>2. h[i] = h[i - 1] \o joins[i - 1] /\ joins[i - 1] = parts[i]
    BY <1>3, <1>5, <2>1
  <2>3. CASE i = 1
    <3>1. h[0] = <<>> /\ i - 1 = 0 /\ parts[i] \in Seq(L)
      BY <1>1, <1>5, <2>3
    <3>2. <<>> \o parts[i] = parts[i]
      BY <3>1
    <3> QED
      BY <2>2, <2>3, <3>1, <3>2
  <2> QED
    BY <2>2, <2>3
<1>7. PICK g : g = [i \in 1 .. Len(parts) |-> h[i]]
  OBVIOUS
<1>8. \A i \in 1 .. Len(parts) : g[i] = IF i = 1 THEN parts[i] ELSE g[i - 1] \o parts[i]
  <2> TAKE i \in 1 .. Len(parts)
  <2>1. g[i] = h[i] /\ (i # 1 => i - 1 \in 1 .. Len(parts))
    BY <1>1, <1>7
  <2>2. i # 1 => g[i - 1] = h[i - 1]
    BY <1>7, <2>1
  <2> QED
    BY <1>6, <2>1, <2>2
<1>9. g = [i \in 1 .. Len(parts) |-> IF i = 1 THEN parts[i] ELSE g[i - 1] \o parts[i]]
  BY <1>7, <1>8
<1> DEFINE f == CHOOSE f : f = [i \in 1 .. Len(parts) |->
                                   IF i = 1 THEN parts[i] ELSE f[i - 1] \o parts[i]]
<1>10. FlattenSeq(parts) = f[Len(parts)]
  BY <1>1 DEF FlattenSeq
<1>11. f = [i \in 1 .. Len(parts) |-> IF i = 1 THEN parts[i] ELSE f[i - 1] \o parts[i]]
  BY <1>9, Zenon
<1> HIDE DEF f
<1>12. \A i \in 1 .. Len(parts) : f[i] = IF i = 1 THEN parts[i] ELSE f[i - 1] \o parts[i]
  BY <1>11, Zenon
<1> QED
  BY <1>10, <1>12

LEMMA FlattenedAre ==
    ASSUME NEW L, NEW parts \in Seq(Seq(L))
    PROVE  /\ FlattenSeq(parts) \in Seq(L)
           /\ Elements(FlattenSeq(parts)) = UNION {Elements(parts[i]) : i \in 1 .. Len(parts)}
<1>1. CASE parts = <<>>
  <2>1. FlattenSeq(parts) = <<>> /\ Len(parts) = 0
    BY <1>1 DEF FlattenSeq
  <2> QED
    BY <2>1 DEF Elements
<1>2. CASE parts # <<>>
  <2>1. PICK f : /\ \A i \in 1 .. Len(parts) :
                        f[i] = IF i = 1 THEN parts[i] ELSE f[i - 1] \o parts[i]
                 /\ FlattenSeq(parts) = f[Len(parts)]
    BY <1>2, FlattenUnfolds
  <2>2. Len(parts) \in Nat \ {0} /\ \A i \in 1 .. Len(parts) : parts[i] \in Seq(L)
    BY <1>2
  <2> DEFINE P(k) == /\ f[k] \in Seq(L)
                     /\ Elements(f[k]) = UNION {Elements(parts[i]) : i \in 1 .. k}
             S == {k \in Nat : k + 1 <= Len(parts) => P(k + 1)}
  <2>3. 0 \in S
    <3>1. f[1] = parts[1] /\ parts[1] \in Seq(L) /\ 1 .. 1 = {1}
      BY <2>1, <2>2
    <3>2. UNION {Elements(parts[i]) : i \in 1 .. 1} = Elements(parts[1])
      BY <3>1
    <3>3. P(1)
      BY <3>1, <3>2
    <3> HIDE DEF P
    <3> QED
      BY <3>3
  <2>4. ASSUME NEW k \in Nat, k \in S PROVE k + 1 \in S
    <3> SUFFICES ASSUME (k + 1) + 1 <= Len(parts) PROVE P((k + 1) + 1)
      OBVIOUS
    <3>1. PICK m \in Nat : m = k + 1 /\ m # 0 /\ m \in 1 .. Len(parts) /\ m + 1 \in 1 .. Len(parts)
      BY <2>2
    <3>2. P(m)
      BY <2>4, <3>1
    <3>3. f[m + 1] = f[m] \o parts[m + 1]
      <4>1. m + 1 # 1 /\ (m + 1) - 1 = m
        BY <3>1
      <4> QED
        BY <2>1, <3>1, <4>1
    <3>4. parts[m + 1] \in Seq(L)
      BY <2>2, <3>1
    <3>5. /\ f[m + 1] \in Seq(L)
          /\ Elements(f[m + 1]) = Elements(f[m]) \cup Elements(parts[m + 1])
      BY <3>2, <3>3, <3>4, ElementsJoin
    <3>6. 1 .. m + 1 = (1 .. m) \cup {m + 1}
      BY <3>1
    <3>7. P(m + 1)
      BY <3>2, <3>5, <3>6
    <3> QED
      BY <3>1, <3>7
  <2> HIDE DEF P
  <2>5. \A k \in Nat : k \in S
    BY <2>3, <2>4, AllNumbers
  <2>6. Len(parts) - 1 \in Nat /\ (Len(parts) - 1) + 1 = Len(parts)
    BY <2>2
  <2>7. P(Len(parts))
    <3>1. PICK k \in Nat : k = Len(parts) - 1
      BY <2>6
    <3>2. k + 1 = Len(parts)
      BY <2>6, <3>1
    <3>3. k + 1 <= Len(parts)
      BY <2>2, <3>2
    <3>4. k \in S
      BY <2>5, <3>1
    <3>5. P(k + 1)
      BY <3>3, <3>4
    <3> QED
      BY <3>2, <3>5
  <2> QED
    BY <2>1, <2>7 DEF P
<1> QED
  BY <1>1, <1>2
LEMMA LineFacts ==
    /\ \A w \in Says, n \in Nat : Line(w, n) \in Lines
    /\ \A l \in Lines : l.says \in Says /\ l.of \in Nat /\ l = Line(l.says, l.of)
    /\ \A w, n, v, m : Line(w, n) = Line(v, m) => w = v /\ n = m
BY DEF Line, Lines

\* The lines of block n.
BlockLines(n) ==
    {Line("block", n)} \cup IF graph[n].kind = "Return" THEN {Line("return", n)} ELSE {}

LEMMA OneLine ==
    ASSUME NEW L, NEW l \in L
    PROVE  <<l>> \in Seq(L) /\ Elements(<<l>>) = {l}
<1>1. <<l>> \in Seq(L) /\ Len(<<l>>) = 1 /\ <<l>>[1] = l
  OBVIOUS
<1>2. 1 .. 1 = {1}
  OBVIOUS
<1> QED
  BY <1>1, <1>2 DEF Elements

LEMMA BlockTextIs ==
    ASSUME WellWired(graph), NEW n \in Blocks(graph)
    PROVE  BlockText(n) \in Seq(Lines) /\ Elements(BlockText(n)) = BlockLines(n)
<1>1. n \in Nat
  BY DEF Blocks, WellWired
<1>2. PICK b, r \in Lines : b = Line("block", n) /\ r = Line("return", n)
  BY <1>1, LineFacts DEF Says
<1>3. CASE graph[n].kind = "Return"
  <2>1. /\ <<b>> \in Seq(Lines) /\ Elements(<<b>>) = {b}
        /\ <<r>> \in Seq(Lines) /\ Elements(<<r>>) = {r}
    BY OneLine
  <2>2. PICK x, y \in Seq(Lines) : x = <<b>> /\ y = <<r>>
    BY <2>1, Zenon
  <2>3. Elements(x) = {b} /\ Elements(y) = {r}
    BY <2>1, <2>2, Zenon
  <2>4. BlockText(n) = x \o y
    BY <1>2, <1>3, <2>2, Zenon DEF BlockText
  <2>5. BlockLines(n) = {b, r}
    BY <1>2, <1>3 DEF BlockLines
  <2> QED
    BY <2>3, <2>4, <2>5, ElementsJoin
<1>4. CASE graph[n].kind # "Return"
  <2>1. BlockText(n) = <<b>>
    <3>1. BlockText(n) = <<b>> \o <<>>
      BY <1>2, <1>4, Zenon DEF BlockText
    <3> QED
      BY <3>1
  <2>2. <<b>> \in Seq(Lines) /\ Elements(<<b>>) = {b}
    BY OneLine
  <2> QED
    BY <1>2, <1>4, <2>1, <2>2 DEF BlockLines
<1> QED
  BY <1>3, <1>4

LEMMA BlockTextsAre ==
    ASSUME WellWired(graph), NEW s \in Seq(Blocks(graph))
    PROVE  /\ BlockTexts(s) \in Seq(Seq(Lines)) /\ Len(BlockTexts(s)) = Len(s)
           /\ \A i \in 1 .. Len(s) : Elements(BlockTexts(s)[i]) = BlockLines(s[i])
<1>1. \A i \in 1 .. Len(s) : s[i] \in Blocks(graph)
  OBVIOUS
<1>2. \A i \in 1 .. Len(s) : BlockText(s[i]) \in Seq(Lines) /\ Elements(BlockText(s[i])) = BlockLines(s[i])
  BY <1>1, BlockTextIs
<1>3. Len(s) \in Nat
  OBVIOUS
<1>4. PICK T : T = Seq(Lines)
  OBVIOUS
<1>5. BlockTexts(s) = [i \in 1 .. Len(s) |-> BlockText(s[i])]
  BY DEF BlockTexts
<1>6. BlockTexts(s) \in [1 .. Len(s) -> T]
  BY <1>2, <1>4, <1>5
<1>7. BlockTexts(s) \in Seq(T) /\ Len(BlockTexts(s)) = Len(s)
  BY <1>3, <1>6
<1> QED
  BY <1>2, <1>4, <1>5, <1>7

LEMMA ReturnSaid ==
    ASSUME wordy = {}, NEW t \in Seq(Lines)
    PROVE  SaysReturn(t) <=> \E n : Line("return", n) \in Elements(t)
<1>1. \A i \in 1 .. Len(t) : t[i] \in Lines
  OBVIOUS
<1>2. ASSUME NEW i \in 1 .. Len(t), t[i].says = "return"
      PROVE  Line("return", t[i].of) \in Elements(t)
  BY <1>1, <1>2, LineFacts DEF Elements
<1>3. ASSUME NEW n, Line("return", n) \in Elements(t)
      PROVE  \E i \in 1 .. Len(t) : t[i].says = "return"
  BY <1>3 DEF Elements, Line
<1> QED
  BY <1>2, <1>3 DEF SaysReturn

\* The parts of a sequence up to the first with a return.
Shown(parts) == {i \in 1 .. Len(parts) : \A j \in Stops(parts) : i <= j}

LEMMA SeqTextIs ==
    ASSUME NEW parts \in Seq(Seq(Lines))
    PROVE  /\ SeqText(parts) \in Seq(Lines)
           /\ Elements(SeqText(parts)) = UNION {Elements(parts[i]) : i \in Shown(parts)}
<1>1. CASE Stops(parts) = {}
  <2>1. SeqText(parts) = FlattenSeq(parts) /\ Shown(parts) = 1 .. Len(parts)
    BY <1>1, Zenon DEF SeqText, Shown
  <2> QED
    BY <2>1, FlattenedAre
<1>2. CASE Stops(parts) # {}
  <2>1. Stops(parts) \subseteq 1 .. Len(parts) /\ Stops(parts) \subseteq Nat
    BY DEF Stops
  <2>2. \E i \in Stops(parts) : \A j \in Stops(parts) : i <= j
    BY <1>2, <2>1, LeastOf
  <2>3. PICK last \in Stops(parts) : /\ \A j \in Stops(parts) : last <= j
                                     /\ SeqText(parts) = FlattenSeq(SubSeq(parts, 1, last))
    <3> DEFINE c == CHOOSE i \in Stops(parts) : \A j \in Stops(parts) : i <= j
    <3>1. c \in Stops(parts) /\ \A j \in Stops(parts) : c <= j
      BY <2>2, Zenon
    <3>2. SeqText(parts) = FlattenSeq(SubSeq(parts, 1, c))
      BY <1>2, Zenon DEF SeqText
    <3> QED
      BY <3>1, <3>2, Zenon
  <2>4. last \in 1 .. Len(parts) /\ Len(parts) \in Nat
    BY <2>1
  <2>5. Shown(parts) = 1 .. last
    BY <2>3, <2>4, <2>1 DEF Shown
  <2>6. /\ SubSeq(parts, 1, last) \in Seq(Seq(Lines)) /\ Len(SubSeq(parts, 1, last)) = last
        /\ \A i \in 1 .. last : SubSeq(parts, 1, last)[i] = parts[i]
    BY <2>4
  <2>7. PICK sub \in Seq(Seq(Lines)) : sub = SubSeq(parts, 1, last)
    BY <2>6, Zenon
  <2>8. /\ FlattenSeq(sub) \in Seq(Lines)
        /\ Elements(FlattenSeq(sub)) = UNION {Elements(sub[i]) : i \in 1 .. Len(sub)}
    BY FlattenedAre, Zenon
  <2>9. \A i \in 1 .. last : sub[i] = parts[i]
    BY <2>6, <2>7, Zenon
  <2>10. UNION {Elements(sub[i]) : i \in 1 .. last} = UNION {Elements(parts[i]) : i \in 1 .. last}
    BY <2>9
  <2> QED
    BY <2>3, <2>5, <2>6, <2>7, <2>8, <2>10, Zenon
<1> QED
  BY <1>1, <1>2

\* A block that returns is the last of the list.
ReturnsLast(s) == \A i \in 1 .. Len(s) - 1 : graph[s[i]].kind # "Return"

\* A sequence whose last block alone returns is printed with every block.
LEMMA WholeSequence ==
    ASSUME WellWired(graph), wordy = {},
           NEW s \in Seq(Blocks(graph)), ReturnsLast(s),
           NEW end \in Seq(Seq(Lines)), \A i \in 1 .. Len(end) : ~SaysReturn(end[i]),
           NEW parts, parts = BlockTexts(s) \o end
    PROVE  /\ SeqText(parts) \in Seq(Lines)
           /\ \A i \in 1 .. Len(s) : BlockLines(s[i]) \subseteq Elements(SeqText(parts))
           /\ \A l \in Elements(SeqText(parts)) :
                \/ \E i \in 1 .. Len(s) : l \in BlockLines(s[i])
                \/ \E i \in 1 .. Len(end) : l \in Elements(end[i])
<1>1. PICK texts \in Seq(Seq(Lines)) :
            /\ texts = BlockTexts(s) /\ Len(texts) = Len(s)
            /\ \A i \in 1 .. Len(s) : Elements(texts[i]) = BlockLines(s[i])
  BY BlockTextsAre
<1>2. /\ parts \in Seq(Seq(Lines)) /\ Len(parts) = Len(s) + Len(end)
      /\ Len(s) \in Nat /\ Len(end) \in Nat
      /\ \A i \in 1 .. Len(s) : parts[i] = texts[i]
      /\ \A i \in 1 .. Len(parts) : i > Len(s) => i - Len(s) \in 1 .. Len(end) /\ parts[i] = end[i - Len(s)]
  <2>1. parts = texts \o end
    BY <1>1
  <2>2. Len(texts) \in Nat /\ Len(end) \in Nat
    OBVIOUS
  <2>3. /\ parts \in Seq(Seq(Lines)) /\ Len(parts) = Len(texts) + Len(end)
        /\ \A i \in 1 .. Len(parts) :
              parts[i] = IF i <= Len(texts) THEN texts[i] ELSE end[i - Len(texts)]
    BY <2>1
  <2>4. Len(texts) = Len(s)
    BY <1>1
  <2> HIDE <2>1
  <2> QED
    BY <2>2, <2>3, <2>4
<1>3. \A i \in 1 .. Len(s) : texts[i] \in Seq(Lines)
  BY <1>1
<1>4. ASSUME NEW j \in Stops(parts) PROVE j >= Len(s)
  <2>1. j \in 1 .. Len(parts) /\ SaysReturn(parts[j])
    BY DEF Stops
  <2>2. SUFFICES ASSUME j < Len(s) PROVE FALSE
    BY <1>2, <2>1
  <2>3. j \in 1 .. Len(s) /\ j \in 1 .. Len(s) - 1
    BY <1>2, <2>1, <2>2
  <2>4. parts[j] = texts[j] /\ texts[j] \in Seq(Lines) /\ Elements(texts[j]) = BlockLines(s[j])
    BY <1>1, <1>2, <1>3, <2>3
  <2>5. PICK n : Line("return", n) \in BlockLines(s[j])
    BY <2>1, <2>4, ReturnSaid
  <2>6. graph[s[j]].kind # "Return"
    BY <2>3 DEF ReturnsLast
  <2>7. Line("return", n) = Line("block", s[j])
    BY <2>5, <2>6 DEF BlockLines
  <2> QED
    BY <2>7, LineFacts
<1>5. /\ SeqText(parts) \in Seq(Lines)
      /\ Elements(SeqText(parts)) = UNION {Elements(parts[i]) : i \in Shown(parts)}
  BY <1>2, SeqTextIs
<1>6. \A i \in 1 .. Len(s) : i \in Shown(parts)
  <2> TAKE i \in 1 .. Len(s)
  <2>1. i \in 1 .. Len(parts)
    BY <1>2
  <2>2. ASSUME NEW j \in Stops(parts) PROVE i <= j
    <3>1. j >= Len(s) /\ j \in 1 .. Len(parts)
      BY <1>4 DEF Stops
    <3> QED
      BY <1>2, <3>1
  <2> QED
    BY <2>1, <2>2 DEF Shown
<1>7. ASSUME NEW i \in 1 .. Len(s) PROVE BlockLines(s[i]) \subseteq Elements(SeqText(parts))
  <2>1. Elements(parts[i]) = BlockLines(s[i]) /\ i \in Shown(parts)
    BY <1>1, <1>2, <1>6
  <2> QED
    BY <1>5, <2>1
<1>8. ASSUME NEW l \in Elements(SeqText(parts))
      PROVE  \/ \E i \in 1 .. Len(s) : l \in BlockLines(s[i])
             \/ \E i \in 1 .. Len(end) : l \in Elements(end[i])
  <2>1. PICK i \in 1 .. Len(parts) : l \in Elements(parts[i])
    BY <1>5 DEF Shown
  <2>2. CASE i <= Len(s)
    <3>1. i \in 1 .. Len(s) /\ Elements(parts[i]) = BlockLines(s[i])
      BY <1>1, <1>2, <2>2
    <3> QED
      BY <2>1, <3>1
  <2>3. CASE i > Len(s)
    <3>1. i - Len(s) \in 1 .. Len(end) /\ parts[i] = end[i - Len(s)]
      BY <1>2, <2>3
    <3> QED
      BY <2>1, <3>1
  <2> QED
    BY <1>2, <2>2, <2>3
<1> QED
  BY <1>5, <1>7, <1>8
\* The text x names the blocks of S, and says that one returns only if it does.
Prints(x, S) ==
    /\ x \in Seq(Lines)
    /\ \A n : Line("block", n) \in Elements(x) <=> n \in S
    /\ \A n : Line("return", n) \in Elements(x) => n \in S /\ graph[n].kind = "Return"

Quiet(end) == \A i \in 1 .. Len(end) : \A l \in Elements(end[i]) : l.says \in {"Continue", "Break"}

LEMMA SequencePrints ==
    ASSUME WellWired(graph), wordy = {},
           NEW s \in Seq(Blocks(graph)), ReturnsLast(s),
           NEW end \in Seq(Seq(Lines)), Quiet(end),
           NEW parts, parts = BlockTexts(s) \o end
    PROVE  Prints(SeqText(parts), Elements(s))
<1>1. \A i \in 1 .. Len(end) : \A n : /\ Line("block", n) \notin Elements(end[i])
                                      /\ Line("return", n) \notin Elements(end[i])
  BY DEF Quiet, Line
<1>2. \A i \in 1 .. Len(end) : end[i] \in Seq(Lines)
  OBVIOUS
<1>3. \A i \in 1 .. Len(end) : ~SaysReturn(end[i])
  BY <1>1, <1>2, ReturnSaid
<1>4. /\ SeqText(parts) \in Seq(Lines)
      /\ \A i \in 1 .. Len(s) : BlockLines(s[i]) \subseteq Elements(SeqText(parts))
      /\ \A l \in Elements(SeqText(parts)) :
            \/ \E i \in 1 .. Len(s) : l \in BlockLines(s[i])
            \/ \E i \in 1 .. Len(end) : l \in Elements(end[i])
  BY <1>3, WholeSequence
<1>5. ASSUME NEW n, Line("block", n) \in Elements(SeqText(parts)) PROVE n \in Elements(s)
  <2>1. PICK i \in 1 .. Len(s) : Line("block", n) \in BlockLines(s[i])
    BY <1>1, <1>4, <1>5
  <2>2. n = s[i]
    BY <2>1, LineFacts DEF BlockLines
  <2> QED
    BY <2>2 DEF Elements
<1>6. ASSUME NEW n, n \in Elements(s) PROVE Line("block", n) \in Elements(SeqText(parts))
  <2>1. PICK i \in 1 .. Len(s) : n = s[i]
    BY <1>6 DEF Elements
  <2>2. Line("block", n) \in BlockLines(s[i])
    BY <2>1 DEF BlockLines
  <2> QED
    BY <1>4, <2>2
<1>7. ASSUME NEW n, Line("return", n) \in Elements(SeqText(parts))
      PROVE  n \in Elements(s) /\ graph[n].kind = "Return"
  <2>1. PICK i \in 1 .. Len(s) : Line("return", n) \in BlockLines(s[i])
    BY <1>1, <1>4, <1>7
  <2>2. Line("return", n) # Line("block", s[i])
    BY LineFacts
  <2>3. graph[s[i]].kind = "Return" /\ Line("return", n) = Line("return", s[i])
    BY <2>1, <2>2 DEF BlockLines
  <2>4. n = s[i]
    BY <2>3, LineFacts
  <2> QED
    BY <2>3, <2>4 DEF Elements
<1> QED
  BY <1>4, <1>5, <1>6, <1>7 DEF Prints

\* Texts one after the other, and lines that name no block.
LEMMA PrintsJoin ==
    ASSUME NEW x, NEW y, NEW S, NEW T, Prints(x, S), Prints(y, T)
    PROVE  Prints(x \o y, S \cup T)
<1>1. x \o y \in Seq(Lines) /\ Elements(x \o y) = Elements(x) \cup Elements(y)
  BY ElementsJoin DEF Prints
<1> QED
  BY <1>1 DEF Prints

LEMMA PrintsNone ==
    ASSUME NEW w \in {"if", "else", "while", "close"}, NEW h \in Nat
    PROVE  Prints(<<Line(w, h)>>, {})
<1>1. PICK l \in Lines : l = Line(w, h)
  BY LineFacts DEF Says
<1>2. <<l>> \in Seq(Lines) /\ Elements(<<l>>) = {l}
  BY OneLine
<1>3. \A n : l # Line("block", n) /\ l # Line("return", n)
  BY <1>1, LineFacts
<1> QED
  BY <1>1, <1>2, <1>3 DEF Prints

NodeOK(t) ==
    /\ t.kind \in {"Block", "IfElse", "Loop"} /\ t.end \in {"", "Continue", "Break"}
    /\ t.head \in Blocks(graph)
    /\ t.body \in Seq(Blocks(graph)) /\ t.other \in Seq(Blocks(graph))
    /\ t.kind = "Block" => t.body = <<>>
    /\ t.kind # "IfElse" => t.other = <<>>

\* The blocks of a node.
Inside(t) == {t.head} \cup Elements(t.body) \cup Elements(t.other)

LEMMA InsideBlocks ==
    ASSUME NEW t, NodeOK(t)
    PROVE  Inside(t) \subseteq Blocks(graph)
<1>1. t.head \in Blocks(graph) /\ t.body \in Seq(Blocks(graph)) /\ t.other \in Seq(Blocks(graph))
  BY DEF NodeOK
<1>2. \A s \in Seq(Blocks(graph)) : Elements(s) \subseteq Blocks(graph)
  BY DEF Elements
<1> QED
  BY <1>1, <1>2 DEF Inside

LEMMA NoElements == Elements(<<>>) = {}
BY DEF Elements

LEMMA HeadAndBody ==
    ASSUME WellWired(graph), NEW t, NodeOK(t)
    PROVE  /\ <<t.head>> \o t.body \in Seq(Blocks(graph))
           /\ Elements(<<t.head>> \o t.body) = {t.head} \cup Elements(t.body)
           /\ t.head \in Nat
<1>1. <<t.head>> \in Seq(Blocks(graph)) /\ Elements(<<t.head>>) = {t.head}
  BY OneLine DEF NodeOK
<1>2. t.body \in Seq(Blocks(graph)) /\ t.head \in Blocks(graph)
  BY DEF NodeOK
<1>3. t.head \in Nat
  BY <1>2 DEF WellWired, Blocks
<1>4. PICK s \in Seq(Blocks(graph)) : s = <<t.head>> /\ Elements(s) = {t.head}
  BY <1>1, Zenon
<1>5. PICK u \in Seq(Blocks(graph)) : u = t.body
  BY <1>2, Zenon
<1>6. s \o u \in Seq(Blocks(graph)) /\ Elements(s \o u) = Elements(s) \cup Elements(u)
  BY ElementsJoin, Zenon
<1> QED
  BY <1>3, <1>4, <1>5, <1>6, Zenon

\* A sequence of blocks alone.
LEMMA BlocksPrint ==
    ASSUME WellWired(graph), wordy = {}, NEW s \in Seq(Blocks(graph)), ReturnsLast(s)
    PROVE  Prints(SeqText(BlockTexts(s)), Elements(s))
<1>1. <<>> \in Seq(Seq(Lines))
  OBVIOUS
<1>2. PICK none \in Seq(Seq(Lines)) : none = <<>>
  BY <1>1, Zenon
<1>3. Quiet(none)
  BY <1>2 DEF Quiet
<1>4. BlockTexts(s) \o none = BlockTexts(s)
  <2>1. PICK u \in Seq(Seq(Lines)) : u = BlockTexts(s)
    BY BlockTextsAre
  <2>2. u \o <<>> = u
    OBVIOUS
  <2> QED
    BY <1>2, <2>1, <2>2
<1>5. \A parts : parts = BlockTexts(s) \o none => Prints(SeqText(parts), Elements(s))
  BY <1>3, SequencePrints
<1> QED
  BY <1>4, <1>5

LEMMA NodePrints ==
    ASSUME WellWired(graph), wordy = {}, NEW t, NodeOK(t),
           ReturnsLast(<<t.head>> \o t.body), ReturnsLast(t.other)
    PROVE  Prints(NodeText(t), Inside(t))
<1>1. /\ <<t.head>> \o t.body \in Seq(Blocks(graph))
      /\ Elements(<<t.head>> \o t.body) = {t.head} \cup Elements(t.body)
      /\ t.head \in Nat
  BY HeadAndBody
<1>2. CASE t.kind = "Block"
  <2>1. t.body = <<>> /\ t.other = <<>> /\ t.head \in Blocks(graph)
    BY <1>2 DEF NodeOK
  <2>2. NodeText(t) = BlockText(t.head)
    BY <1>2 DEF NodeText
  <2>3. Inside(t) = {t.head}
    BY <2>1, NoElements DEF Inside
  <2>4. BlockText(t.head) \in Seq(Lines) /\ Elements(BlockText(t.head)) = BlockLines(t.head)
    BY <2>1, BlockTextIs
  <2> QED
    BY <2>2, <2>3, <2>4, LineFacts DEF Prints, BlockLines
<1>3. CASE t.kind = "IfElse"
  <2>1. NodeText(t) = IfText(t)
    BY <1>3 DEF NodeText
  <2>2. t.other \in Seq(Blocks(graph))
    BY DEF NodeOK
  <2>3. PICK a, b : /\ a = SeqText(BlockTexts(<<t.head>> \o t.body)) /\ b = SeqText(BlockTexts(t.other))
                    /\ Prints(a, {t.head} \cup Elements(t.body)) /\ Prints(b, Elements(t.other))
    BY <1>1, <2>2, BlocksPrint
  <2>4. PICK c, e, d : /\ c = <<Line("if", t.head)>> /\ Prints(c, {})
                       /\ e = <<Line("else", t.head)>> /\ Prints(e, {})
                       /\ d = <<Line("close", t.head)>> /\ Prints(d, {})
    BY <1>1, PrintsNone
  <2>5. PICK m : m = IF b = <<>> THEN <<>> ELSE e \o b
    OBVIOUS
  <2>6. IfText(t) = c \o a \o m \o d
    BY <2>3, <2>4, <2>5, Zenon DEF IfText
  <2>7. Prints(m, Elements(t.other))
    <3>1. CASE b = <<>>
      BY <2>3, <2>5, <3>1, Zenon
    <3>2. CASE b # <<>>
      <4>1. Prints(e \o b, {} \cup Elements(t.other))
        BY <2>3, <2>4, PrintsJoin, Zenon
      <4> QED
        BY <2>5, <3>2, <4>1, Zenon
    <3> QED
      BY <3>1, <3>2
  <2>8. Prints(c \o a, {} \cup ({t.head} \cup Elements(t.body)))
    BY <2>3, <2>4, PrintsJoin, Zenon
  <2>9. Prints((c \o a) \o m, ({} \cup ({t.head} \cup Elements(t.body))) \cup Elements(t.other))
    BY <2>7, <2>8, PrintsJoin, Zenon
  <2>10. Prints(((c \o a) \o m) \o d,
                (({} \cup ({t.head} \cup Elements(t.body))) \cup Elements(t.other)) \cup {})
    BY <2>4, <2>9, PrintsJoin, Zenon
  <2>11. Inside(t) = (({} \cup ({t.head} \cup Elements(t.body))) \cup Elements(t.other)) \cup {}
    BY DEF Inside
  <2> QED
    BY <2>1, <2>6, <2>10, <2>11, Zenon
<1>4. CASE t.kind = "Loop"
  <2>1. NodeText(t) = LoopText(t)
    BY <1>4 DEF NodeText
  <2>2. t.other = <<>> /\ t.end \in {"", "Continue", "Break"}
    BY <1>4 DEF NodeOK
  <2>3. PICK end : end = IF t.end = "" THEN <<>> ELSE <<<<Line(t.end, t.head)>>>>
    OBVIOUS
  <2>4. end \in Seq(Seq(Lines)) /\ Quiet(end)
    <3>1. CASE t.end = ""
      <4>1. end = <<>>
        BY <2>3, <3>1
      <4>2. <<>> \in Seq(Seq(Lines)) /\ Len(<<>>) = 0
        OBVIOUS
      <4>3. Quiet(<<>>)
        BY <4>2 DEF Quiet
      <4> QED
        BY <4>1, <4>2, <4>3, Zenon
    <3>2. CASE t.end # ""
      <4>1. PICK l \in Lines : l = Line(t.end, t.head) /\ l.says \in {"Continue", "Break"}
        <5>1. t.end \in Says /\ t.end \in {"Continue", "Break"}
          BY <2>2, <3>2 DEF Says
        <5>2. Line(t.end, t.head) \in Lines /\ Line(t.end, t.head).says = t.end
          BY <1>1, <5>1, LineFacts DEF Line
        <5> QED
          BY <5>1, <5>2
      <4>2. <<l>> \in Seq(Lines) /\ Elements(<<l>>) = {l}
        BY OneLine
      <4>3. PICK x \in Seq(Lines) : x = <<l>> /\ Elements(x) = {l}
        BY <4>2
      <4>4. <<x>> \in Seq(Seq(Lines)) /\ Len(<<x>>) = 1 /\ <<x>>[1] = x
        OBVIOUS
      <4>5. end = <<x>>
        BY <2>3, <3>2, <4>1, <4>3, Zenon
      <4> QED
        BY <4>1, <4>3, <4>4, <4>5 DEF Quiet
    <3> QED
      BY <3>1, <3>2
  <2>5. PICK parts : parts = BlockTexts(<<t.head>> \o t.body) \o end
    OBVIOUS
  <2>6. Prints(SeqText(parts), {t.head} \cup Elements(t.body))
    BY <1>1, <2>4, <2>5, SequencePrints
  <2>7. PICK c, d : /\ c = <<Line("while", t.head)>> /\ Prints(c, {})
                    /\ d = <<Line("close", t.head)>> /\ Prints(d, {})
    BY <1>1, PrintsNone
  <2>8. LoopText(t) = c \o SeqText(parts) \o d
    BY <2>3, <2>5, <2>7, Zenon DEF LoopText
  <2>9. Prints(c \o SeqText(parts), {} \cup ({t.head} \cup Elements(t.body)))
    BY <2>6, <2>7, PrintsJoin, Zenon
  <2>10. Prints((c \o SeqText(parts)) \o d, ({} \cup ({t.head} \cup Elements(t.body))) \cup {})
    BY <2>7, <2>9, PrintsJoin, Zenon
  <2>11. Inside(t) = ({} \cup ({t.head} \cup Elements(t.body))) \cup {}
    BY <2>2, NoElements DEF Inside
  <2> QED
    BY <2>1, <2>8, <2>10, <2>11, Zenon
<1> QED
  BY <1>2, <1>3, <1>4 DEF NodeOK
-----------------------------------------------------------------------------
(* The text: every block, where one exit is last and arms are next.        *)

\* What Simple says of the order.
InLine ==
    \A i \in 1 .. Len(order) :
        /\ graph[order[i]].kind = "Return" => i = Len(order)
        /\ graph[order[i]].kind = "Branch" => Ahead(i) \in {{}, {i + 1}, {i + 1, i + 2}}

NodePlain(t) == ReturnsLast(<<t.head>> \o t.body) /\ ReturnsLast(t.other)

\* Block n is in one of the first i nodes.
UpTo(i, n) == \E j \in 1 .. i : n \in Inside(tree[j])

\* The part of the order that has been walked is in the tree.
Covered == \A q \in 1 .. Len(order) : q < at => UpTo(Len(tree), order[q])

\* Nodes come in the order of their blocks: what stands before a block of a
\* node is in that node or in an earlier one.
DownClosed ==
    \A i \in 1 .. Len(tree) : \A p, q \in 1 .. Len(order) :
        q <= p /\ order[p] \in Inside(tree[i]) => UpTo(i, order[q])

TreeInv ==
    pass \in {"tree", "done"} =>
        /\ \A i \in 1 .. Len(tree) : NodeOK(tree[i])
        /\ InLine => /\ \A i \in 1 .. Len(tree) : NodePlain(tree[i])
                     /\ Covered /\ DownClosed

WholeInv == KeepInv /\ TreeInv

LEMMA WholeFacts ==
    ASSUME KeepInv
    PROVE  /\ WellWired(graph) /\ order \in Seq(Blocks(graph)) /\ Len(order) \in Nat
           /\ at \in Nat \ {0} /\ Len(tree) \in Nat
           /\ Ready => Ordered = Blocks(graph) /\ Distinct(order)
<1>1. WellWired(graph) /\ order \in Seq(Blocks(graph)) /\ at \in Nat \ {0}
  BY DEF KeepInv, OrderInv, KahnInv, Shapes
<1>2. Len(tree) \in Nat
  <2>1. PICK S : tree \in Seq(S)
    BY DEF KeepInv
  <2> QED
    BY <2>1
<1>3. Ready => Ordered = Blocks(graph) /\ Distinct(order)
  BY DEF KeepInv, OrderInv, OrderIsPermutation, Distinct
<1> QED
  BY <1>1, <1>2, <1>3

\* A step that adds a node t for the positions from at on, up to at' and perhaps more.
LEMMA AddsNode ==
    ASSUME WholeInv, InTree, pass' = pass, UNCHANGED <<graph, order>>,
           NEW t, tree' = Append(tree, t), NodeOK(t), at' \in Nat,
           InLine => NodePlain(t),
           InLine => \A q \in 1 .. Len(order) : at <= q /\ q < at' => order[q] \in Inside(t),
           InLine => \A p, q \in 1 .. Len(order) :
                        at <= q /\ q <= p /\ order[p] \in Inside(t) => order[q] \in Inside(t)
    PROVE  TreeInv'
<1>1. pass = "tree" /\ pass' = "tree" /\ at \in Nat \ {0} /\ Len(tree) \in Nat /\ Len(order) \in Nat
  BY WholeFacts DEF WholeInv, InTree
<1>2. PICK k \in Nat : k = Len(tree)
  BY <1>1
<1>3. Len(tree') = k + 1 /\ tree'[k + 1] = t /\ \A i \in 1 .. k : tree'[i] = tree[i]
  <2>1. PICK S : tree \in Seq(S)
    BY DEF WholeInv, KeepInv
  <2>2. tree \in Seq(S \cup {t}) /\ t \in S \cup {t}
    BY <2>1
  <2> QED
    BY <1>2, <2>2
<1>4. \A i \in 1 .. k + 1 : i \in 1 .. k \/ i = k + 1
  BY <1>2
<1>5. /\ \A i \in 1 .. k : NodeOK(tree[i])
      /\ InLine => /\ \A i \in 1 .. k : NodePlain(tree[i])
                   /\ Covered /\ DownClosed
  BY <1>1, <1>2 DEF WholeInv, TreeInv
<1>6. InLine' <=> InLine
  BY DEF InLine, Ahead
<1>7. ASSUME NEW i \in 1 .. k + 1 PROVE NodeOK(tree'[i])
  BY <1>3, <1>4, <1>5
<1>8. \A i \in 1 .. k + 1 : NodeOK(tree[i])'
  BY <1>7 DEF NodeOK, Blocks
<1>9. ASSUME InLine
      PROVE  \A i \in 1 .. k + 1 : NodePlain(tree[i])'
  <2>1. \A i \in 1 .. k + 1 : NodePlain(tree'[i])
    BY <1>3, <1>4, <1>5, <1>9
  <2> QED
    BY <2>1 DEF NodePlain, ReturnsLast
<1>10. \A i \in 1 .. k : \A n : UpTo(i, n)' <=> UpTo(i, n)
  <2> TAKE i \in 1 .. k
  <2> TAKE n
  <2>1. \A j \in 1 .. i : tree'[j] = tree[j]
    BY <1>2, <1>3
  <2>2. UpTo(i, n)' <=> \E j \in 1 .. i : n \in Inside(tree'[j])
    BY DEF UpTo, Inside, Elements
  <2> QED
    BY <2>1, <2>2 DEF UpTo
<1>11. \A n : UpTo(k + 1, n)' <=> UpTo(k, n) \/ n \in Inside(t)
  <2> TAKE n
  <2>1. UpTo(k + 1, n)' <=> \E j \in 1 .. k + 1 : n \in Inside(tree'[j])
    BY DEF UpTo, Inside, Elements
  <2>2. UpTo(k, n) <=> \E j \in 1 .. k : n \in Inside(tree'[j])
    BY <1>3 DEF UpTo
  <2>3. 1 .. k + 1 = 1 .. k \cup {k + 1}
    BY <1>2
  <2> QED
    BY <1>3, <2>1, <2>2, <2>3
<1>12. ASSUME InLine PROVE Covered'
  <2> SUFFICES ASSUME NEW q \in 1 .. Len(order), q < at' PROVE UpTo(k + 1, order[q])'
    BY <1>3 DEF Covered
  <2>1. UpTo(k, order[q]) \/ order[q] \in Inside(t)
    <3>1. CASE q < at
      BY <1>2, <1>5, <1>12, <3>1 DEF Covered
    <3>2. CASE ~(q < at)
      BY <1>1, <1>12, <3>2
    <3> QED
      BY <3>1, <3>2
  <2>2. PICK n : n = order[q] /\ n = order'[q]
    OBVIOUS
  <2>3. UpTo(k + 1, n)'
    BY <1>11, <2>1, <2>2
  <2> QED
    BY <2>2, <2>3 DEF UpTo
<1>13. ASSUME InLine PROVE DownClosed'
  <2>1. ASSUME NEW i \in 1 .. k + 1, NEW p \in 1 .. Len(order), NEW q \in 1 .. Len(order), q <= p,
               NEW n, n = order[q], order[p] \in Inside(tree'[i])
        PROVE  UpTo(i, n)'
    <3>1. CASE i \in 1 .. k
      <4>1. order[p] \in Inside(tree[i])
        BY <1>3, <2>1, <3>1
      <4>2. UpTo(i, order[q])
        BY <1>2, <1>5, <1>13, <2>1, <3>1, <4>1 DEF DownClosed
      <4> QED
        BY <1>10, <2>1, <3>1, <4>2
    <3>2. CASE i = k + 1
      <4>1. order[p] \in Inside(t)
        BY <1>3, <2>1, <3>2
      <4>2. CASE q < at
        BY <1>2, <1>5, <1>11, <1>13, <2>1, <3>2, <4>2 DEF Covered
      <4>3. CASE ~(q < at)
        BY <1>1, <1>11, <1>13, <2>1, <3>2, <4>1, <4>3
      <4> QED
        BY <4>2, <4>3
    <3> QED
      BY <1>4, <3>1, <3>2
  <2>2. ASSUME NEW i \in 1 .. k + 1, NEW p \in 1 .. Len(order), NEW q \in 1 .. Len(order), q <= p,
               (order[p] \in Inside(tree[i]))'
        PROVE  UpTo(i, order[q])'
    <3>1. order[p] \in Inside(tree'[i])
      BY <2>2 DEF Inside, Elements
    <3>2. PICK n : n = order[q]
      OBVIOUS
    <3>3. UpTo(i, n)'
      BY <2>1, <2>2, <3>1, <3>2
    <3> QED
      BY <3>2, <3>3 DEF UpTo
  <2> QED
    BY <1>3, <2>2 DEF DownClosed
<1> QED
  BY <1>3, <1>6, <1>8, <1>9, <1>12, <1>13 DEF TreeInv

LEMMA BuildBlockWhole ==
    ASSUME WholeInv, BuildBlock
    PROVE  TreeInv'
<1>1. /\ WellWired(graph) /\ order \in Seq(Blocks(graph)) /\ at \in 1 .. Len(order)
      /\ Len(order) \in Nat /\ Distinct(order) /\ InTree
  BY WholeFacts DEF WholeInv, BuildBlock, InTree, Ready
<1>2. PICK t : t = BlockNode(order[at])
  OBVIOUS
<1>3. /\ t.kind = "Block" /\ t.head = order[at] /\ t.body = <<>> /\ t.other = <<>> /\ t.end = ""
  BY <1>2 DEF BlockNode
<1>4. order[at] \in Blocks(graph) /\ <<>> \in Seq(Blocks(graph))
  BY <1>1
<1>5. NodeOK(t)
  BY <1>3, <1>4 DEF NodeOK
<1>6. Inside(t) = {order[at]}
  BY <1>3, NoElements DEF Inside
<1>7. NodePlain(t)
  <2>1. <<order[at]>> \o <<>> = <<order[at]>> /\ Len(<<order[at]>>) = 1 /\ Len(<<>>) = 0
    OBVIOUS
  <2>2. ReturnsLast(<<order[at]>>) /\ ReturnsLast(<<>>)
    BY <2>1 DEF ReturnsLast
  <2> QED
    BY <1>3, <2>1, <2>2 DEF NodePlain
<1>8. \A q \in 1 .. Len(order) : at <= q /\ q < at + 1 => order[q] \in Inside(t)
  BY <1>1, <1>6
<1>9. \A p, q \in 1 .. Len(order) : at <= q /\ q <= p /\ order[p] \in Inside(t) => order[q] \in Inside(t)
  BY <1>1, <1>6 DEF Distinct
<1>10. /\ tree' = Append(tree, t) /\ at' = at + 1 /\ pass' = pass /\ UNCHANGED <<graph, order>>
  BY <1>2 DEF BuildBlock
<1>11. at' \in Nat /\ \A q \in 1 .. Len(order) : at <= q /\ q < at' => order[q] \in Inside(t)
  BY <1>1, <1>8, <1>10
<1> QED
  BY <1>1, <1>5, <1>7, <1>9, <1>10, <1>11, AddsNode

\* The blocks of a loop are those from the header to the last.
LEMMA BuildLoopWhole ==
    ASSUME WholeInv, BuildLoop
    PROVE  TreeInv'
<1>1. /\ WellWired(graph) /\ order \in Seq(Blocks(graph)) /\ at \in 1 .. Len(order)
      /\ Len(order) \in Nat /\ Distinct(order) /\ InTree
  <2>1. InTree
    BY DEF BuildLoop
  <2> QED
    BY <2>1, WholeFacts DEF WholeInv, InTree, Ready
<1>2. PICK last \in Nat : at <= last /\ last <= Len(order) /\ last = LoopLast
  BY <1>1, LoopLastFacts
<1>3. PICK end : end = IF LoopEnds = {} THEN ""
                        ELSE IF Latch(order[at], order[LoopLast]) THEN "Continue" ELSE "Break"
  OBVIOUS
<1>4. end \in {"", "Continue", "Break"}
  BY <1>3
<1>5. PICK t : t = Loop(order[at], SubSeq(order, at + 1, last), end) /\ tree' = Append(tree, t)
  BY <1>2, <1>3, Zenon DEF BuildLoop
<1>6. /\ t.kind = "Loop" /\ t.head = order[at] /\ t.body = SubSeq(order, at + 1, last)
      /\ t.other = <<>> /\ t.end = end
  BY <1>5, Zenon DEF Loop
<1>7. /\ SubSeq(order, at + 1, last) \in Seq(Blocks(graph))
      /\ Len(SubSeq(order, at + 1, last)) = last - at
      /\ \A i \in 1 .. last - at : SubSeq(order, at + 1, last)[i] = order[at + i]
  BY <1>1, <1>2
<1>8. order[at] \in Blocks(graph) /\ <<>> \in Seq(Blocks(graph))
  BY <1>1
<1>9. NodeOK(t)
  BY <1>6, <1>7, <1>8, <1>4 DEF NodeOK
<1>10. \A n : n \in Inside(t) <=> \E q \in at .. last : n = order[q]
  <2>1. Inside(t) = {order[at]} \cup {SubSeq(order, at + 1, last)[i] : i \in 1 .. last - at}
    BY <1>6, <1>7, NoElements DEF Inside, Elements
  <2>2. \A q \in at .. last : q = at \/ (q - at \in 1 .. last - at /\ at + (q - at) = q)
    BY <1>1, <1>2
  <2>3. \A i \in 1 .. last - at : at + i \in at .. last
    BY <1>1, <1>2
  <2>4. at \in at .. last
    BY <1>1, <1>2
  <2> QED
    BY <1>7, <2>1, <2>2, <2>3, <2>4
<1>11. ASSUME InLine PROVE NodePlain(t)
  <2>1. PICK s : s = <<order[at]>> \o SubSeq(order, at + 1, last)
    OBVIOUS
  <2>2. /\ Len(s) = last - at + 1
        /\ \A i \in 1 .. last - at + 1 : s[i] = order[at + i - 1]
    <3>1. PICK u \in Seq(Blocks(graph)) :
                /\ u = SubSeq(order, at + 1, last) /\ Len(u) = last - at
                /\ \A i \in 1 .. last - at : u[i] = order[at + i]
      BY <1>7, Zenon
    <3>2. s = <<order[at]>> \o u
      BY <2>1, <3>1
    <3>3. last - at \in Nat
      BY <1>1, <1>2
    <3>4. /\ Len(s) = 1 + Len(u)
          /\ s[1] = order[at] /\ \A i \in 1 .. Len(u) : s[1 + i] = u[i]
      BY <3>2
    <3>5. ASSUME NEW i \in 1 .. last - at + 1 PROVE s[i] = order[at + i - 1]
      <4>1. CASE i = 1
        BY <1>1, <3>4, <4>1
      <4>2. CASE i # 1
        <5>1. i - 1 \in 1 .. last - at /\ 1 + (i - 1) = i /\ at + (i - 1) = at + i - 1
          BY <1>1, <1>2, <4>2
        <5>2. s[1 + (i - 1)] = u[i - 1] /\ u[i - 1] = order[at + (i - 1)]
          BY <3>1, <3>4, <5>1
        <5> QED
          BY <5>1, <5>2
      <4> QED
        BY <4>1, <4>2
    <3> QED
      BY <3>1, <3>3, <3>4, <3>5
  <2>3. ASSUME NEW i \in 1 .. Len(s) - 1 PROVE graph[s[i]].kind # "Return"
    <3>1. at + i - 1 \in 1 .. Len(order) /\ at + i - 1 # Len(order) /\ i \in 1 .. last - at + 1
      BY <1>1, <1>2, <2>2
    <3>2. graph[order[at + i - 1]].kind # "Return"
      BY <1>11, <3>1 DEF InLine
    <3> QED
      BY <2>2, <3>1, <3>2
  <2>4. ReturnsLast(<<>>)
    <3>1. Len(<<>>) = 0
      OBVIOUS
    <3> QED
      BY <3>1 DEF ReturnsLast
  <2> QED
    BY <1>6, <2>1, <2>3, <2>4 DEF NodePlain, ReturnsLast
<1>12. /\ at' = last + 1 /\ pass' = pass /\ UNCHANGED <<graph, order>>
  BY <1>2 DEF BuildLoop, AfterLoop
<1>13. at' \in Nat /\ \A q \in 1 .. Len(order) : at <= q /\ q < at' => order[q] \in Inside(t)
  <2>1. \A q \in 1 .. Len(order) : at <= q /\ q < last + 1 => q \in at .. last
    BY <1>1, <1>2
  <2> QED
    BY <1>2, <1>10, <1>12, <2>1
<1>14. \A p, q \in 1 .. Len(order) : at <= q /\ q <= p /\ order[p] \in Inside(t) => order[q] \in Inside(t)
  <2> SUFFICES ASSUME NEW p \in 1 .. Len(order), NEW q \in 1 .. Len(order),
                      at <= q, q <= p, order[p] \in Inside(t)
               PROVE  order[q] \in Inside(t)
    OBVIOUS
  <2>1. PICK r \in at .. last : order[p] = order[r]
    BY <1>10
  <2>2. r \in 1 .. Len(order)
    BY <1>1, <1>2
  <2>3. p = r
    BY <1>1, <2>1, <2>2 DEF Distinct
  <2>4. q \in at .. last
    BY <1>1, <1>2, <2>3
  <2> QED
    BY <1>10, <2>4
<1> QED
  BY <1>1, <1>5, <1>9, <1>11, <1>12, <1>13, <1>14, AddsNode

LEMMA BuildIfWhole ==
    ASSUME WholeInv, BuildIf
    PROVE  TreeInv'
<1>1. /\ WellWired(graph) /\ order \in Seq(Blocks(graph)) /\ at \in 1 .. Len(order)
      /\ Len(order) \in Nat /\ Distinct(order) /\ InTree /\ graph[order[at]].kind = "Branch"
  BY WholeFacts DEF WholeInv, BuildIf, InTree, Ready
<1>2. PICK a, b : a = graph[order[at]].arms[1] /\ b = graph[order[at]].arms[2]
  OBVIOUS
<1>3. PICK then, else, t : /\ then = Arm(a) /\ else = Arm(b)
                           /\ t = IfElse(order[at], then, else)
                           /\ tree' = Append(tree, t)
                           /\ at' = at + 1 + ArmLength(then, else)
  BY <1>2, Zenon DEF BuildIf
<1>4. /\ t.kind = "IfElse" /\ t.head = order[at] /\ t.body = then /\ t.other = else /\ t.end = ""
  BY <1>3 DEF IfElse
<1>5. ASSUME NEW m
      PROVE  /\ Arm(m) \in Seq(Blocks(graph)) /\ Len(Arm(m)) <= 1 /\ Len(Arm(m)) \in Nat
             /\ \A n : n \in Elements(Arm(m)) <=> n = m /\ \E j \in at + 1 .. Len(order) : order[j] = m
             /\ Arm(m) = <<>> <=> ~\E j \in at + 1 .. Len(order) : order[j] = m
  <2>1. CASE \E j \in at + 1 .. Len(order) : order[j] = m
    <3>1. m \in Blocks(graph)
      BY <1>1, <2>1
    <3>2. Arm(m) = <<m>>
      BY <2>1, Zenon DEF Arm
    <3>3. <<m>> \in Seq(Blocks(graph)) /\ Elements(<<m>>) = {m} /\ Len(<<m>>) = 1 /\ <<m>> # <<>>
      BY <3>1, OneLine
    <3> QED
      BY <2>1, <3>2, <3>3
  <2>2. CASE ~\E j \in at + 1 .. Len(order) : order[j] = m
    <3>1. Arm(m) = <<>>
      BY <2>2, Zenon DEF Arm
    <3>2. <<>> \in Seq(Blocks(graph)) /\ Len(<<>>) = 0
      OBVIOUS
    <3> QED
      BY <2>2, <3>1, <3>2, NoElements
  <2> QED
    BY <2>1, <2>2
<1>6. order[at] \in Blocks(graph)
  BY <1>1
<1>7. NodeOK(t)
  BY <1>3, <1>4, <1>5, <1>6 DEF NodeOK
<1>8. NodePlain(t)
  <2>1. /\ Len(then) \in Nat /\ Len(then) <= 1 /\ then \in Seq(Blocks(graph))
        /\ Len(else) \in Nat /\ Len(else) <= 1
    BY <1>3, <1>5
  <2>2. PICK s : s = <<order[at]>> \o then
    OBVIOUS
  <2>3. Len(s) = 1 + Len(then) /\ s[1] = order[at]
    BY <2>1, <2>2
  <2>4. \A i \in 1 .. Len(s) - 1 : i = 1
    BY <2>1, <2>3
  <2>5. ReturnsLast(s)
    BY <1>1, <2>3, <2>4 DEF ReturnsLast
  <2>6. ReturnsLast(else)
    BY <2>1 DEF ReturnsLast
  <2> QED
    BY <1>4, <2>2, <2>5, <2>6 DEF NodePlain
<1>9. \A n : n \in Inside(t) <=> n = order[at] \/ \E j \in Ahead(at) : n = order[j]
  <2> TAKE n
  <2>1. n \in Inside(t) <=>
            \/ n = order[at]
            \/ (n = a \/ n = b) /\ \E j \in at + 1 .. Len(order) : order[j] = n
    <3>1. /\ n \in Elements(then) <=> n = a /\ \E j \in at + 1 .. Len(order) : order[j] = a
          /\ n \in Elements(else) <=> n = b /\ \E j \in at + 1 .. Len(order) : order[j] = b
      BY <1>3, <1>5, Zenon
    <3>2. n \in Inside(t) <=> n = order[at] \/ n \in Elements(then) \/ n \in Elements(else)
      BY <1>4 DEF Inside
    <3> QED
      BY <3>1, <3>2
  <2>2. {graph[order[at]].arms[k] : k \in 1 .. 2} = {a, b}
    BY <1>2
  <2>3. Ahead(at) = {j \in at + 1 .. Len(order) : order[j] \in {a, b}}
    BY <2>2 DEF Ahead
  <2> QED
    BY <2>1, <2>3
<1>10. pass' = pass /\ UNCHANGED <<graph, order>>
  BY DEF BuildIf
<1>11. Ahead(at) = {} => at' = at + 1
  <2>1. Ahead(at) = {} => then = <<>> /\ else = <<>>
    <3> SUFFICES ASSUME Ahead(at) = {} PROVE then = <<>> /\ else = <<>>
      OBVIOUS
    <3>1. \A j \in at + 1 .. Len(order) : order[j] # a /\ order[j] # b
      BY <1>2 DEF Ahead
    <3> QED
      BY <1>3, <1>5, <3>1
  <2> QED
    BY <1>1, <1>3, <2>1 DEF ArmLength
<1>12. at' \in {at + 1, at + 2}
  BY <1>1, <1>3 DEF ArmLength
<1>13. at' \in Nat
  BY <1>1, <1>12
<1>14. ASSUME InLine
       PROVE  Ahead(at) \in {{}, {at + 1}, {at + 1, at + 2}}
  BY <1>1, <1>14 DEF InLine
<1>15. ASSUME InLine, NEW q \in 1 .. Len(order), at <= q, q < at'
       PROVE  order[q] \in Inside(t)
  <2>1. q = at \/ (q = at + 1 /\ Ahead(at) # {})
    BY <1>1, <1>11, <1>12, <1>15
  <2> QED
    BY <1>9, <1>14, <1>15, <2>1
<1>16. ASSUME InLine, NEW p \in 1 .. Len(order), NEW q \in 1 .. Len(order),
              at <= q, q <= p, order[p] \in Inside(t)
       PROVE  order[q] \in Inside(t)
  <2>1. p = at \/ p \in Ahead(at)
    <3>1. Ahead(at) \subseteq 1 .. Len(order)
      BY <1>1 DEF Ahead
    <3>2. PICK j \in 1 .. Len(order) : order[p] = order[j] /\ (j = at \/ j \in Ahead(at))
      BY <1>1, <1>9, <1>16, <3>1
    <3> QED
      BY <1>1, <3>2 DEF Distinct
  <2>2. q = at \/ q \in Ahead(at)
    BY <1>1, <1>14, <1>16, <2>1
  <2> QED
    BY <1>9, <2>2
<1> QED
  BY <1>1, <1>3, <1>7, <1>8, <1>10, <1>13, <1>15, <1>16, AddsNode

LEMMA WholeStart == Init => WholeInv
<1>1. Init => pass = "dfs"
  BY DEF Init
<1> QED
  BY <1>1, KeepStart DEF WholeInv, TreeInv

LEMMA WholeStep == WholeInv /\ [Next]_vars => WholeInv'
<1> SUFFICES ASSUME WholeInv, [Next]_vars PROVE TreeInv'
  BY KeepStep DEF WholeInv
<1>1. CASE \/ BackEdge \/ Descend \/ PassBy \/ Ascend \/ EndSearch
           \/ CountDegrees \/ PopFront \/ Relax \/ SkipBackEdge \/ Enqueue
  <2>1. pass' \notin {"tree", "done"}
    BY <1>1 DEF BackEdge, Descend, PassBy, Ascend, EndSearch, CountDegrees, PopFront, Relax,
                SkipBackEdge, Enqueue, Relaxing
  <2> QED
    BY <2>1 DEF TreeInv
<1>2. CASE AppendRest
  <2>1. tree' = <<>> /\ at' = 1
    BY <1>2 DEF AppendRest, WholeInv, KeepInv
  <2>2. Len(tree') = 0
    BY <2>1
  <2>3. 1 .. Len(tree') = {}
    BY <2>2
  <2>4. \A q \in 1 .. Len(order') : ~(q < at')
    <3>1. Len(order') \in Nat
      <4>1. KeepInv'
        BY KeepStep DEF WholeInv
      <4>2. order' \in Seq(Blocks(graph)')
        BY <4>1 DEF KeepInv, OrderInv, KahnInv, Shapes
      <4> QED
        BY <4>2
    <3> QED
      BY <2>1, <3>1
  <2> QED
    BY <2>3, <2>4 DEF TreeInv, Covered, DownClosed
<1>3. CASE BuildLoop
  BY <1>3, BuildLoopWhole
<1>4. CASE BuildIf
  BY <1>4, BuildIfWhole
<1>5. CASE BuildBlock
  BY <1>5, BuildBlockWhole
<1>6. CASE EndTree \/ UNCHANGED vars
  <2>1. UNCHANGED <<graph, order, tree, at>> /\ (pass' \in {"tree", "done"} => pass \in {"tree", "done"})
    BY <1>6 DEF EndTree, vars
  <2>2. /\ InLine' <=> InLine
        /\ Covered' <=> Covered
        /\ DownClosed' <=> DownClosed
    BY <2>1 DEF InLine, Ahead, Covered, DownClosed, UpTo, Inside, Elements
  <2>3. \A i : (NodeOK(tree[i])' <=> NodeOK(tree[i])) /\ (NodePlain(tree[i])' <=> NodePlain(tree[i]))
    BY <2>1 DEF NodeOK, NodePlain, ReturnsLast, Blocks
  <2> QED
    BY <2>1, <2>2, <2>3 DEF TreeInv, WholeInv
<1> QED
  BY <1>1, <1>2, <1>3, <1>4, <1>5, <1>6 DEF Next, Returned

-----------------------------------------------------------------------------
(* Emission.                                                               *)

\* The blocks of the first i nodes.
BlocksUpTo(i) == {n \in Blocks(graph) : UpTo(i, n)}

EmitInv ==
    /\ WholeInv
    /\ next \in Nat
    /\ next = 0 => text = <<>>
    /\ next > 0 => pass = "done" /\ next <= Len(tree) + 1
    /\ next > 0 /\ Simple => Prints(text, BlocksUpTo(next - 1))

LEMMA SimpleIs == Simple <=> wordy = {} /\ InLine
BY DEF Simple, InLine

LEMMA DoneStays == pass = "done" /\ [Next]_vars => UNCHANGED vars
BY DEF Next, BackEdge, Descend, PassBy, Ascend, EndSearch, CountDegrees, PopFront, Relax,
       SkipBackEdge, Enqueue, AppendRest, Relaxing, BuildLoop, BuildIf, BuildBlock, InTree,
       EndTree, Returned

LEMMA EmitStarts == EmitInit => EmitInv
BY WholeStart DEF EmitInit, EmitInv

\* What the structurer does not change, the text keeps.
LEMMA EmitInvKept ==
    ASSUME EmitInv, UNCHANGED vars, UNCHANGED emitVars
    PROVE  EmitInv'
<1>1. WholeInv'
  BY WholeStep DEF EmitInv
<1>2. (Simple' <=> Simple) /\ BlocksUpTo(next - 1)' = BlocksUpTo(next - 1)
  BY DEF Simple, Ahead, BlocksUpTo, UpTo, Inside, Elements, Blocks, vars, emitVars
<1>3. Prints(text, BlocksUpTo(next - 1)) => Prints(text, BlocksUpTo(next - 1))'
  BY <1>2 DEF Prints, Elements, vars, emitVars
<1> QED
  BY <1>1, <1>2, <1>3 DEF EmitInv, vars, emitVars

LEMMA StartEmissionEmits == EmitInv /\ StartEmission => EmitInv'
<1> SUFFICES ASSUME EmitInv, StartEmission PROVE EmitInv'
  OBVIOUS
<1>1. WholeInv'
  BY WholeStep DEF EmitInv, StartEmission
<1>2. next' = 1 /\ text' = <<>> /\ pass' = "done" /\ tree' = tree
  BY DEF EmitInv, StartEmission, vars
<1>3. Len(tree) \in Nat
  BY WholeFacts DEF EmitInv, WholeInv
<1>4. BlocksUpTo(next - 1)' = {}
  BY <1>2 DEF BlocksUpTo, UpTo
<1>5. Prints(<<>>, {})'
  <2>1. <<>> \in Seq(Lines) /\ Elements(<<>>) = {}
    BY NoElements
  <2> QED
    BY <2>1 DEF Prints
<1>6. Prints(text, BlocksUpTo(next - 1))'
  BY <1>2, <1>4, <1>5 DEF Prints
<1> QED
  BY <1>1, <1>2, <1>3, <1>6 DEF EmitInv

\* A node with a return in it has the last block, and with those before it all.
LEMMA ReturnIsAll ==
    ASSUME EmitInv, Simple, next \in 1 .. Len(tree), SaysReturn(NodeText(tree[next])),
           NEW x, x = NodeText(tree[next]), Prints(x, Inside(tree[next]))
    PROVE  \A n \in Blocks(graph) : UpTo(next, n)
<1>1. /\ Ordered = Blocks(graph) /\ Len(order) \in Nat /\ InLine /\ wordy = {}
      /\ DownClosed
  BY WholeFacts, SimpleIs DEF EmitInv, WholeInv, TreeInv, Ready
<1>2. PICK n : Line("return", n) \in Elements(x)
  BY <1>1, ReturnSaid DEF Prints
<1>3. n \in Inside(tree[next]) /\ graph[n].kind = "Return"
  BY <1>2 DEF Prints
<1>4. n \in Blocks(graph)
  <2>1. NodeOK(tree[next])
    BY DEF EmitInv, WholeInv, TreeInv
  <2> QED
    BY <1>3, <2>1, InsideBlocks
<1>5. PICK p \in 1 .. Len(order) : order[p] = n
  BY <1>1, <1>4 DEF Ordered
<1>6. p = Len(order)
  BY <1>1, <1>3, <1>5 DEF InLine
<1>7. \A q \in 1 .. Len(order) : UpTo(next, order[q])
  BY <1>1, <1>3, <1>5, <1>6 DEF DownClosed
<1> QED
  BY <1>1, <1>7 DEF Ordered

LEMMA EmitNodeEmits == EmitInv /\ EmitNode => EmitInv'
<1> SUFFICES ASSUME EmitInv, EmitNode PROVE EmitInv'
  OBVIOUS
<1>1. WholeInv'
  BY WholeStep DEF EmitInv, EmitNode
<1>2. /\ next \in 1 .. Len(tree) /\ next \in Nat /\ Len(tree) \in Nat
      /\ WellWired(graph) /\ pass = "done" /\ NodeOK(tree[next])
  BY WholeFacts DEF EmitInv, EmitNode, WholeInv, TreeInv
<1>3. /\ text' = text \o NodeText(tree[next])
      /\ next' = IF SaysReturn(NodeText(tree[next])) THEN Len(tree) + 1 ELSE next + 1
      /\ UNCHANGED <<graph, order, tree, pass, wordy>>
  BY DEF EmitNode, vars
<1>4. next' \in Nat /\ next' > 0 /\ next' <= Len(tree') + 1 /\ pass' = "done"
  BY <1>2, <1>3
<1>5. Simple' <=> Simple
  BY <1>3 DEF Simple, Ahead
<1>6. ASSUME Simple
      PROVE  Prints(text, BlocksUpTo(next - 1))'
  <2>1. wordy = {} /\ InLine
    BY <1>6, SimpleIs
  <2>2. NodePlain(tree[next])
    BY <1>2, <2>1 DEF EmitInv, WholeInv, TreeInv
  <2>3. PICK x : x = NodeText(tree[next]) /\ Prints(x, Inside(tree[next]))
    BY <1>2, <2>1, <2>2, NodePrints DEF NodePlain
  <2>4. Prints(text, BlocksUpTo(next - 1))
    BY <1>2, <1>6 DEF EmitInv
  <2>5. Prints(text', BlocksUpTo(next - 1) \cup Inside(tree[next]))
    BY <1>3, <2>3, <2>4, PrintsJoin
  <2>6. BlocksUpTo(next - 1) \cup Inside(tree[next]) = BlocksUpTo(next)
    <3>1. 1 .. next = 1 .. next - 1 \cup {next}
      BY <1>2
    <3>2. Inside(tree[next]) \subseteq Blocks(graph)
      BY <1>2, InsideBlocks
    <3> QED
      BY <3>1, <3>2 DEF BlocksUpTo, UpTo
  <2>7. BlocksUpTo(next' - 1) = BlocksUpTo(next)
    <3>1. CASE SaysReturn(NodeText(tree[next]))
      <4>1. \A n \in Blocks(graph) : UpTo(next, n)
        BY <1>2, <1>6, <2>3, <3>1, ReturnIsAll
      <4>2. next' - 1 = Len(tree) /\ \A j \in 1 .. next : j \in 1 .. Len(tree)
        BY <1>2, <1>3, <3>1
      <4>3. \A n \in Blocks(graph) : UpTo(Len(tree), n)
        BY <4>1, <4>2 DEF UpTo
      <4> QED
        BY <4>1, <4>2, <4>3 DEF BlocksUpTo
    <3>2. CASE ~SaysReturn(NodeText(tree[next]))
      BY <1>2, <1>3, <3>2
    <3> QED
      BY <3>1, <3>2
  <2>8. BlocksUpTo(next - 1)' = BlocksUpTo(next' - 1)
    BY <1>3 DEF BlocksUpTo, UpTo, Inside, Elements, Blocks
  <2> QED
    BY <1>3, <2>5, <2>6, <2>7, <2>8 DEF Prints, Elements
<1> QED
  BY <1>1, <1>4, <1>5, <1>6 DEF EmitInv

LEMMA EmitStep == EmitInv /\ [EmitNext]_<<vars, emitVars>> => EmitInv'
<1> SUFFICES ASSUME EmitInv, [EmitNext]_<<vars, emitVars>> PROVE EmitInv'
  OBVIOUS
<1>1. CASE Next /\ UNCHANGED emitVars
  <2>1. WholeInv'
    BY <1>1, WholeStep DEF EmitInv
  <2>2. CASE next = 0
    <3>1. next' = 0 /\ text' = <<>>
      BY <1>1, <2>2 DEF EmitInv, emitVars
    <3> QED
      BY <2>1, <3>1 DEF EmitInv
  <2>3. CASE next # 0
    <3>1. pass = "done"
      BY <2>3 DEF EmitInv
    <3>2. UNCHANGED vars
      BY <1>1, <3>1, DoneStays
    <3> QED
      BY <1>1, <3>2, EmitInvKept
  <2> QED
    BY <2>2, <2>3
<1>2. CASE StartEmission
  BY <1>2, StartEmissionEmits
<1>3. CASE EmitNode
  BY <1>3, EmitNodeEmits
<1>4. CASE UNCHANGED <<vars, emitVars>>
  BY <1>4, EmitInvKept
<1> QED
  BY <1>1, <1>2, <1>3, <1>4 DEF EmitNext

LEMMA EmittedWhole == EmitInv => OneExitIsWhole
<1> SUFFICES ASSUME EmitInv, next > 0, Emitted, Simple PROVE Printed = Blocks(graph)
  BY DEF OneExitIsWhole
<1>1. /\ Ordered = Blocks(graph) /\ Len(order) \in Nat /\ Len(tree) \in Nat /\ at \in Nat /\ pass = "done"
      /\ at > Len(order)
  BY WholeFacts DEF EmitInv, WholeInv, KeepInv, Ready
<1>2. next - 1 = Len(tree)
  BY <1>1 DEF EmitInv, Emitted
<1>3. Covered
  BY <1>1, SimpleIs DEF EmitInv, WholeInv, TreeInv
<1>4. \A n \in Blocks(graph) : UpTo(Len(tree), n)
  <2> TAKE n \in Blocks(graph)
  <2>1. PICK q \in 1 .. Len(order) : order[q] = n
    BY <1>1 DEF Ordered
  <2>2. q < at
    BY <1>1
  <2> QED
    BY <1>3, <2>1, <2>2 DEF Covered
<1>5. Prints(text, Blocks(graph))
  <2>1. BlocksUpTo(next - 1) = Blocks(graph)
    BY <1>2, <1>4 DEF BlocksUpTo
  <2> QED
    BY <2>1 DEF EmitInv
<1>6. text \in Seq(Lines) /\ \A n : Line("block", n) \in Elements(text) <=> n \in Blocks(graph)
  BY <1>5 DEF Prints
<1>7. ASSUME NEW i \in 1 .. Len(text), text[i].says = "block" PROVE text[i].of \in Blocks(graph)
  <2>1. text[i] \in Lines
    BY <1>6
  <2>2. text[i] = Line("block", text[i].of)
    BY <1>7, <2>1, LineFacts
  <2>3. text[i] \in Elements(text)
    BY DEF Elements
  <2> QED
    BY <1>6, <2>2, <2>3
<1>8. ASSUME NEW n \in Blocks(graph) PROVE \E i \in 1 .. Len(text) : text[i].says = "block" /\ text[i].of = n
  <2>1. PICK i \in 1 .. Len(text) : text[i] = Line("block", n)
    BY <1>6 DEF Elements
  <2> QED
    BY <2>1 DEF Line
<1> QED
  BY <1>7, <1>8 DEF Printed

(***************************************************************************)
(* c.rs, emit_node over structure.rs's tree: a function whose one exit is  *)
(* last in the order, and whose branches lead to what is right behind      *)
(* them, is printed with every block.  Leaving a sequence after a node     *)
(* with a return in it cuts nothing: nodes come in the order of their      *)
(* blocks, so the node with the exit has all others before it.             *)
(***************************************************************************)
THEOREM OneExitPrintsAll == EmitSpec => []OneExitIsWhole
<1> QED
  BY EmitStarts, EmitStep, EmittedWhole, PTL DEF EmitSpec
=============================================================================
