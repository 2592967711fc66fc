---------------------------- MODULE GraphProofs ----------------------------
(***************************************************************************)
(* For every program: the boxes of the call graph lie apart, its edges     *)
(* count the calls, callers are above their callees, and the node that is  *)
(* highlighted is the one under the pointer.                               *)
(***************************************************************************)
EXTENDS GraphView, FiniteSetTheorems, TLAPS

\* Least numbers, induction and lists.
Counting == INSTANCE FlowGraphProofs WITH Graphs <- {}

LEMMA CountsAgree ==
  ASSUME NEW S
  PROVE  /\ Counting!IsFiniteSet(S) <=> IsFiniteSet(S)
         /\ Counting!Cardinality(S) = Cardinality(S)
BY DEF Counting!IsFiniteSet, IsFiniteSet, Counting!Cardinality, Cardinality

-----------------------------------------------------------------------------
(* Finite sets: images, greatest members, the place of each in an order.   *)

LEMMA ImageIsFinite ==
  ASSUME NEW S, IsFiniteSet(S), NEW T, NEW f \in [S -> T], \A t \in T : \E s \in S : f[s] = t
  PROVE  IsFiniteSet(T) /\ Cardinality(T) <= Cardinality(S)
<1>1. f \in Surjection(S, T)
  BY DEF Surjection
<1> QED
  BY <1>1, FS_Surjection

LEMMA CountedTo ==
  ASSUME NEW n \in Nat
  PROVE  IsFiniteSet(1 .. n) /\ Cardinality(1 .. n) = n
<1>1. 1 \in Int /\ n \in Int
  OBVIOUS
<1>2. IsFiniteSet(1 .. n) /\ Cardinality(1 .. n) = IF 1 > n THEN 0 ELSE n - 1 + 1
  BY <1>1, FS_Interval
<1> QED
  BY <1>2

LEMMA GreatestFacts ==
  ASSUME NEW S, S \subseteq Int, IsFiniteSet(S), S # {}
  PROVE  Greatest(S) \in S /\ \A n \in S : n <= Greatest(S)
<1> DEFINE Tops == {n \in Nat : \A U \in SUBSET Int :
                        IsFiniteSet(U) /\ Cardinality(U) = n /\ U # {} =>
                            \E m \in U : \A k \in U : k <= m}
<1>1. 0 \in Tops
  BY FS_EmptySet
<1>2. \A n \in Nat : n \in Tops => n + 1 \in Tops
  <2> TAKE n \in Nat
  <2> HAVE n \in Tops
  <2> SUFFICES ASSUME NEW U \in SUBSET Int, IsFiniteSet(U), Cardinality(U) = n + 1, U # {}
               PROVE  \E m \in U : \A k \in U : k <= m
    OBVIOUS
  <2>1. PICK x \in U : TRUE
    OBVIOUS
  <2>2. PICK V : V = U \ {x}
    OBVIOUS
  <2>3. IsFiniteSet(V) /\ Cardinality(V) = n
    <3>1. IsFiniteSet(U \ {x}) /\ Cardinality(U \ {x}) = Cardinality(U) - 1
      BY <2>1, FS_RemoveElement
    <3> QED
      BY <2>2, <3>1
  <2>4. CASE V = {}
    BY <2>1, <2>2, <2>4
  <2>5. CASE V # {}
    <3>1. PICK m \in V : \A k \in V : k <= m
      BY <2>2, <2>3, <2>5
    <3>2. m \in Int /\ x \in Int
      BY <2>1, <2>2, <3>1
    <3>3. CASE x <= m
      BY <2>2, <3>1, <3>3
    <3>4. CASE m <= x
      BY <2>2, <3>1, <3>2, <3>4
    <3> QED
      BY <3>2, <3>3, <3>4
  <2> QED
    BY <2>4, <2>5
<1> HIDE DEF Tops
<1>3. \A n \in Nat : n \in Tops
  BY <1>1, <1>2, Counting!AllNumbers
<1>4. Cardinality(S) \in Nat
  BY FS_CardinalityType
<1>5. \E m \in S : \A n \in S : n <= m
  BY <1>3, <1>4 DEF Tops
<1> QED
  BY <1>5, Zenon DEF Greatest

\* R orders S.
Orders(R, S) ==
    /\ \A x \in S : <<x, x>> \notin R
    /\ \A x, y, z \in S : <<x, y>> \in R /\ <<y, z>> \in R => <<x, z>> \in R
    /\ \A x, y \in S : x # y => <<x, y>> \in R \/ <<y, x>> \in R

BeforeIn(R, S, y) == {x \in S : <<x, y>> \in R}

LEMMA PlacesInOrder ==
  ASSUME NEW S, IsFiniteSet(S), NEW R, Orders(R, S)
  PROVE  /\ \A y \in S : /\ IsFiniteSet(BeforeIn(R, S, y))
                         /\ Cardinality(BeforeIn(R, S, y)) \in Nat
                         /\ Cardinality(BeforeIn(R, S, y)) < Cardinality(S)
         /\ \A x, y \in S : x # y =>
                Cardinality(BeforeIn(R, S, x)) # Cardinality(BeforeIn(R, S, y))
<1>1. ASSUME NEW y \in S
      PROVE  /\ IsFiniteSet(BeforeIn(R, S, y))
             /\ Cardinality(BeforeIn(R, S, y)) \in Nat
             /\ Cardinality(BeforeIn(R, S, y)) < Cardinality(S)
  <2>1. BeforeIn(R, S, y) \in SUBSET S /\ BeforeIn(R, S, y) # S
    BY DEF BeforeIn, Orders
  <2>2. /\ IsFiniteSet(BeforeIn(R, S, y))
        /\ Cardinality(BeforeIn(R, S, y)) <= Cardinality(S)
        /\ Cardinality(BeforeIn(R, S, y)) # Cardinality(S)
    BY <2>1, FS_Subset
  <2>3. Cardinality(BeforeIn(R, S, y)) \in Nat /\ Cardinality(S) \in Nat
    BY <2>2, FS_CardinalityType
  <2> QED
    BY <2>2, <2>3
<1>2. ASSUME NEW x \in S, NEW y \in S, <<x, y>> \in R
      PROVE  Cardinality(BeforeIn(R, S, x)) # Cardinality(BeforeIn(R, S, y))
  <2>1. BeforeIn(R, S, x) \in SUBSET BeforeIn(R, S, y)
    BY <1>2 DEF BeforeIn, Orders
  <2>2. x \in BeforeIn(R, S, y) /\ x \notin BeforeIn(R, S, x)
    BY <1>2 DEF BeforeIn, Orders
  <2>3. BeforeIn(R, S, y) # BeforeIn(R, S, x)
    BY <2>2
  <2>4. IsFiniteSet(BeforeIn(R, S, y))
    BY <1>1
  <2> QED
    BY <2>1, <2>3, <2>4, FS_Subset
<1> QED
  BY <1>1, <1>2 DEF Orders

-----------------------------------------------------------------------------
(* What extract_call_graph makes of a program.                             *)

SlotCount == Len(prog) + Cardinality(External)

NamesMade ==
    [s \in 1 .. SlotCount |->
        IF s \in Internal THEN prog[s].name ELSE CHOOSE m \in External : SlotOf(m) = s]

EdgesMade ==
    UNION {{[from |-> i, to |-> SlotOf(m), sites |-> Sites(i, m)] : m \in CallsOf(i)} :
                i \in Callers}

Extracted == names = NamesMade /\ edges = EdgesMade

LEMMA ProgFacts ==
  ASSUME prog \in Programs
  PROVE  /\ Len(prog) \in Nat /\ IsFiniteSet(Internal)
         /\ \A i \in Internal : /\ prog[i].name \in Nat /\ prog[i].stmts \in Nat
                                /\ Len(prog[i].calls) \in Nat
                                /\ CallsOf(i) \subseteq Nat /\ IsFiniteSet(CallsOf(i))
<1>1. prog \in Seq(Function)
  BY LayoutAssumption
<1>2. Len(prog) \in Nat /\ IsFiniteSet(Internal)
  BY <1>1, CountedTo DEF Internal
<1>3. ASSUME NEW i \in Internal
      PROVE  /\ prog[i].name \in Nat /\ prog[i].stmts \in Nat /\ Len(prog[i].calls) \in Nat
             /\ CallsOf(i) \subseteq Nat /\ IsFiniteSet(CallsOf(i))
  <2>1. prog[i] \in Function
    BY <1>1 DEF Internal
  <2>2. PICK c : c = prog[i].calls
    OBVIOUS
  <2>3. c \in Seq(Nat) /\ prog[i].name \in Nat /\ prog[i].stmts \in Nat
    BY <2>1, <2>2 DEF Function
  <2>4. Len(c) \in Nat /\ IsFiniteSet(1 .. Len(c))
    BY <2>3, CountedTo
  <2>5. CallsOf(i) = {c[k] : k \in 1 .. Len(c)}
    BY <2>2 DEF CallsOf
  <2>6. CallsOf(i) \subseteq Nat
    BY <2>3, <2>5
  <2>7. c \in [1 .. Len(c) -> CallsOf(i)]
    BY <2>3, <2>5
  <2>8. IsFiniteSet(CallsOf(i))
    BY <2>4, <2>5, <2>7, ImageIsFinite
  <2> QED
    BY <2>2, <2>3, <2>4, <2>6, <2>8
<1> QED
  BY <1>2, <1>3

LEMMA LastNamedFacts ==
  ASSUME prog \in Programs, NEW n, Named(n) # {}
  PROVE  LastNamed(n) \in Named(n) /\ \A j \in Named(n) : j <= LastNamed(n)
<1>1. Named(n) \in SUBSET Internal /\ Named(n) \subseteq Int
  BY DEF Named, Internal
<1>2. IsFiniteSet(Named(n))
  BY <1>1, ProgFacts, FS_Subset
<1>3. \E i \in Named(n) : \A j \in Named(n) : j <= i
  BY <1>1, <1>2, GreatestFacts
<1> QED
  BY <1>3, Zenon DEF LastNamed

LEMMA CallersFacts ==
  ASSUME prog \in Programs
  PROVE  Callers \subseteq Internal /\ IsFiniteSet(Callers)
<1>1. \A i \in Internal : LastNamed(prog[i].name) \in Internal
  <2> TAKE i \in Internal
  <2>1. Named(prog[i].name) # {}
    BY DEF Named
  <2> QED
    BY <2>1, LastNamedFacts DEF Named
<1>2. Callers \in SUBSET Internal
  BY <1>1 DEF Callers
<1> QED
  BY <1>2, ProgFacts, FS_Subset

LEMMA ExternalFacts ==
  ASSUME prog \in Programs
  PROVE  /\ IsFiniteSet(External) /\ External \subseteq Nat
         /\ Cardinality(External) \in Nat
         /\ \A m : m \in External <=> Named(m) = {} /\ \E i \in Callers : m \in CallsOf(i)
<1>1. \A m : m \in External <=> Named(m) = {} /\ \E i \in Callers : m \in CallsOf(i)
  BY DEF External
<1>2. PICK U : U = UNION {CallsOf(i) : i \in Internal}
  OBVIOUS
<1>3. IsFiniteSet(U)
  <2>1. PICK W : W = {CallsOf(i) : i \in Internal}
    OBVIOUS
  <2>2. PICK f : f = [i \in Internal |-> CallsOf(i)]
    OBVIOUS
  <2>3. f \in [Internal -> W] /\ \A t \in W : \E s \in Internal : f[s] = t
    BY <2>1, <2>2
  <2>4. IsFiniteSet(W)
    BY <2>3, ProgFacts, ImageIsFinite
  <2>5. \A T \in W : IsFiniteSet(T)
    BY <2>1, ProgFacts
  <2> QED
    BY <1>2, <2>1, <2>4, <2>5, FS_UNION
<1>4. External \in SUBSET U
  BY <1>1, <1>2, CallersFacts
<1>5. IsFiniteSet(External)
  BY <1>3, <1>4, FS_Subset
<1>6. External \subseteq Nat
  BY <1>2, <1>4, ProgFacts
<1> QED
  BY <1>1, <1>5, <1>6, FS_CardinalityType

FirstCallers(m) == {i \in Callers : m \in CallsOf(i)}

LEMMA ExternalsAreOrdered ==
  ASSUME prog \in Programs
  PROVE  Orders({p \in External \X External : ComesBefore(p[1], p[2])}, External)
<1>1. /\ External \subseteq Nat /\ Callers \subseteq Nat
      /\ \A m \in External : FirstCallers(m) # {}
  BY ExternalFacts, CallersFacts DEF FirstCallers, Internal
<1>2. \A m \in External : \E i \in FirstCallers(m) : \A j \in FirstCallers(m) : i <= j
  <2> TAKE m \in External
  <2>1. FirstCallers(m) \subseteq Nat /\ FirstCallers(m) # {}
    BY <1>1 DEF FirstCallers
  <2> QED
    BY <2>1, Counting!LeastOf
<1>3. PICK first : first = [m \in External |->
                CHOOSE i \in FirstCallers(m) : \A j \in FirstCallers(m) : i <= j]
  OBVIOUS
<1>4. \A m \in External : /\ first[m] \in FirstCallers(m) /\ first[m] \in Nat
                          /\ \A j \in FirstCallers(m) : first[m] <= j /\ j \in Nat
  BY <1>1, <1>2, <1>3 DEF FirstCallers
<1>5. \A m, n \in External :
        ComesBefore(m, n) <=> first[m] < first[n] \/ (first[m] = first[n] /\ m < n)
  <2> TAKE m \in External, n \in External
  <2>1. ComesBefore(m, n) <=>
          \E i \in FirstCallers(m) : \A j \in FirstCallers(n) : i < j \/ (i = j /\ m < n)
    BY DEF ComesBefore, FirstCallers
  <2>2. ASSUME NEW i \in FirstCallers(m),
               \A j \in FirstCallers(n) : i < j \/ (i = j /\ m < n)
        PROVE  first[m] < first[n] \/ (first[m] = first[n] /\ m < n)
    <3>1. i < first[n] \/ (i = first[n] /\ m < n)
      BY <1>4, <2>2
    <3>2. first[m] <= i /\ i \in Nat /\ first[m] \in Nat /\ first[n] \in Nat
      BY <1>4
    <3> QED
      BY <3>1, <3>2
  <2>3. ASSUME first[m] < first[n] \/ (first[m] = first[n] /\ m < n)
        PROVE  \A j \in FirstCallers(n) : first[m] < j \/ (first[m] = j /\ m < n)
    <3> TAKE j \in FirstCallers(n)
    <3>1. first[n] <= j /\ j \in Nat /\ first[m] \in Nat /\ first[n] \in Nat
      BY <1>4
    <3> QED
      BY <2>3, <3>1
  <2> QED
    BY <1>4, <2>1, <2>2, <2>3
<1>6. PICK R : R = {p \in External \X External : ComesBefore(p[1], p[2])}
  OBVIOUS
<1>7. \A m, n \in External :
        <<m, n>> \in R <=> first[m] < first[n] \/ (first[m] = first[n] /\ m < n)
  BY <1>5, <1>6
<1>8. \A m \in External : m \in Nat /\ first[m] \in Nat
  BY <1>1, <1>4
<1>9. Orders(R, External)
  <2>1. \A m \in External : <<m, m>> \notin R
    BY <1>7, <1>8
  <2>2. \A m, n, o \in External : <<m, n>> \in R /\ <<n, o>> \in R => <<m, o>> \in R
    BY <1>7, <1>8
  <2>3. \A m, n \in External : m # n => <<m, n>> \in R \/ <<n, m>> \in R
    BY <1>7, <1>8
  <2> QED
    BY <2>1, <2>2, <2>3 DEF Orders
<1> QED
  BY <1>6, <1>9

LEMMA SlotFacts ==
  ASSUME prog \in Programs
  PROVE  /\ SlotCount \in Nat /\ Len(prog) \in Nat /\ Len(prog) <= SlotCount
         /\ \A m \in External : SlotOf(m) \in Len(prog) + 1 .. SlotCount
         /\ \A m, n \in External : SlotOf(m) = SlotOf(n) => m = n
         /\ \A m : Named(m) # {} => SlotOf(m) = LastNamed(m) /\ SlotOf(m) \in Named(m)
         /\ \A i \in Callers : \A m \in CallsOf(i) : Named(m) # {} \/ m \in External
<1>1. PICK R : R = {p \in External \X External : ComesBefore(p[1], p[2])}
  OBVIOUS
<1>2. Orders(R, External) /\ IsFiniteSet(External) /\ Cardinality(External) \in Nat
  BY <1>1, ExternalsAreOrdered, ExternalFacts
<1>3. Len(prog) \in Nat /\ SlotCount = Len(prog) + Cardinality(External)
  BY ProgFacts DEF SlotCount
<1>4. \A m \in External : SlotOf(m) = Len(prog) + 1 + Cardinality(BeforeIn(R, External, m))
  <2> TAKE m \in External
  <2>1. {n \in External : n # m /\ ComesBefore(n, m)} = BeforeIn(R, External, m)
    <3>1. \A n \in External : <<n, m>> \in R <=> ComesBefore(n, m)
      BY <1>1
    <3>2. <<m, m>> \notin R
      BY <1>2 DEF Orders
    <3> QED
      BY <3>1, <3>2 DEF BeforeIn
  <2>2. Named(m) = {}
    BY ExternalFacts
  <2> QED
    BY <2>1, <2>2 DEF SlotOf
<1>5. ASSUME NEW m \in External PROVE SlotOf(m) \in Len(prog) + 1 .. SlotCount
  <2>1. PICK c : c = Cardinality(BeforeIn(R, External, m))
    OBVIOUS
  <2>2. c \in Nat /\ c < Cardinality(External)
    BY <1>2, <2>1, PlacesInOrder
  <2> QED
    BY <1>2, <1>3, <1>4, <2>1, <2>2
<1>6. ASSUME NEW m \in External, NEW n \in External, SlotOf(m) = SlotOf(n) PROVE m = n
  <2>1. PICK c, d : /\ c = Cardinality(BeforeIn(R, External, m))
                    /\ d = Cardinality(BeforeIn(R, External, n))
    OBVIOUS
  <2>2. c \in Nat /\ d \in Nat /\ (m # n => c # d)
    BY <1>2, <2>1, PlacesInOrder
  <2>3. Len(prog) + 1 + c = Len(prog) + 1 + d
    BY <1>4, <1>6, <2>1
  <2> QED
    BY <1>3, <2>2, <2>3
<1>7. \A m : Named(m) # {} => SlotOf(m) = LastNamed(m) /\ SlotOf(m) \in Named(m)
  BY LastNamedFacts DEF SlotOf
<1>8. \A i \in Callers : \A m \in CallsOf(i) : Named(m) # {} \/ m \in External
  BY ExternalFacts
<1>9. SlotCount \in Nat /\ Len(prog) <= SlotCount
  BY <1>2, <1>3
<1> QED
  BY <1>3, <1>5, <1>6, <1>7, <1>8, <1>9

LEMMA NodeFacts ==
  ASSUME prog \in Programs, Extracted
  PROVE  /\ Len(names) \in Nat /\ Nodes = 1 .. Len(names) /\ IsFiniteSet(Nodes)
         /\ Cardinality(Nodes) = Len(names)
         /\ Internal \subseteq Nodes
         /\ \A i \in Internal : names[i] = prog[i].name
         /\ \A m : Named(m) # {} \/ m \in External => SlotOf(m) \in Nodes /\ names[SlotOf(m)] = m
<1>1. /\ SlotCount \in Nat /\ Len(prog) \in Nat /\ Len(prog) <= SlotCount
      /\ \A m \in External : SlotOf(m) \in Len(prog) + 1 .. SlotCount
  BY SlotFacts
<1>2. names = NamesMade
  BY DEF Extracted
<1>3. Len(names) = SlotCount
  BY <1>1, <1>2 DEF NamesMade
<1>4. /\ Nodes = 1 .. Len(names) /\ IsFiniteSet(Nodes) /\ Cardinality(Nodes) = Len(names)
  BY <1>1, <1>3, CountedTo DEF Nodes
<1>5. Internal \subseteq Nodes
  BY <1>1, <1>3 DEF Internal, Nodes
<1>6. \A i \in Internal : names[i] = prog[i].name
  BY <1>2, <1>3, <1>5 DEF NamesMade, Nodes
<1>7. ASSUME NEW m \in External PROVE SlotOf(m) \in Nodes /\ names[SlotOf(m)] = m
  <2>1. PICK s : s = SlotOf(m)
    OBVIOUS
  <2>2. s \in 1 .. SlotCount /\ s \notin Internal
    BY <1>1, <2>1 DEF Internal
  <2>3. names[s] = CHOOSE n \in External : SlotOf(n) = s
    BY <1>2, <2>2 DEF NamesMade
  <2>4. \E n \in External : SlotOf(n) = s
    BY <2>1
  <2>5. names[s] \in External /\ SlotOf(names[s]) = s
    BY <2>3, <2>4, Zenon
  <2>6. names[s] = m
    BY <2>1, <2>5, SlotFacts
  <2> QED
    BY <1>3, <2>1, <2>2, <2>6 DEF Nodes
<1>8. ASSUME NEW m, Named(m) # {} PROVE SlotOf(m) \in Nodes /\ names[SlotOf(m)] = m
  <2>1. SlotOf(m) \in Named(m)
    BY <1>8, SlotFacts
  <2> QED
    BY <1>5, <1>6, <2>1 DEF Named
<1> QED
  BY <1>1, <1>3, <1>4, <1>5, <1>6, <1>7, <1>8

\* The edge of the calls of m in function i.
EdgeOf(i, m) == [from |-> i, to |-> SlotOf(m), sites |-> Sites(i, m)]

LEMMA EdgeFacts ==
  ASSUME prog \in Programs, Extracted
  PROVE  /\ \A e : e \in edges <=> \E i \in Callers : \E m \in CallsOf(i) : e = EdgeOf(i, m)
         /\ \A i \in Callers : \A m \in CallsOf(i) :
                EdgeOf(i, m).to \in Nodes /\ names[EdgeOf(i, m).to] = m
         /\ \A e \in edges : e.from \in Nodes /\ e.to \in Nodes
<1>1. \A e : e \in edges <=> \E i \in Callers : \E m \in CallsOf(i) : e = EdgeOf(i, m)
  BY DEF Extracted, EdgesMade, EdgeOf
<1>2. \A i \in Callers : \A m \in CallsOf(i) :
            EdgeOf(i, m).to \in Nodes /\ names[EdgeOf(i, m).to] = m
  BY SlotFacts, NodeFacts DEF EdgeOf
<1>3. \A i \in Callers : \A m \in CallsOf(i) : EdgeOf(i, m).from \in Nodes
  BY CallersFacts, NodeFacts DEF EdgeOf
<1> QED
  BY <1>1, <1>2, <1>3

-----------------------------------------------------------------------------
(* The edges count the calls.                                              *)

Stages == {"extract", "degrees", "kahn", "levels", "ranks", "place", "done"}

Kept ==
    /\ prog \in Programs /\ stage \in Stages
    /\ stage # "extract" => Extracted

\* Whatever the user does, the layout stays.
LEMMA UserKeepsLayout == [Next]_vars => LayoutNext \/ UNCHANGED layoutVars
BY DEF Next, vars, Replace, Motion, Click, DragBegin, DragUpdate, DragEnd, Scroll

LEMMA ExtractedNext ==
  ASSUME UNCHANGED prog, names' = NamesMade, edges' = EdgesMade
  PROVE  Extracted'
<1>1. NamesMade' = NamesMade
  BY DEF NamesMade, SlotCount, External, Callers, LastNamed, Named, Internal, SlotOf, ComesBefore,
         CallsOf
<1>2. EdgesMade' = EdgesMade
  BY DEF EdgesMade, Callers, LastNamed, Named, Internal, SlotOf, ComesBefore, CallsOf, Sites,
         External
<1> QED
  BY <1>1, <1>2 DEF Extracted

LEMMA KeptInit == Init => Kept
BY DEF Init, LayoutInit, Kept, Stages

LEMMA KeptStep == Kept /\ [Next]_vars => Kept' /\ prog' = prog
<1> SUFFICES ASSUME Kept, [Next]_vars PROVE Kept' /\ prog' = prog
  OBVIOUS
<1>1. CASE Extract
  <2>1. prog' = prog /\ names' = NamesMade /\ edges' = EdgesMade /\ stage' = "degrees"
    BY <1>1 DEF Extract, NamesMade, SlotCount, EdgesMade
  <2> QED
    BY <2>1, ExtractedNext DEF Kept, Stages
<1>2. CASE /\ UNCHANGED <<prog, names, edges>> /\ stage' \in Stages
           /\ stage' # "extract" => stage # "extract"
  <2>1. stage' # "extract" => Extracted'
    BY <1>2, ExtractedNext DEF Kept, Extracted
  <2> QED
    BY <1>2, <2>1 DEF Kept
<1>3. CASE LayoutNext /\ ~Extract
  BY <1>2, <1>3 DEF LayoutNext, CountDegrees, PopFront, AppendRest, AssignLevel, GroupLayers,
     RankLayer, RanksDone, PlaceLayer, LayoutDone, Kept, Stages
<1>4. CASE UNCHANGED layoutVars
  BY <1>2, <1>4 DEF layoutVars, Kept
<1> QED
  BY <1>1, <1>3, <1>4, UserKeepsLayout

LEMMA SitesOfOne ==
  ASSUME prog \in Programs, NEW i \in Internal, Named(prog[i].name) = {i}, NEW m
  PROVE  Sites(i, m) = Cardinality({k \in 1 .. Len(prog[i].calls) : prog[i].calls[k] = m})
<1>1. PICK K : K = {k \in 1 .. Len(prog[i].calls) : prog[i].calls[k] = m}
  OBVIOUS
<1>2. Sites(i, m) = Cardinality({<<i, k>> : k \in K})
  <2>1. PICK U : U = UNION {{<<j, k>> : k \in {x \in 1 .. Len(prog[j].calls) :
                                                prog[j].calls[x] = m}} :
                                j \in {i}}
    OBVIOUS
  <2>2. U = {<<i, k>> : k \in K}
    BY <1>1, <2>1
  <2> QED
    BY <2>1, <2>2 DEF Sites
<1>3. IsFiniteSet(K)
  <2>1. IsFiniteSet(1 .. Len(prog[i].calls)) /\ K \in SUBSET (1 .. Len(prog[i].calls))
    BY <1>1, ProgFacts, CountedTo
  <2> QED
    BY <2>1, FS_Subset
<1>4. PICK T : T = {<<i, k>> : k \in K}
  OBVIOUS
<1>5. PICK f : f = [k \in K |-> <<i, k>>]
  OBVIOUS
<1>6. f \in Surjection(K, T) /\ f \in Injection(K, T)
  BY <1>4, <1>5 DEF Surjection, Injection, IsInjective
<1>7. Cardinality(T) = Cardinality(K)
  BY <1>3, <1>6, FS_Surjection
<1> QED
  BY <1>1, <1>2, <1>4, <1>7

(***************************************************************************)
(* extract_call_graph and layout count right in every program: a function  *)
(* whose name no other function has gets one edge for each name it calls,  *)
(* to the node of that name, with the number of its calls.                 *)
(***************************************************************************)
THEOREM EdgesCountCalls == Spec => []SitesAreCalls
<1>1. Kept => SitesAreCalls
  <2> SUFFICES ASSUME prog \in Programs, Extracted, NEW i \in Internal,
                      \A j \in Internal : prog[j].name = prog[i].name => j = i
               PROVE  /\ \A e \in edges : e.from = i => e.sites = Occurrences(i, names[e.to])
                      /\ \A m \in CallsOf(i) :
                            Cardinality({e \in edges : e.from = i /\ names[e.to] = m}) = 1
    BY DEF Kept, SitesAreCalls
  <2>1. Named(prog[i].name) = {i}
    BY DEF Named
  <2>2. i \in Callers
    <3>1. LastNamed(prog[i].name) = i
      BY <2>1, LastNamedFacts
    <3> QED
      BY <3>1 DEF Callers
  <2>3. \A m : Sites(i, m) = Occurrences(i, m)
    BY <2>1, SitesOfOne DEF Occurrences
  <2>4. ASSUME NEW e \in edges, e.from = i
        PROVE  \E m \in CallsOf(i) : e = EdgeOf(i, m)
    <3>1. PICK j \in Callers : \E m \in CallsOf(j) : e = EdgeOf(j, m)
      BY EdgeFacts
    <3>2. j = i
      BY <2>4, <3>1 DEF EdgeOf
    <3> QED
      BY <3>1, <3>2
  <2>5. \A m \in CallsOf(i) : /\ EdgeOf(i, m) \in edges /\ names[EdgeOf(i, m).to] = m
                              /\ EdgeOf(i, m).from = i /\ EdgeOf(i, m).sites = Sites(i, m)
    BY <2>2, EdgeFacts DEF EdgeOf
  <2>6. ASSUME NEW e \in edges, e.from = i PROVE e.sites = Occurrences(i, names[e.to])
    BY <2>3, <2>4, <2>5, <2>6
  <2>7. ASSUME NEW m \in CallsOf(i)
        PROVE  Cardinality({e \in edges : e.from = i /\ names[e.to] = m}) = 1
    <3>1. \A e \in edges : e.from = i /\ names[e.to] = m => e = EdgeOf(i, m)
      BY <2>4, <2>5
    <3>2. {e \in edges : e.from = i /\ names[e.to] = m} = {EdgeOf(i, m)}
      BY <2>5, <3>1
    <3> QED
      BY <3>2, FS_Singleton
  <2> QED
    BY <2>6, <2>7
<1> QED
  BY <1>1, KeptInit, KeptStep, PTL DEF Spec

-----------------------------------------------------------------------------
(* The boxes.                                                              *)

\* The greatest of the values of a function and one more.
LEMMA GreatestValue ==
  ASSUME NEW S, IsFiniteSet(S), NEW f \in [S -> Int], NEW x \in Int, NEW T,
         T = {x} \cup {f[s] : s \in S}
  PROVE  Greatest(T) \in Int /\ x <= Greatest(T) /\ \A s \in S : f[s] <= Greatest(T)
<1>1. PICK V : V = {f[s] : s \in S}
  OBVIOUS
<1>2. IsFiniteSet(V)
  <2>1. f \in [S -> V]
    BY <1>1
  <2> QED
    BY <1>1, <2>1, ImageIsFinite
<1>3. IsFiniteSet(V \cup {x})
  BY <1>2, FS_AddElement
<1>4. T = V \cup {x} /\ T \subseteq Int /\ T # {}
  BY <1>1
<1>5. Greatest(T) \in T /\ \A n \in T : n <= Greatest(T)
  BY <1>3, <1>4, GreatestFacts
<1> QED
  BY <1>1, <1>4, <1>5

Leveled == prog \in Programs /\ Extracted /\ level \in [Nodes -> Nat]

LEMMA RowFacts ==
  ASSUME Leveled
  PROVE  /\ MaxLevel \in Nat /\ \A v \in Nodes : level[v] <= MaxLevel
         /\ \A v \in Nodes : Height(v) \in Int
         /\ \A l : /\ Tallest(l) \in Nat
                   /\ \A v \in Row(l) : Height(v) <= Tallest(l)
<1>1. IsFiniteSet(Nodes)
  BY NodeFacts DEF Leveled
<1>2. MaxLevel \in Nat /\ \A v \in Nodes : level[v] <= MaxLevel
  <2>1. level \in [Nodes -> Int] /\ 0 \in Int
    BY DEF Leveled
  <2>2. PICK T : T = {0} \cup {level[v] : v \in Nodes}
    OBVIOUS
  <2>3. Greatest(T) \in Int /\ 0 <= Greatest(T) /\ \A v \in Nodes : level[v] <= Greatest(T)
    BY <1>1, <2>1, <2>2, GreatestValue
  <2> QED
    BY <2>2, <2>3 DEF MaxLevel
<1>3. ASSUME NEW v \in Nodes PROVE Height(v) \in Int
  <2>1. NodeHMin \in Nat /\ NodeHMax \in Nat /\ StmtPerPx \in Nat \ {0}
    BY LayoutAssumption
  <2>2. v \in Internal => prog[v].stmts \in Nat
    BY ProgFacts DEF Leveled
  <2>3. v \in Internal => prog[v].stmts \div StmtPerPx \in Int
    BY <2>1, <2>2
  <2> QED
    BY <2>1, <2>3 DEF Height, Lesser
<1>4. ASSUME NEW l
      PROVE  Tallest(l) \in Nat /\ \A v \in Row(l) : Height(v) <= Tallest(l)
  <2>1. Row(l) \in SUBSET Nodes
    BY DEF Row
  <2>2. IsFiniteSet(Row(l))
    BY <1>1, <2>1, FS_Subset
  <2>3. PICK f : f = [v \in Row(l) |-> Height(v)]
    OBVIOUS
  <2>4. f \in [Row(l) -> Int] /\ NodeHMin \in Nat /\ NodeHMin \in Int
    BY <1>3, <2>1, <2>3, LayoutAssumption
  <2>5. PICK T : T = {NodeHMin} \cup {f[v] : v \in Row(l)}
    OBVIOUS
  <2>6. Greatest(T) \in Int /\ NodeHMin <= Greatest(T) /\ \A v \in Row(l) : f[v] <= Greatest(T)
    BY <2>2, <2>4, <2>5, GreatestValue
  <2>7. Tallest(l) = Greatest(T)
    <3>1. T = {NodeHMin} \cup {Height(v) : v \in Row(l)}
      BY <2>3, <2>5
    <3> QED
      BY <3>1 DEF Tallest
  <2> QED
    BY <2>3, <2>4, <2>6, <2>7
<1> QED
  BY <1>2, <1>3, <1>4

\* A sum over a finite set, taken apart member by member, is a number.
SumOf(g, S) ==
    \A T \in SUBSET S :
        g[T] = IF T = {} THEN 0 ELSE LET u == CHOOSE x \in T : TRUE IN rank[u] + g[T \ {u}]

LEMMA SumsExist ==
  ASSUME NEW S, IsFiniteSet(S), \A u \in S : rank[u] \in Nat
  PROVE  \E g \in [SUBSET S -> Nat] : SumOf(g, S)
<1> DEFINE pick(T) == CHOOSE x \in T : TRUE
           Sums == {n \in Nat : \E g \in [SUBSET S -> Nat] :
                        \A T \in SUBSET S : Cardinality(T) <= n =>
                            g[T] = IF T = {} THEN 0 ELSE rank[pick(T)] + g[T \ {pick(T)}]}
<1>1. \A T \in SUBSET S : /\ IsFiniteSet(T) /\ Cardinality(T) \in Nat
                          /\ Cardinality(T) <= Cardinality(S)
                          /\ Cardinality(T) = 0 <=> T = {}
  BY FS_Subset, FS_CardinalityType, FS_EmptySet
<1>2. \A T \in SUBSET S : T # {} =>
        /\ pick(T) \in S /\ T \ {pick(T)} \in SUBSET S
        /\ Cardinality(T \ {pick(T)}) = Cardinality(T) - 1
  <2> TAKE T \in SUBSET S
  <2> HAVE T # {}
  <2>1. pick(T) \in T
    BY Zenon
  <2> QED
    BY <1>1, <2>1, FS_RemoveElement
<1> HIDE DEF pick
<1>3. 0 \in Sums
  <2>1. PICK g : g = [T \in SUBSET S |-> 0]
    OBVIOUS
  <2>2. g \in [SUBSET S -> Nat]
    BY <2>1
  <2>3. \A T \in SUBSET S : Cardinality(T) <= 0 => T = {} /\ g[T] = 0
    BY <1>1, <2>1
  <2> QED
    BY <2>2, <2>3
<1>4. \A n \in Nat : n \in Sums => n + 1 \in Sums
  <2> TAKE n \in Nat
  <2> HAVE n \in Sums
  <2>1. PICK g \in [SUBSET S -> Nat] :
            \A T \in SUBSET S : Cardinality(T) <= n =>
                g[T] = IF T = {} THEN 0 ELSE rank[pick(T)] + g[T \ {pick(T)}]
    OBVIOUS
  <2>2. PICK h : h = [T \in SUBSET S |->
                        IF T = {} THEN 0 ELSE rank[pick(T)] + g[T \ {pick(T)}]]
    OBVIOUS
  <2>3. h \in [SUBSET S -> Nat]
    <3>1. ASSUME NEW T \in SUBSET S, T # {} PROVE rank[pick(T)] + g[T \ {pick(T)}] \in Nat
      <4>1. rank[pick(T)] \in Nat /\ g[T \ {pick(T)}] \in Nat
        BY <1>2, <3>1
      <4> QED
        BY <4>1
    <3>2. \A T \in SUBSET S :
            (IF T = {} THEN 0 ELSE rank[pick(T)] + g[T \ {pick(T)}]) \in Nat
      BY <3>1
    <3> QED
      BY <2>2, <3>2
  <2>4. ASSUME NEW T \in SUBSET S, Cardinality(T) <= n PROVE h[T] = g[T]
    BY <2>1, <2>2, <2>4
  <2>5. ASSUME NEW T \in SUBSET S, Cardinality(T) <= n + 1
        PROVE  h[T] = IF T = {} THEN 0 ELSE rank[pick(T)] + h[T \ {pick(T)}]
    <3>1. CASE T = {}
      BY <2>2, <3>1
    <3>2. CASE T # {}
      <4>1. T \ {pick(T)} \in SUBSET S /\ Cardinality(T \ {pick(T)}) <= n
        BY <1>1, <1>2, <2>5, <3>2
      <4> QED
        BY <2>2, <2>4, <3>2, <4>1
    <3> QED
      BY <3>1, <3>2
  <2>6. n + 1 \in Nat
    OBVIOUS
  <2> QED
    BY <2>3, <2>5, <2>6
<1> HIDE DEF Sums
<1>5. Cardinality(S) \in Sums
  BY <1>3, <1>4, FS_CardinalityType, Counting!AllNumbers
<1> QED
  BY <1>1, <1>5 DEF Sums, SumOf, pick

LEMMA TotalIsNumber ==
  ASSUME NEW S, IsFiniteSet(S), \A u \in S : rank[u] \in Nat
  PROVE  Total(S) \in Nat
<1> DEFINE sum == CHOOSE sum : sum = [T \in SUBSET S |->
            IF T = {} THEN 0 ELSE LET u == CHOOSE x \in T : TRUE IN rank[u] + sum[T \ {u}]]
<1>1. PICK g \in [SUBSET S -> Nat] : SumOf(g, S)
  BY SumsExist
<1>2. g = [T \in SUBSET S |->
            IF T = {} THEN 0 ELSE LET u == CHOOSE x \in T : TRUE IN rank[u] + g[T \ {u}]]
  BY <1>1 DEF SumOf
<1>3. sum = [T \in SUBSET S |->
            IF T = {} THEN 0 ELSE LET u == CHOOSE x \in T : TRUE IN rank[u] + sum[T \ {u}]]
  BY <1>2, Zenon
<1>4. Total(S) = sum[S]
  BY DEF Total
<1> HIDE DEF sum
<1> DEFINE Good == {n \in Nat : \A T \in SUBSET S : Cardinality(T) = n => sum[T] \in Nat}
<1>5. \A T \in SUBSET S : /\ IsFiniteSet(T) /\ Cardinality(T) \in Nat
                          /\ Cardinality(T) = 0 <=> T = {}
  BY FS_Subset, FS_CardinalityType, FS_EmptySet
<1>6. \A T \in SUBSET S : sum[T] =
            IF T = {} THEN 0 ELSE LET u == CHOOSE x \in T : TRUE IN rank[u] + sum[T \ {u}]
  BY <1>3, Zenon
<1>7. 0 \in Good
  BY <1>5, <1>6
<1>8. \A n \in Nat : n \in Good => n + 1 \in Good
  <2> TAKE n \in Nat
  <2> HAVE n \in Good
  <2> SUFFICES ASSUME NEW T \in SUBSET S, Cardinality(T) = n + 1 PROVE sum[T] \in Nat
    OBVIOUS
  <2>1. T # {}
    BY <1>5
  <2>2. PICK u : u = CHOOSE x \in T : TRUE
    OBVIOUS
  <2>3. u \in T
    BY <2>1, <2>2, Zenon
  <2>4. IsFiniteSet(T) /\ T \ {u} \in SUBSET S /\ rank[u] \in Nat
    BY <1>5, <2>3
  <2>5. Cardinality(T \ {u}) = n
    <3>1. Cardinality(T \ {u}) = Cardinality(T) - 1
      BY <2>3, <2>4, FS_RemoveElement
    <3> QED
      BY <3>1
  <2>6. sum[T \ {u}] \in Nat
    BY <2>4, <2>5
  <2>7. sum[T] = rank[u] + sum[T \ {u}]
    BY <1>6, <2>1, <2>2
  <2> QED
    BY <2>4, <2>6, <2>7
<1> HIDE DEF Good
<1>9. Cardinality(S) \in Good
  BY <1>5, <1>7, <1>8, Counting!AllNumbers
<1> QED
  BY <1>4, <1>9 DEF Good

\* Nodes of one layer have different places.
ApartBelow(l) ==
    \A u, v \in Nodes : u # v /\ level[u] = level[v] /\ level[u] < l => place[u] # place[v]

BoxInv ==
    /\ Kept
    /\ stage \in {"levels", "ranks", "place", "done"} => level \in [Nodes -> Nat]
    /\ stage \in {"ranks", "place", "done"} =>
        rank \in [Nodes -> Nat] /\ place \in [Nodes -> Nat]
    /\ stage = "ranks" => layer \in Nat /\ ApartBelow(layer)
    /\ stage \in {"place", "done"} =>
        /\ \A u, v \in Nodes : u # v /\ level[u] = level[v] => place[u] # place[v]
        /\ layer \in Nat \ {0} /\ layerY \in Seq(Nat) /\ Len(layerY) = layer
        /\ \A l \in 1 .. layer - 1 : layerY[l + 1] = layerY[l] + Tallest(l - 1) + VGap
    /\ stage = "done" => layer > MaxLevel

LEMMA PredsFacts ==
  ASSUME prog \in Programs, Extracted, NEW v
  PROVE  /\ Preds(v) \in SUBSET Nodes /\ IsFiniteSet(Preds(v))
         /\ Succs(v) \in SUBSET Nodes /\ IsFiniteSet(Succs(v))
<1>1. Preds(v) \in SUBSET Nodes /\ Succs(v) \in SUBSET Nodes
  BY EdgeFacts DEF Preds, Succs
<1>2. IsFiniteSet(Nodes)
  BY NodeFacts
<1> QED
  BY <1>1, <1>2, FS_Subset

LEMMA BelowIsLevel ==
  ASSUME Leveled, NEW v
  PROVE  /\ Below(v) \in Nat
         /\ \A u \in Preds(v) : level[u] < Below(v)
<1>1. CASE Preds(v) = {}
  BY <1>1 DEF Below
<1>2. CASE Preds(v) # {}
  <2>1. PICK V : V = {level[u] : u \in Preds(v)}
    OBVIOUS
  <2>2. PICK f : f = [u \in Preds(v) |-> level[u]]
    OBVIOUS
  <2>3. Preds(v) \in SUBSET Nodes /\ IsFiniteSet(Preds(v))
    BY PredsFacts DEF Leveled
  <2>4. f \in [Preds(v) -> V] /\ \A t \in V : \E u \in Preds(v) : f[u] = t
    BY <2>1, <2>2
  <2>5. IsFiniteSet(V)
    BY <2>3, <2>4, ImageIsFinite
  <2>6. V \subseteq Nat /\ V \subseteq Int /\ V # {}
    BY <1>2, <2>1, <2>3 DEF Leveled
  <2>7. Greatest(V) \in V /\ \A n \in V : n <= Greatest(V)
    BY <2>5, <2>6, GreatestFacts
  <2>8. Below(v) = 1 + Greatest(V)
    BY <1>2, <2>1 DEF Below
  <2>9. PICK g : g = Greatest(V)
    OBVIOUS
  <2>10. g \in Nat /\ \A n \in V : n \in Nat /\ n < 1 + g
    <3>1. g \in V /\ \A n \in V : n <= g
      BY <2>7, <2>9, Zenon
    <3>2. \A m, n \in Nat : n <= m => n < 1 + m
      OBVIOUS
    <3> QED
      BY <2>6, <3>1, <3>2
  <2>11. \A u \in Preds(v) : level[u] \in V
    BY <2>1
  <2> QED
    BY <2>8, <2>9, <2>10, <2>11
<1> QED
  BY <1>1, <1>2

\* The means are numbers, so that they order a row.
LEMMA MeansOrderRows ==
  ASSUME Leveled, rank \in [Nodes -> Nat]
  PROVE  /\ \A v \in Nodes : Barycenter(v) \in Nat
         /\ \A l, at : (\A v \in Row(l) : at[v] \in Nat) =>
                Orders({p \in Row(l) \X Row(l) : SortsBefore(p[1], p[2], at)}, Row(l))
<1>1. ASSUME NEW v \in Nodes PROVE Barycenter(v) \in Nat
  <2>1. PICK above : above = {u \in Preds(v) : level[u] < level[v]}
    OBVIOUS
  <2>2. above \in SUBSET Preds(v) /\ above \subseteq Nodes /\ IsFiniteSet(above)
    <3>1. above \in SUBSET Preds(v) /\ Preds(v) \in SUBSET Nodes /\ IsFiniteSet(Preds(v))
      BY <2>1, PredsFacts DEF Leveled
    <3> QED
      BY <3>1, FS_Subset
  <2>3. CASE level[v] = 0 \/ above = {}
    BY <2>1, <2>3 DEF Barycenter
  <2>4. CASE level[v] # 0 /\ above # {}
    <3>1. Barycenter(v) = Total(above) \div Cardinality(above)
      BY <2>1, <2>4 DEF Barycenter
    <3>2. Total(above) \in Nat
      BY <2>2, TotalIsNumber
    <3>3. Cardinality(above) \in Nat /\ Cardinality(above) # 0
      BY <2>2, <2>4, FS_CardinalityType, FS_EmptySet
    <3> QED
      BY <3>1, <3>2, <3>3
  <2> QED
    BY <2>3, <2>4
<1>2. ASSUME NEW l, NEW at, \A v \in Row(l) : at[v] \in Nat
      PROVE  Orders({p \in Row(l) \X Row(l) : SortsBefore(p[1], p[2], at)}, Row(l))
  <2>1. PICK R : R = {p \in Row(l) \X Row(l) : SortsBefore(p[1], p[2], at)}
    OBVIOUS
  <2>2. \A u, v \in Row(l) : <<u, v>> \in R <=> at[u] < at[v] \/ (at[u] = at[v] /\ u < v)
    BY <2>1 DEF SortsBefore
  <2>3. \A v \in Row(l) : v \in Nat
    BY NodeFacts DEF Row, Leveled
  <2>4. \A u \in Row(l) : <<u, u>> \notin R
    BY <1>2, <2>2, <2>3
  <2>5. \A u, v, w \in Row(l) : <<u, v>> \in R /\ <<v, w>> \in R => <<u, w>> \in R
    BY <1>2, <2>2, <2>3
  <2>6. \A u, v \in Row(l) : u # v => <<u, v>> \in R \/ <<v, u>> \in R
    BY <1>2, <2>2, <2>3
  <2> QED
    BY <2>1, <2>4, <2>5, <2>6 DEF Orders
<1> QED
  BY <1>1, <1>2

\* What RankLayer does to the places.
LEMMA RankLayerPlaces ==
  ASSUME Leveled, rank \in [Nodes -> Nat], place \in [Nodes -> Nat], layer \in Nat,
         ApartBelow(layer), RankLayer
  PROVE  /\ rank' \in [Nodes -> Nat] /\ place' \in [Nodes -> Nat]
         /\ \A u, v \in Nodes : u # v /\ level[u] = level[v] /\ level[u] < layer + 1 =>
                place'[u] # place'[v]
<1>1. PICK row, at : row = Row(layer) /\ at = [v \in row |-> Barycenter(v)]
  OBVIOUS
<1>2. row \in SUBSET Nodes /\ IsFiniteSet(row) /\ \A v \in Nodes : v \in row <=> level[v] = layer
  <2>1. /\ row \in SUBSET Nodes /\ IsFiniteSet(Nodes)
        /\ \A v \in Nodes : v \in row <=> level[v] = layer
    BY <1>1, NodeFacts DEF Row, Leveled
  <2> QED
    BY <2>1, FS_Subset
<1>3. \A v \in row : at[v] \in Nat
  BY <1>1, <1>2, MeansOrderRows
<1>4. PICK R : R = {p \in row \X row : SortsBefore(p[1], p[2], at)}
  OBVIOUS
<1>5. Orders(R, row)
  BY <1>1, <1>3, <1>4, MeansOrderRows
<1>6. PICK pos : pos = [v \in row |-> Cardinality({u \in row : SortsBefore(u, v, at)})]
  OBVIOUS
<1>7. \A v \in row : pos[v] = Cardinality(BeforeIn(R, row, v))
  <2> TAKE v \in row
  <2>1. {u \in row : SortsBefore(u, v, at)} = BeforeIn(R, row, v)
    BY <1>4 DEF BeforeIn
  <2> QED
    BY <1>6, <2>1
<1>8. (\A v \in row : pos[v] \in Nat) /\ \A u, v \in row : u # v => pos[u] # pos[v]
  BY <1>2, <1>5, <1>7, PlacesInOrder
<1>9. /\ place' = [v \in Nodes |-> IF v \in row THEN pos[v] ELSE place[v]]
      /\ rank' = [v \in Nodes |-> IF v \in row /\ layer > 0 THEN pos[v] * Unit ELSE rank[v]]
  BY <1>1, <1>6, Zenon DEF RankLayer
<1>10. place' \in [Nodes -> Nat]
  BY <1>8, <1>9
<1>11. rank' \in [Nodes -> Nat]
  <2>1. \A n \in Nat : n * Unit \in Nat
    BY LayoutAssumption
  <2>2. \A v \in row : pos[v] * Unit \in Nat
    BY <1>8, <2>1
  <2> QED
    BY <1>9, <2>2
<1>12. ASSUME NEW u \in Nodes, NEW v \in Nodes, u # v, level[u] = level[v], level[u] < layer + 1
       PROVE  place'[u] # place'[v]
  <2>1. CASE level[u] = layer
    BY <1>2, <1>8, <1>9, <1>12, <2>1
  <2>2. CASE level[u] # layer
    <3>1. level[u] < layer
      BY <1>12, <2>2 DEF Leveled
    <3> QED
      BY <1>2, <1>9, <1>12, <2>2, <3>1 DEF ApartBelow
  <2> QED
    BY <2>1, <2>2
<1> QED
  BY <1>10, <1>11, <1>12

LEMMA NodesStay ==
  ASSUME UNCHANGED names
  PROVE  Nodes' = Nodes
BY DEF Nodes

\* A step that makes a level, or changes none.
LEMMA BoxLevels ==
  ASSUME BoxInv, LayoutNext, stage' \in {"levels", "ranks", "place", "done"}
  PROVE  level' \in [Nodes -> Nat] /\ Nodes' = Nodes
<1>1. UNCHANGED <<prog, names, edges>> /\ Nodes' = Nodes
  BY NodesStay DEF LayoutNext, Extract, CountDegrees, PopFront, AppendRest, AssignLevel,
     GroupLayers, RankLayer, RanksDone, PlaceLayer, LayoutDone
<1>2. CASE AppendRest
  <2>1. level' = [v \in Nodes |-> 0]
    BY <1>2, Zenon DEF AppendRest
  <2> QED
    BY <1>1, <2>1
<1>3. CASE AssignLevel
  <2>1. Leveled /\ level' = [level EXCEPT ![topo[layer]] = Below(topo[layer])]
    BY <1>3 DEF AssignLevel, BoxInv, Kept, Leveled
  <2>2. Below(topo[layer]) \in Nat
    BY <2>1, BelowIsLevel
  <2> QED
    BY <1>1, <2>1, <2>2 DEF Leveled
<1>4. CASE GroupLayers
  <2>1. Leveled
    BY <1>4 DEF GroupLayers, BoxInv, Kept, Leveled
  <2>2. PICK S, T : S = {u \in Nodes : ~Isolated(u)} /\ T = {0} \cup {level[v] : v \in S}
    OBVIOUS
  <2>3. S \in SUBSET Nodes /\ IsFiniteSet(Nodes)
    BY <2>1, <2>2, NodeFacts DEF Leveled
  <2>4. IsFiniteSet(S)
    BY <2>3, FS_Subset
  <2>5. PICK f : f = [v \in S |-> level[v]]
    OBVIOUS
  <2>6. f \in [S -> Int] /\ T = {0} \cup {f[v] : v \in S} /\ 0 \in Int
    BY <2>1, <2>2, <2>3, <2>5 DEF Leveled
  <2>7. Greatest(T) \in Int /\ 0 <= Greatest(T)
    BY <2>4, <2>6, GreatestValue
  <2>8. Greatest(T) + 1 \in Nat
    BY <2>7
  <2>9. level' = [v \in Nodes |-> IF Isolated(v) THEN Greatest(T) + 1 ELSE level[v]]
    BY <1>4, <2>2 DEF GroupLayers
  <2> QED
    BY <1>1, <2>1, <2>8, <2>9 DEF Leveled
<1>5. CASE RankLayer \/ RanksDone \/ PlaceLayer \/ LayoutDone
  BY <1>1, <1>5 DEF RankLayer, RanksDone, PlaceLayer, LayoutDone, BoxInv
<1>6. CASE Extract \/ CountDegrees \/ PopFront
  BY <1>6 DEF Extract, CountDegrees, PopFront, BoxInv
<1> QED
  BY <1>1, <1>2, <1>3, <1>4, <1>5, <1>6 DEF LayoutNext

LEMMA RowsStay ==
  ASSUME UNCHANGED <<prog, names, level>>
  PROVE  MaxLevel' = MaxLevel /\ \A l : Tallest(l)' = Tallest(l)
<1>1. MaxLevel' = MaxLevel
  BY DEF MaxLevel, Nodes
<1>2. \A l : Tallest(l)' = Tallest(l)
  BY DEF Tallest, Row, Nodes, Height, Internal
<1> QED
  BY <1>1, <1>2

LEMMA BoxInit == Init => BoxInv
BY KeptInit DEF Init, LayoutInit, BoxInv

LEMMA BoxStep == BoxInv /\ [Next]_vars => BoxInv'
<1> SUFFICES ASSUME BoxInv, [Next]_vars PROVE BoxInv'
  OBVIOUS
<1>1. Kept /\ Kept'
  BY KeptStep DEF BoxInv
<1>2. CASE LayoutNext
  <2>1. stage' \in {"levels", "ranks", "place", "done"} =>
            (level \in [Nodes -> Nat])'
    BY <1>2, BoxLevels
  <2>2. CASE Extract \/ CountDegrees \/ PopFront \/ AppendRest \/ AssignLevel
    <3>1. stage' \in {"degrees", "kahn", "levels"}
      BY <2>2 DEF Extract, CountDegrees, PopFront, AppendRest, AssignLevel
    <3> QED
      BY <1>1, <2>1, <3>1 DEF BoxInv
  <2>3. CASE GroupLayers
    <3>1. /\ stage = "levels" /\ stage' = "ranks" /\ UNCHANGED <<prog, names, edges>>
          /\ rank' = [v \in Nodes |-> (v - 1) * Unit] /\ place' = [v \in Nodes |-> 0] /\ layer' = 0
      BY <2>3 DEF GroupLayers
    <3>2. prog \in Programs /\ Extracted /\ Nodes' = Nodes
      BY <1>1, <3>1, NodesStay DEF Kept
    <3>3. \A v \in Nodes : v - 1 \in Nat /\ (v - 1) * Unit \in Nat
      BY <3>2, NodeFacts, LayoutAssumption
    <3>4. (rank \in [Nodes -> Nat] /\ place \in [Nodes -> Nat])'
      BY <3>1, <3>2, <3>3
    <3>5. (layer \in Nat /\ ApartBelow(layer))'
      <4>1. level' \in [Nodes -> Nat]
        BY <2>1, <3>1, <3>2
      <4>2. \A v \in Nodes : ~(level'[v] < 0)
        BY <4>1
      <4> QED
        BY <3>1, <3>2, <4>2 DEF ApartBelow
    <3> QED
      BY <1>1, <2>1, <3>1, <3>4, <3>5 DEF BoxInv
  <2>4. CASE RankLayer
    <3>1. /\ stage = "ranks" /\ stage' = "ranks" /\ layer' = layer + 1
          /\ UNCHANGED <<prog, names, edges, level>>
      BY <2>4 DEF RankLayer
    <3>2. Leveled /\ Nodes' = Nodes
      BY <1>1, <3>1, NodesStay DEF BoxInv, Kept, Leveled
    <3>3. /\ rank' \in [Nodes -> Nat] /\ place' \in [Nodes -> Nat]
          /\ \A u, v \in Nodes : u # v /\ level[u] = level[v] /\ level[u] < layer + 1 =>
                place'[u] # place'[v]
      BY <2>4, <3>1, <3>2, RankLayerPlaces DEF BoxInv
    <3>4. layer' \in Nat
      BY <3>1 DEF BoxInv
    <3>5. ApartBelow(layer)'
      BY <3>1, <3>2, <3>3 DEF ApartBelow
    <3> QED
      BY <1>1, <2>1, <3>1, <3>2, <3>3, <3>4, <3>5 DEF BoxInv
  <2>5. CASE RanksDone
    <3>1. /\ stage = "ranks" /\ stage' = "place" /\ layer > MaxLevel
          /\ layer' = 1 /\ layerY' = <<Pad>>
          /\ UNCHANGED <<prog, names, edges, level, rank, place>>
      BY <2>5 DEF RanksDone
    <3>2. Leveled /\ Nodes' = Nodes
      BY <1>1, <3>1, NodesStay DEF BoxInv, Kept, Leveled
    <3>3. \A v \in Nodes : level[v] < layer
      <4>1. MaxLevel \in Nat /\ \A v \in Nodes : level[v] <= MaxLevel /\ level[v] \in Nat
        BY <3>2, RowFacts DEF Leveled
      <4>2. layer \in Nat
        BY <3>1 DEF BoxInv
      <4> QED
        BY <3>1, <4>1, <4>2
    <3>4. (\A u, v \in Nodes : u # v /\ level[u] = level[v] => place[u] # place[v])'
      BY <3>1, <3>2, <3>3 DEF BoxInv, ApartBelow
    <3>5. /\ layer' \in Nat \ {0} /\ layerY' \in Seq(Nat) /\ Len(layerY') = layer'
          /\ layer' - 1 = 0
      BY <3>1, LayoutAssumption
    <3>6. \A l : l \notin 1 .. 0
      OBVIOUS
    <3>7. (rank \in [Nodes -> Nat] /\ place \in [Nodes -> Nat])'
      BY <3>1, <3>2 DEF BoxInv
    <3> QED
      BY <1>1, <2>1, <3>1, <3>4, <3>5, <3>6, <3>7 DEF BoxInv
  <2>6. CASE PlaceLayer
    <3>1. /\ stage = "place" /\ stage' = "place" /\ layer <= MaxLevel /\ layer' = layer + 1
          /\ layerY' = Append(layerY, layerY[layer] + Tallest(layer - 1) + VGap)
          /\ UNCHANGED <<prog, names, edges, level, rank, place>>
      BY <2>6 DEF PlaceLayer
    <3>2. Leveled /\ Nodes' = Nodes /\ \A l : Tallest(l)' = Tallest(l)
      BY <1>1, <3>1, NodesStay, RowsStay DEF BoxInv, Kept, Leveled
    <3>3. layer \in Nat \ {0} /\ layerY \in Seq(Nat) /\ Len(layerY) = layer
      BY <3>1 DEF BoxInv
    <3>4. PICK y : y = layerY[layer] + Tallest(layer - 1) + VGap
      OBVIOUS
    <3>5. y \in Nat
      <4>1. layerY[layer] \in Nat
        BY <3>3
      <4>2. Tallest(layer - 1) \in Nat /\ VGap \in Nat
        BY <3>2, RowFacts, LayoutAssumption
      <4> QED
        BY <3>4, <4>1, <4>2
    <3>6. /\ layerY' \in Seq(Nat) /\ Len(layerY') = layer + 1
          /\ \A l \in 1 .. layer : layerY'[l] = layerY[l]
          /\ layerY'[layer + 1] = y
      BY <3>1, <3>3, <3>4, <3>5
    <3>7. \A l \in 1 .. layer' - 1 : layerY'[l + 1] = layerY'[l] + Tallest(l - 1) + VGap
      <4> TAKE l \in 1 .. layer' - 1
      <4>1. CASE l = layer
        BY <3>3, <3>4, <3>6, <4>1
      <4>2. CASE l # layer
        <5>1. l \in 1 .. layer - 1 /\ l \in 1 .. layer /\ l + 1 \in 1 .. layer
          BY <3>1, <3>3, <4>2
        <5>2. layerY[l + 1] = layerY[l] + Tallest(l - 1) + VGap
          BY <3>1, <5>1 DEF BoxInv
        <5> QED
          BY <3>6, <5>1, <5>2
      <4> QED
        BY <4>1, <4>2
    <3>8. (\A l \in 1 .. layer - 1 : layerY[l + 1] = layerY[l] + Tallest(l - 1) + VGap)'
      BY <3>2, <3>7
    <3>9. (/\ layer \in Nat \ {0} /\ layerY \in Seq(Nat) /\ Len(layerY) = layer
           /\ rank \in [Nodes -> Nat] /\ place \in [Nodes -> Nat]
           /\ \A u, v \in Nodes : u # v /\ level[u] = level[v] => place[u] # place[v])'
      BY <3>1, <3>2, <3>3, <3>6 DEF BoxInv
    <3> QED
      BY <1>1, <2>1, <3>1, <3>8, <3>9 DEF BoxInv
  <2>7. CASE LayoutDone
    <3>1. /\ stage = "place" /\ stage' = "done" /\ layer > MaxLevel
          /\ UNCHANGED <<prog, names, edges, level, rank, place, layer, layerY>>
      BY <2>7 DEF LayoutDone
    <3>2. Nodes' = Nodes /\ MaxLevel' = MaxLevel /\ \A l : Tallest(l)' = Tallest(l)
      BY <3>1, NodesStay, RowsStay
    <3>3. (\A l \in 1 .. layer - 1 : layerY[l + 1] = layerY[l] + Tallest(l - 1) + VGap)'
      BY <3>1, <3>2 DEF BoxInv
    <3> QED
      BY <1>1, <2>1, <3>1, <3>2, <3>3 DEF BoxInv
  <2> QED
    BY <1>2, <2>2, <2>3, <2>4, <2>5, <2>6, <2>7 DEF LayoutNext
<1>3. CASE UNCHANGED layoutVars
  <2>1. UNCHANGED <<prog, stage, names, edges, level, rank, place, layer, layerY>>
    BY <1>3 DEF layoutVars
  <2>2. Nodes' = Nodes /\ MaxLevel' = MaxLevel /\ \A l : Tallest(l)' = Tallest(l)
    BY <2>1, NodesStay, RowsStay
  <2>3. ApartBelow(layer)' <=> ApartBelow(layer)
    BY <2>1, <2>2 DEF ApartBelow
  <2>4. stage \in {"place", "done"} =>
            (\A l \in 1 .. layer - 1 : layerY[l + 1] = layerY[l] + Tallest(l - 1) + VGap)'
    BY <2>1, <2>2 DEF BoxInv
  <2> QED
    BY <1>1, <2>1, <2>2, <2>3, <2>4 DEF BoxInv
<1> QED
  BY <1>2, <1>3, UserKeepsLayout

\* The boxes of a layer end above every later layer.
LEMMA LayersGoDown ==
  ASSUME BoxInv, stage = "done", NEW u \in Nodes, NEW v \in Nodes, level[u] < level[v]
  PROVE  Y(u) + Height(u) < Y(v)
<1>1. /\ Leveled /\ layer \in Nat \ {0} /\ layerY \in Seq(Nat) /\ Len(layerY) = layer
      /\ \A l \in 1 .. layer - 1 : layerY[l + 1] = layerY[l] + Tallest(l - 1) + VGap
      /\ layer > MaxLevel /\ VGap \in Nat \ {0}
  BY LayoutAssumption DEF BoxInv, Kept, Leveled
<1>2. PICK l, m : l = level[u] /\ m = level[v]
  OBVIOUS
<1>3. /\ l \in Nat /\ m \in Nat /\ l < m /\ m <= MaxLevel /\ MaxLevel \in Nat /\ m < layer
      /\ \A k : Tallest(k) \in Nat
  <2>1. /\ MaxLevel \in Nat /\ (\A w \in Nodes : level[w] <= MaxLevel)
        /\ \A k : Tallest(k) \in Nat
    BY <1>1, RowFacts
  <2> QED
    BY <1>1, <1>2, <2>1 DEF Leveled
<1>4. ASSUME NEW k \in Nat, k + 1 < layer
      PROVE  /\ layerY[k + 2] = layerY[k + 1] + Tallest(k) + VGap
             /\ layerY[k + 1] \in Nat /\ layerY[k + 2] \in Nat
  <2>1. k + 1 \in 1 .. layer - 1 /\ (k + 1) + 1 = k + 2 /\ (k + 1) - 1 = k
        /\ k + 2 \in 1 .. layer /\ k + 1 \in 1 .. layer
    BY <1>1, <1>4
  <2> QED
    BY <1>1, <2>1
<1>5. PICK a : a = layerY[l + 1] + Tallest(l) + VGap
  OBVIOUS
<1> DEFINE Down == {d \in Nat : l + 1 + d < layer => a <= layerY[l + 2 + d]}
<1>6. a \in Nat
  <2>1. l + 1 < layer
    BY <1>1, <1>3
  <2> QED
    BY <1>1, <1>3, <1>4, <1>5, <2>1
<1>7. 0 \in Down
  BY <1>3, <1>4, <1>5, <1>6
<1>8. \A d \in Nat : d \in Down => d + 1 \in Down
  <2> TAKE d \in Nat
  <2> HAVE d \in Down
  <2> SUFFICES ASSUME l + 1 + (d + 1) < layer PROVE a <= layerY[l + 2 + (d + 1)]
    OBVIOUS
  <2>1. PICK k : k = l + 1 + d
    OBVIOUS
  <2>2. k \in Nat /\ k + 1 < layer /\ k < layer /\ k + 1 = l + 2 + d /\ k + 2 = l + 2 + (d + 1)
    BY <1>1, <1>3, <2>1
  <2>3. layerY[k + 2] = layerY[k + 1] + Tallest(k) + VGap /\ layerY[k + 1] \in Nat
    BY <1>4, <2>2
  <2>4. a <= layerY[k + 1]
    BY <2>1, <2>2
  <2>5. Tallest(k) \in Nat
    BY <1>3
  <2>6. a <= layerY[k + 2]
    BY <1>1, <1>6, <2>3, <2>4, <2>5
  <2> QED
    BY <2>2, <2>6
<1> HIDE DEF Down
<1>9. PICK d : d = m - l - 1
  OBVIOUS
<1>10. d \in Nat /\ l + 1 + d < layer /\ l + 2 + d = m + 1
  BY <1>1, <1>3, <1>9
<1>11. d \in Down
  BY <1>7, <1>8, <1>10, Counting!AllNumbers
<1>12. a <= layerY[m + 1] /\ layerY[m + 1] \in Nat /\ layerY[l + 1] \in Nat
  <2>1. PICK n \in Nat : n + 1 = m
    BY <1>1, <1>3
  <2>2. layerY[m + 1] \in Nat /\ layerY[l + 1] \in Nat
    <3>1. n + 1 < layer /\ l + 1 < layer /\ n + 2 = m + 1
      BY <1>1, <1>3, <2>1
    <3> QED
      BY <1>3, <1>4, <3>1
  <2>3. a <= layerY[l + 2 + d]
    BY <1>10, <1>11 DEF Down
  <2> QED
    BY <1>10, <2>2, <2>3
<1>13. Height(u) <= Tallest(l) /\ Height(u) \in Int
  <2>1. u \in Row(l)
    BY <1>2 DEF Row
  <2> QED
    BY <1>1, <2>1, RowFacts
<1>14. Y(u) = layerY[l + 1] /\ Y(v) = layerY[m + 1]
  BY <1>2 DEF Y
<1>15. Tallest(l) \in Nat
  BY <1>3
<1> QED
  BY <1>1, <1>5, <1>12, <1>13, <1>14, <1>15

LEMMA SidesApart ==
  ASSUME NEW p \in Nat, NEW q \in Nat, p < q
  PROVE  Pad + p * (NodeW + HGap) + NodeW < Pad + q * (NodeW + HGap)
<1>1. PICK w : w = NodeW + HGap
  OBVIOUS
<1>2. w \in Nat /\ NodeW \in Nat /\ NodeW < w /\ Pad \in Nat
  BY <1>1, LayoutAssumption
<1>3. PICK d : d = q - p - 1
  OBVIOUS
<1>4. d \in Nat /\ q = p + 1 + d
  BY <1>3
<1>5. q * w = p * w + w + d * w
  BY <1>2, <1>4
<1>6. p * w \in Nat /\ d * w \in Nat
  BY <1>2, <1>4
<1> QED
  BY <1>1, <1>2, <1>5, <1>6

(***************************************************************************)
(* In the layout of every program, however many functions share a layer    *)
(* and whatever their sizes, no two boxes touch: hit_test finds at most    *)
(* one node under the pointer.                                             *)
(***************************************************************************)
THEOREM BoxesAreApart == Spec => []NodesApart
<1>1. BoxInv => NodesApart
  <2> SUFFICES ASSUME BoxInv, stage = "done", NEW u \in Nodes, NEW v \in Nodes, u # v
               PROVE  \/ X(u) + NodeW < X(v) \/ X(v) + NodeW < X(u)
                      \/ Y(u) + Height(u) < Y(v) \/ Y(v) + Height(v) < Y(u)
    BY DEF NodesApart
  <2>1. /\ level[u] \in Nat /\ level[v] \in Nat /\ place[u] \in Nat /\ place[v] \in Nat
        /\ level[u] = level[v] => place[u] # place[v]
    BY DEF BoxInv
  <2>2. CASE level[u] < level[v]
    BY <2>2, LayersGoDown
  <2>3. CASE level[v] < level[u]
    BY <2>3, LayersGoDown
  <2>4. CASE place[u] < place[v]
    BY <2>1, <2>4, SidesApart DEF X
  <2>5. CASE place[v] < place[u]
    BY <2>1, <2>5, SidesApart DEF X
  <2> QED
    BY <2>1, <2>2, <2>3, <2>4, <2>5
<1> QED
  BY <1>1, BoxInit, BoxStep, PTL DEF Spec
-----------------------------------------------------------------------------
(* What a recursion leads to.                                              *)

\* C has the callees of its members.
ClosedUnder(C) == \A u \in C : Succs(u) \subseteq C

Further(C) == C \cup UNION {Succs(u) : u \in C}

LEMMA FurtherFacts ==
  ASSUME prog \in Programs, Extracted, NEW C, C \subseteq Nodes
  PROVE  /\ Further(C) \subseteq Nodes /\ C \subseteq Further(C)
         /\ \A D : C \subseteq D /\ ClosedUnder(D) => Further(C) \subseteq D
         /\ Further(C) = C => ClosedUnder(C)
<1>1. \A u : Succs(u) \subseteq Nodes
  BY PredsFacts
<1>2. \A t : t \in Further(C) <=> t \in C \/ \E u \in C : t \in Succs(u)
  <2>1. PICK U : U = UNION {Succs(u) : u \in C}
    OBVIOUS
  <2>2. \A t : t \in U <=> \E u \in C : t \in Succs(u)
    BY <2>1
  <2>3. Further(C) = C \cup U
    BY <2>1, Zenon DEF Further
  <2> QED
    BY <2>2, <2>3
<1>3. \A D : C \subseteq D /\ ClosedUnder(D) => Further(C) \subseteq D
  BY <1>2 DEF ClosedUnder
<1>4. Further(C) = C => ClosedUnder(C)
  BY <1>2 DEF ClosedUnder
<1> QED
  BY <1>1, <1>2, <1>3, <1>4

\* The recursion of From, unfolded.
LEMMA FromUnfolds ==
  ASSUME prog \in Programs, Extracted, NEW S, S \subseteq Nodes
  PROVE  \E f \in [Nat -> SUBSET Nodes] :
            /\ f[0] = S
            /\ \A k \in Nat : f[k + 1] = Further(f[k])
            /\ From(S) = f[Len(names)]
<1> DEFINE f == CHOOSE f : f = [k \in Nat |->
            IF k = 0 THEN S ELSE f[k - 1] \cup UNION {Succs(u) : u \in f[k - 1]}]
<1>1. From(S) = f[Len(names)]
  BY DEF From
<1> HIDE DEF f
<1>2. PICK V, step : V = SUBSET Nodes /\ step = [C \in SUBSET Nodes |-> Further(C)]
  OBVIOUS
<1>3. step \in [V -> V] /\ S \in V /\ \A C \in V : step[C] = Further(C)
  BY <1>2, FurtherFacts
<1>4. PICK h \in [Nat -> V] : h[0] = S /\ \A n \in Nat : h[n + 1] = step[h[n]]
  <2>1. S \in V
    BY <1>3
  <2>2. step \in [V -> V]
    BY <1>3
  <2>3. \A x \in V : \E h \in [Nat -> V] : h[0] = x /\ \A n \in Nat : h[n + 1] = step[h[n]]
    BY <2>2, Counting!IterationExists
  <2> QED
    BY <2>1, <2>3, Zenon
<1>5. \A k \in Nat : h[k + 1] = Further(h[k])
  BY <1>3, <1>4
<1>6. h = [k \in Nat |->
            IF k = 0 THEN S ELSE h[k - 1] \cup UNION {Succs(u) : u \in h[k - 1]}]
  <2>1. \A k \in Nat : k # 0 => h[k] = Further(h[k - 1])
    <3> TAKE k \in Nat
    <3> HAVE k # 0
    <3>1. k - 1 \in Nat /\ (k - 1) + 1 = k
      OBVIOUS
    <3> QED
      BY <1>5, <3>1
  <2>2. \A k \in Nat : k # 0 => h[k] = h[k - 1] \cup UNION {Succs(u) : u \in h[k - 1]}
    BY <2>1 DEF Further
  <2>3. h = [k \in Nat |-> h[k]] /\ h[0] = S
    BY <1>4
  <2> QED
    BY <2>2, <2>3
<1>7. f = [k \in Nat |->
            IF k = 0 THEN S ELSE f[k - 1] \cup UNION {Succs(u) : u \in f[k - 1]}]
  BY <1>6, Zenon DEF f
<1>8. f = [k \in Nat |-> IF k = 0 THEN S ELSE Further(f[k - 1])]
  BY <1>7 DEF Further
<1>9. f[0] = S /\ \A k \in Nat : f[k + 1] = Further(f[k])
  <2>1. f[0] = S
    BY <1>8
  <2>2. \A k \in Nat : k # 0 => f[k] = Further(f[k - 1])
    BY <1>8, Zenon
  <2>3. \A k \in Nat : k + 1 \in Nat /\ k + 1 # 0 /\ (k + 1) - 1 = k
    OBVIOUS
  <2>4. \A k \in Nat : f[k + 1] = Further(f[k])
    BY <2>2, <2>3
  <2> QED
    BY <2>1, <2>4
<1>10. \A k \in Nat : f[k] \subseteq Nodes
  <2> DEFINE T == {k \in Nat : f[k] \subseteq Nodes}
  <2>1. 0 \in T
    BY <1>9
  <2>2. \A k \in Nat : k \in T => k + 1 \in T
    BY <1>9, FurtherFacts
  <2> HIDE DEF T
  <2>3. \A k \in Nat : k \in T
    BY <2>1, <2>2, Counting!AllNumbers
  <2> QED
    BY <2>3 DEF T
<1>11. f \in [Nat -> SUBSET Nodes]
  <2>1. PICK d : d = [k \in Nat |-> IF k = 0 THEN S ELSE Further(f[k - 1])]
    OBVIOUS
  <2>2. f = d /\ d = [k \in Nat |-> d[k]]
    BY <1>8, <2>1
  <2> QED
    BY <1>10, <2>2
<1> QED
  BY <1>1, <1>9, <1>11

\* From(S) is the least set that has S and the callees of its members.
LEMMA FromIsLeast ==
  ASSUME prog \in Programs, Extracted, NEW S, S \subseteq Nodes
  PROVE  /\ From(S) \subseteq Nodes /\ S \subseteq From(S) /\ ClosedUnder(From(S))
         /\ \A C : S \subseteq C /\ ClosedUnder(C) => From(S) \subseteq C
<1>1. PICK f \in [Nat -> SUBSET Nodes] :
            /\ f[0] = S
            /\ \A k \in Nat : f[k + 1] = Further(f[k])
            /\ From(S) = f[Len(names)]
  BY FromUnfolds
<1>2. Len(names) \in Nat /\ IsFiniteSet(Nodes) /\ Cardinality(Nodes) = Len(names)
  BY NodeFacts
<1>3. \A k \in Nat : f[k] \subseteq Nodes /\ f[k] \subseteq f[k + 1]
  <2> TAKE k \in Nat
  <2>1. f[k] \subseteq Nodes
    BY <1>1
  <2>2. f[k] \subseteq Further(f[k])
    BY <2>1, FurtherFacts
  <2> QED
    BY <1>1, <2>1, <2>2
<1>4. \A k \in Nat : S \subseteq f[k]
  <2> DEFINE T == {k \in Nat : S \subseteq f[k]}
  <2>1. 0 \in T /\ \A k \in Nat : k \in T => k + 1 \in T
    BY <1>1, <1>3
  <2> HIDE DEF T
  <2>2. \A k \in Nat : k \in T
    BY <2>1, Counting!AllNumbers
  <2> QED
    BY <2>2 DEF T
<1>5. ASSUME NEW C, S \subseteq C, ClosedUnder(C)
      PROVE  \A k \in Nat : f[k] \subseteq C
  <2> DEFINE T == {k \in Nat : f[k] \subseteq C}
  <2>1. 0 \in T
    BY <1>1, <1>5
  <2>2. ASSUME NEW k \in Nat, k \in T PROVE k + 1 \in T
    <3>1. f[k] \subseteq Nodes /\ f[k] \subseteq C
      BY <1>3, <2>2
    <3>2. Further(f[k]) \subseteq C
      BY <1>5, <3>1, FurtherFacts
    <3>3. f[k + 1] \subseteq C
      BY <1>1, <3>2
    <3> QED
      BY <3>3
  <2> HIDE DEF T
  <2>3. \A k \in Nat : k \in T
    BY <2>1, <2>2, Counting!AllNumbers
  <2> QED
    BY <2>3 DEF T
<1>6. ASSUME NEW k \in Nat, f[k + 1] = f[k] PROVE f[(k + 1) + 1] = f[k + 1]
  <2>1. f[k + 1] = Further(f[k]) /\ f[(k + 1) + 1] = Further(f[k + 1])
    BY <1>1
  <2> QED
    BY <1>6, <2>1
<1>7. f[Len(names) + 1] = f[Len(names)]
  <2>1. PICK N : N = Nodes
    OBVIOUS
  <2>2. IsFiniteSet(N) /\ f \in [Nat -> SUBSET N] /\ Cardinality(N) = Len(names)
    BY <1>2, <2>1
  <2>3. \A k \in Nat : f[k] \subseteq f[k + 1]
    BY <1>3
  <2>4. \A k \in Nat : f[k + 1] = f[k] => f[(k + 1) + 1] = f[k + 1]
    BY <1>6
  <2>5. IsFiniteSet(N) /\ f \in [Nat -> SUBSET N]
    BY <2>2
  <2>6. Counting!IsFiniteSet(N)
    BY <2>5, CountsAgree
  <2>7. f[Counting!Cardinality(N) + 1] = f[Counting!Cardinality(N)]
    BY <2>3, <2>4, <2>5, <2>6, Counting!RoundsAreEnough
  <2> QED
    BY <2>2, <2>7, CountsAgree
<1>8. ClosedUnder(f[Len(names)])
  BY <1>1, <1>2, <1>3, <1>7, FurtherFacts
<1> QED
  BY <1>1, <1>2, <1>4, <1>5, <1>8

\* Nodes each of which has a caller among them are in or behind a recursion.
LEMMA CyclesRecur ==
  ASSUME prog \in Programs, Extracted, NEW U, U \subseteq Nodes,
         \A v \in U : \E u \in U : u \in Preds(v)
  PROVE  U \subseteq From(Recursive)
<1> DEFINE Behind(v) == From(Succs(v))
<1>1. \A u, v : u \in Preds(v) <=> v \in Succs(u)
  BY DEF Preds, Succs
<1>2. ASSUME NEW v
      PROVE  /\ Behind(v) \subseteq Nodes /\ Succs(v) \subseteq Behind(v)
             /\ ClosedUnder(Behind(v))
             /\ \A C : Succs(v) \subseteq C /\ ClosedUnder(C) => Behind(v) \subseteq C
  <2>1. Succs(v) \subseteq Nodes
    BY PredsFacts
  <2> QED
    BY <2>1, FromIsLeast
<1>3. /\ Recursive \subseteq From(Recursive) /\ ClosedUnder(From(Recursive))
      /\ \A v \in Nodes : v \in Behind(v) => v \in Recursive
  <2>1. Recursive \subseteq Nodes
    BY DEF Recursive
  <2> QED
    BY <2>1, FromIsLeast DEF Recursive
<1> HIDE DEF Behind
<1>4. SUFFICES ASSUME U \ From(Recursive) # {} PROVE FALSE
  OBVIOUS
<1>5. PICK W : W = U \ From(Recursive)
  OBVIOUS
<1>6. W \in SUBSET Nodes /\ IsFiniteSet(Nodes) /\ W # {}
  BY <1>4, <1>5, NodeFacts
<1>7. PICK size : size = [v \in W |-> Cardinality(Behind(v))]
  OBVIOUS
<1>8. PICK V : V = {size[v] : v \in W}
  OBVIOUS
<1>9. \A v \in W : IsFiniteSet(Behind(v)) /\ size[v] \in Nat
  BY <1>2, <1>6, <1>7, FS_Subset, FS_CardinalityType
<1>10. \E m \in V : \A n \in V : n <= m
  <2>1. IsFiniteSet(W) /\ V \subseteq Int /\ V # {}
    BY <1>6, <1>8, <1>9, FS_Subset
  <2>2. size \in [W -> V] /\ \A t \in V : \E v \in W : size[v] = t
    BY <1>7, <1>8
  <2>3. IsFiniteSet(V)
    BY <2>1, <2>2, ImageIsFinite
  <2> QED
    BY <2>1, <2>3, GreatestFacts
<1>11. PICK v \in W : \A w \in W : size[w] <= size[v]
  BY <1>8, <1>10
<1>12. PICK u \in U : u \in Preds(v)
  BY <1>5
<1>13. u \in W
  <2>1. u \in From(Recursive) => v \in From(Recursive)
    BY <1>1, <1>3, <1>12 DEF ClosedUnder
  <2> QED
    BY <1>5, <2>1
<1>14. v \in Behind(u) /\ Behind(v) \subseteq Behind(u)
  <2>1. v \in Behind(u) /\ ClosedUnder(Behind(u))
    BY <1>1, <1>2, <1>12
  <2>2. Succs(v) \subseteq Behind(u)
    BY <2>1 DEF ClosedUnder
  <2> QED
    BY <1>2, <2>1, <2>2
<1>15. Behind(v) = Behind(u)
  <2>1. IsFiniteSet(Behind(u)) /\ size[u] <= size[v] /\ size[u] \in Nat /\ size[v] \in Nat
    BY <1>9, <1>11, <1>13
  <2>2. Cardinality(Behind(v)) <= Cardinality(Behind(u))
    BY <1>14, <2>1, FS_Subset
  <2>3. size[u] = Cardinality(Behind(u)) /\ size[v] = Cardinality(Behind(v))
    BY <1>7, <1>13
  <2>4. Cardinality(Behind(v)) = Cardinality(Behind(u))
    BY <2>1, <2>2, <2>3
  <2> QED
    BY <1>14, <2>1, <2>4, FS_Subset
<1>16. v \in Recursive
  BY <1>3, <1>6, <1>14, <1>15
<1> QED
  BY <1>3, <1>5, <1>16

-----------------------------------------------------------------------------
(* Kahn's order.                                                           *)

Elements(s) == {s[i] : i \in 1 .. Len(s)}

Distinct(s) == \A i, j \in 1 .. Len(s) : i # j => s[i] # s[j]

\* The nodes all of whose callers are placed.
Ready == {v \in Nodes \ Placed : Preds(v) \subseteq Placed}

\* The callers of a placed node are placed before it.
CallersBefore ==
    \A j \in 1 .. Len(topo) : \A u \in Preds(topo[j]) :
        \E i \in 1 .. Len(topo) : i < j /\ topo[i] = u

KahnInv ==
    /\ stage \in {"extract", "degrees"} => topo = <<>>
    /\ stage = "kahn" =>
        /\ topo \in Seq(Nodes) /\ Distinct(topo) /\ CallersBefore
        /\ queue \in Seq(Nodes) /\ Distinct(queue) /\ Elements(queue) = Ready
        /\ \A v \in Nodes : inDeg[v] = Cardinality(Preds(v) \ Placed)

LEMMA AppendFacts ==
  ASSUME NEW S, NEW s \in Seq(S), NEW x \in S
  PROVE  /\ Append(s, x) \in Seq(S) /\ Elements(Append(s, x)) = Elements(s) \cup {x}
         /\ Distinct(s) /\ x \notin Elements(s) => Distinct(Append(s, x))
BY Counting!AppendFacts DEF Elements, Distinct, Counting!Elements, Counting!Distinct

LEMMA JoinFacts ==
  ASSUME NEW S, NEW s \in Seq(S), NEW q \in Seq(S)
  PROVE  /\ s \o q \in Seq(S) /\ Elements(s \o q) = Elements(s) \cup Elements(q)
         /\ Distinct(s) /\ Distinct(q) /\ Elements(s) \cap Elements(q) = {} => Distinct(s \o q)
<1>1. \A t : Counting!Elements(t) = Elements(t) /\ (Counting!Distinct(t) <=> Distinct(t))
  BY DEF Elements, Distinct, Counting!Elements, Counting!Distinct
<1>2. /\ s \o q \in Seq(S)
      /\ Counting!Elements(s \o q) = Counting!Elements(s) \cup Counting!Elements(q)
      /\ /\ Counting!Distinct(s) /\ Counting!Distinct(q)
         /\ Counting!Elements(s) \cap Counting!Elements(q) = {}
         => Counting!Distinct(s \o q)
  BY Counting!JoinFacts
<1> QED
  BY <1>1, <1>2

LEMMA HeadFacts ==
  ASSUME NEW S, NEW s \in Seq(S), s # <<>>
  PROVE  /\ Head(s) \in S /\ Tail(s) \in Seq(S)
         /\ Elements(s) = Elements(Tail(s)) \cup {Head(s)}
         /\ Distinct(s) => Distinct(Tail(s)) /\ Head(s) \notin Elements(Tail(s))
BY Counting!HeadFacts DEF Elements, Distinct, Counting!Elements, Counting!Distinct

\* A list of a set, as long as the set has members, has each of them once.
LEMMA ListFacts ==
  ASSUME NEW S, IsFiniteSet(S), NEW q \in [1 .. Cardinality(S) -> S], NEW key, Lists(q, S, key)
  PROVE  q \in Seq(S) /\ Elements(q) = S /\ Distinct(q)
<1>1. PICK n : n = Cardinality(S)
  OBVIOUS
<1>2. n \in Nat /\ q \in [1 .. n -> S]
  BY <1>1, FS_CardinalityType
<1>3. q \in Seq(S) /\ Len(q) = n
  BY <1>2
<1>4. Elements(q) = S
  BY DEF Lists, Elements
<1>5. q \in Surjection(1 .. n, S)
  BY <1>2, <1>3, <1>4 DEF Surjection, Elements
<1>6. IsFiniteSet(1 .. n) /\ Cardinality(1 .. n) = Cardinality(S)
  BY <1>1, <1>2, CountedTo
<1>7. q \in Injection(1 .. n, S)
  BY <1>5, <1>6, FS_SurjSameCardinalityImpliesInj
<1>8. Distinct(q)
  <2>1. \A a, b \in 1 .. n : q[a] = q[b] => a = b
    BY <1>7 DEF Injection, IsInjective
  <2> QED
    BY <1>3, <2>1, Zenon DEF Distinct
<1> QED
  BY <1>3, <1>4, <1>8

LEMMA CallsStay ==
  ASSUME UNCHANGED <<names, edges>>
  PROVE  /\ Nodes' = Nodes /\ (\A v : Preds(v)' = Preds(v) /\ Succs(v)' = Succs(v))
         /\ From(Recursive)' = From(Recursive)
BY DEF Nodes, Preds, Succs, From, Recursive

LEMMA KahnStarts ==
  ASSUME prog \in Programs, Extracted, KahnInv, CountDegrees
  PROVE  KahnInv'
<1>1. /\ stage = "degrees" /\ stage' = "kahn" /\ UNCHANGED <<names, edges, topo>>
      /\ inDeg' = [v \in Nodes |-> Cardinality(Preds(v))]
  BY DEF CountDegrees
<1>2. PICK roots : roots = {v \in Nodes : Preds(v) = {}}
  OBVIOUS
<1>3. PICK q \in [1 .. Cardinality(roots) -> roots] : Lists(q, roots, Index) /\ queue' = q
  BY <1>2 DEF CountDegrees
<1>4. roots \in SUBSET Nodes /\ IsFiniteSet(roots)
  BY <1>2, NodeFacts, FS_Subset
<1>5. queue' \in Seq(roots) /\ Elements(queue') = roots /\ Distinct(queue')
  BY <1>3, <1>4, ListFacts
<1>6. topo' = <<>>
  BY <1>1 DEF KahnInv
<1>7. Placed' = {}
  BY <1>6 DEF Placed
<1>8. Nodes' = Nodes /\ \A v : Preds(v)' = Preds(v)
  BY <1>1, CallsStay
<1>9. Ready' = roots
  BY <1>2, <1>7, <1>8 DEF Ready
<1>10. (topo \in Seq(Nodes) /\ Distinct(topo) /\ CallersBefore)'
  BY <1>6 DEF Distinct, CallersBefore
<1>11. queue' \in Seq(Nodes')
  BY <1>4, <1>5, <1>8
<1>12. \A v \in Nodes' : inDeg'[v] = Cardinality(Preds(v)' \ Placed')
  <2> TAKE v \in Nodes'
  <2>1. Preds(v)' \ Placed' = Preds(v)
    BY <1>7, <1>8
  <2> QED
    BY <1>1, <1>8, <2>1
<1> QED
  BY <1>1, <1>5, <1>9, <1>10, <1>11, <1>12 DEF KahnInv, Elements, Distinct

LEMMA KahnPops ==
  ASSUME prog \in Programs, Extracted, KahnInv, PopFront
  PROVE  KahnInv'
<1>1. PICK u, free : u = Head(queue) /\ free = {v \in Succs(u) : inDeg[v] = 1}
  OBVIOUS
<1>2. /\ stage = "kahn" /\ stage' = "kahn" /\ queue # <<>> /\ UNCHANGED <<names, edges>>
      /\ topo' = Append(topo, u)
      /\ inDeg' = [v \in Nodes |-> IF v \in Succs(u) THEN inDeg[v] - 1 ELSE inDeg[v]]
  BY <1>1 DEF PopFront
<1>3. PICK q \in [1 .. Cardinality(free) -> free] :
            Lists(q, free, names) /\ queue' = Tail(queue) \o q
  BY <1>1 DEF PopFront
<1>4. /\ topo \in Seq(Nodes) /\ Distinct(topo) /\ CallersBefore
      /\ queue \in Seq(Nodes) /\ Distinct(queue) /\ Elements(queue) = Ready
      /\ \A v \in Nodes : inDeg[v] = Cardinality(Preds(v) \ Placed)
  BY <1>2 DEF KahnInv
<1>5. /\ u \in Nodes /\ Tail(queue) \in Seq(Nodes) /\ Distinct(Tail(queue))
      /\ Ready = Elements(Tail(queue)) \cup {u} /\ u \notin Elements(Tail(queue))
  BY <1>1, <1>2, <1>4, HeadFacts
<1>6. u \notin Placed /\ Preds(u) \subseteq Placed
  BY <1>5 DEF Ready
<1>7. Nodes' = Nodes /\ \A v : Preds(v)' = Preds(v)
  BY <1>2, CallsStay
<1>8. /\ topo' \in Seq(Nodes) /\ Distinct(topo') /\ Placed' = Placed \cup {u}
      /\ Len(topo') = Len(topo) + 1 /\ Len(topo) \in Nat /\ topo'[Len(topo) + 1] = u
      /\ \A i \in 1 .. Len(topo) : topo'[i] = topo[i]
  <2>1. Elements(topo) = Placed /\ Elements(topo') = Placed'
    BY DEF Elements, Placed
  <2>2. /\ topo' \in Seq(Nodes) /\ Elements(topo') = Elements(topo) \cup {u}
        /\ Distinct(topo')
    BY <1>2, <1>4, <1>5, <1>6, <2>1, AppendFacts
  <2> QED
    BY <1>2, <1>4, <1>5, <2>1, <2>2
<1>9. \A v \in Placed : Preds(v) \subseteq Placed
  BY <1>4 DEF CallersBefore, Placed
<1>10. \A v : v \in Succs(u) <=> u \in Preds(v)
  BY DEF Preds, Succs
<1>11. \A v : /\ IsFiniteSet(Preds(v) \ Placed) /\ Preds(v) \subseteq Nodes
              /\ Cardinality(Preds(v) \ Placed) \in Nat
  <2> TAKE v
  <2>1. IsFiniteSet(Preds(v)) /\ Preds(v) \subseteq Nodes
    BY PredsFacts
  <2>2. IsFiniteSet(Preds(v) \ Placed)
    BY <2>1, FS_Subset
  <2> QED
    BY <2>1, <2>2, FS_CardinalityType
<1>12. \A v : v \in free <=> /\ v \in Nodes \ Placed' /\ u \in Preds(v)
                             /\ Preds(v) \subseteq Placed'
  <2> TAKE v
  <2>1. PICK P : P = Preds(v) \ Placed
    OBVIOUS
  <2>2. Cardinality(P) = 1 <=> \E x : P = {x}
    BY <1>11, <2>1, FS_Singleton
  <2>3. u \in Preds(v) => (Cardinality(P) = 1 <=> Preds(v) \subseteq Placed')
    <3>1. u \in Preds(v) => u \in P
      BY <1>6, <2>1
    <3>2. P = {u} <=> u \in P /\ Preds(v) \subseteq Placed \cup {u}
      BY <1>6, <2>1
    <3> QED
      BY <1>8, <2>2, <3>1, <3>2
  <2>4. u \in Preds(v) => v \in Nodes \ Placed'
    <3>1. u \in Preds(v) => v \in Nodes
      BY EdgeFacts DEF Preds
    <3> QED
      BY <1>6, <1>8, <1>9, <3>1
  <2>5. v \in Nodes => inDeg[v] = Cardinality(P)
    BY <1>4, <2>1
  <2> QED
    BY <1>1, <1>10, <2>3, <2>4, <2>5
<1>13. free \in SUBSET Nodes /\ IsFiniteSet(free)
  BY <1>12, NodeFacts, FS_Subset
<1>14. q \in Seq(Nodes) /\ Elements(q) = free /\ Distinct(q)
  <2>1. q \in Seq(free) /\ Elements(q) = free /\ Distinct(q)
    BY <1>3, <1>13, ListFacts
  <2> QED
    BY <1>13, <2>1
<1>15. queue' \in Seq(Nodes) /\ Distinct(queue') /\ Elements(queue') = (Ready \ {u}) \cup free
  <2>1. \A v \in Ready : v \notin free
    BY <1>6, <1>12 DEF Ready
  <2>2. Elements(Tail(queue)) \cap Elements(q) = {}
    BY <1>5, <1>14, <2>1
  <2>3. /\ queue' \in Seq(Nodes) /\ Distinct(queue')
        /\ Elements(queue') = Elements(Tail(queue)) \cup Elements(q)
    <3>1. PICK rest : rest = Tail(queue)
      OBVIOUS
    <3>2. rest \in Seq(Nodes) /\ Distinct(rest) /\ Elements(rest) \cap Elements(q) = {}
      BY <1>5, <2>2, <3>1
    <3>3. q \in Seq(Nodes) /\ Distinct(q)
      BY <1>14
    <3>4. /\ rest \o q \in Seq(Nodes) /\ Distinct(rest \o q)
          /\ Elements(rest \o q) = Elements(rest) \cup Elements(q)
      BY <3>2, <3>3, JoinFacts
    <3>5. queue' = rest \o q
      BY <1>3, <3>1
    <3> QED
      BY <3>1, <3>4, <3>5
  <2>4. Elements(Tail(queue)) = Ready \ {u} /\ Elements(q) = free
    BY <1>5, <1>14
  <2> QED
    BY <2>3, <2>4, Zenon
<1>16. Ready' = (Ready \ {u}) \cup free
  <2>1. \A v : v \in Ready' <=> v \in Nodes \ Placed' /\ Preds(v) \subseteq Placed'
    BY <1>7 DEF Ready
  <2>2. \A v : v \in Ready <=> v \in Nodes \ Placed /\ Preds(v) \subseteq Placed
    BY DEF Ready
  <2>3. \A v : Preds(v) \subseteq Placed' /\ u \notin Preds(v) <=> Preds(v) \subseteq Placed
    BY <1>6, <1>8
  <2> QED
    BY <1>8, <1>12, <2>1, <2>2, <2>3
<1>17. \A v \in Nodes : inDeg'[v] = Cardinality(Preds(v) \ Placed')
  <2> TAKE v \in Nodes
  <2>1. CASE u \in Preds(v)
    <3>1. PICK P : P = Preds(v) \ Placed
      OBVIOUS
    <3>2. u \in P /\ IsFiniteSet(P) /\ Preds(v) \ Placed' = P \ {u}
      BY <1>6, <1>8, <1>11, <2>1, <3>1
    <3>3. Cardinality(P \ {u}) = Cardinality(P) - 1
      BY <3>2, FS_RemoveElement
    <3> QED
      BY <1>2, <1>4, <1>10, <2>1, <3>1, <3>2, <3>3
  <2>2. CASE u \notin Preds(v)
    <3>1. Preds(v) \ Placed' = Preds(v) \ Placed
      BY <1>8, <2>2
    <3> QED
      BY <1>2, <1>4, <1>10, <2>2, <3>1
  <2> QED
    BY <2>1, <2>2
<1>18. CallersBefore'
  <2>1. SUFFICES ASSUME NEW j \in 1 .. Len(topo'), NEW w \in Preds(topo'[j])
                 PROVE  \E i \in 1 .. Len(topo') : i < j /\ topo'[i] = w
    BY <1>7 DEF CallersBefore
  <2>2. CASE j \in 1 .. Len(topo)
    <3>1. PICK i \in 1 .. Len(topo) : i < j /\ topo[i] = w
      BY <1>4, <1>8, <2>1, <2>2 DEF CallersBefore
    <3> QED
      BY <1>8, <3>1
  <2>3. CASE j = Len(topo) + 1
    <3>1. w \in Placed
      BY <1>6, <1>8, <2>1, <2>3
    <3>2. PICK i \in 1 .. Len(topo) : topo[i] = w
      BY <3>1 DEF Placed
    <3> QED
      BY <1>8, <2>3, <3>2
  <2> QED
    BY <1>8, <2>1, <2>2, <2>3
<1>19. (\A v \in Nodes : inDeg[v] = Cardinality(Preds(v) \ Placed))'
  BY <1>7, <1>17
<1>20. (Elements(queue) = Ready)' /\ Distinct(queue)' /\ Distinct(topo)'
  BY <1>8, <1>15, <1>16 DEF Elements, Distinct
<1> QED
  BY <1>2, <1>7, <1>8, <1>15, <1>18, <1>19, <1>20 DEF KahnInv

\* What Kahn's order does not reach is in or behind a recursion.
LEMMA RestRecurs ==
  ASSUME prog \in Programs, Extracted, KahnInv, stage = "kahn", queue = <<>>
  PROVE  Nodes \ Placed \subseteq From(Recursive)
<1>1. Ready = {}
  BY DEF KahnInv, Elements
<1>2. PICK U : U = Nodes \ Placed
  OBVIOUS
<1>3. \A v \in U : \E u \in U : u \in Preds(v)
  <2> TAKE v \in U
  <2>1. PICK u \in Preds(v) : u \notin Placed
    BY <1>1, <1>2 DEF Ready
  <2>2. u \in Nodes
    BY <2>1, PredsFacts
  <2> QED
    BY <1>2, <2>1, <2>2
<1> QED
  BY <1>2, <1>3, CyclesRecur

-----------------------------------------------------------------------------
(* Calls go down.                                                          *)

\* The edges from functions in no recursion and behind none.
Steady == {e \in edges : e.from \notin From(Recursive)}

LevelInv ==
    /\ stage = "levels" =>
        /\ topo \in Seq(Nodes) /\ Distinct(topo) /\ layer \in Nat \ {0}
        /\ \A e \in Steady : \E i, j \in 1 .. Len(topo) :
                i < j /\ topo[i] = e.from /\ topo[j] = e.to
        /\ \A e \in Steady : \A j \in 1 .. Len(topo) :
                j < layer /\ topo[j] = e.to => level[e.from] < level[e.to]
    /\ stage \in {"ranks", "place", "done"} => \A e \in Steady : level[e.from] < level[e.to]

CallsInv == BoxInv /\ KahnInv /\ LevelInv

LEMMA LevelsStart ==
  ASSUME prog \in Programs, Extracted, KahnInv, AppendRest
  PROVE  LevelInv'
<1>1. PICK rest : rest = Nodes \ Placed
  OBVIOUS
<1>2. /\ stage = "kahn" /\ stage' = "levels" /\ queue = <<>> /\ layer' = 1
      /\ UNCHANGED <<names, edges>>
  BY DEF AppendRest
<1>3. PICK q \in [1 .. Cardinality(rest) -> rest] :
            Lists(q, rest, Index) /\ topo' = topo \o q
  BY <1>1 DEF AppendRest
<1>4. topo \in Seq(Nodes) /\ Distinct(topo) /\ CallersBefore
  BY <1>2 DEF KahnInv
<1>5. rest \in SUBSET Nodes /\ IsFiniteSet(rest)
  BY <1>1, NodeFacts, FS_Subset
<1>6. q \in Seq(Nodes) /\ Elements(q) = rest /\ Distinct(q)
  <2>1. q \in Seq(rest) /\ Elements(q) = rest /\ Distinct(q)
    BY <1>3, <1>5, ListFacts
  <2> QED
    BY <1>5, <2>1
<1>7. Elements(topo) = Placed
  BY DEF Elements, Placed
<1>8. topo' \in Seq(Nodes) /\ Distinct(topo')
  BY <1>1, <1>3, <1>4, <1>6, <1>7, JoinFacts
<1>9. /\ Len(topo') = Len(topo) + Len(q) /\ Len(topo) \in Nat /\ Len(q) \in Nat
      /\ \A i \in 1 .. Len(topo) : topo'[i] = topo[i]
      /\ \A i \in 1 .. Len(q) : topo'[Len(topo) + i] = q[i]
  BY <1>3, <1>4, <1>6
<1>10. Nodes' = Nodes /\ Steady' = Steady
  BY <1>2, CallsStay DEF Steady
<1>11. ASSUME NEW e \in Steady
       PROVE  \E i, j \in 1 .. Len(topo') : i < j /\ topo'[i] = e.from /\ topo'[j] = e.to
  <2>1. e.from \in Nodes /\ e.to \in Nodes /\ e.from \in Preds(e.to) /\ e.from \notin rest
    BY <1>1, <1>2, EdgeFacts, RestRecurs DEF Steady, Preds
  <2>2. PICK i \in 1 .. Len(topo) : topo[i] = e.from
    BY <1>1, <2>1 DEF Placed
  <2>3. CASE e.to \in rest
    <3>1. PICK k \in 1 .. Len(q) : q[k] = e.to
      BY <1>6, <2>3 DEF Elements
    <3>2. Len(topo) + k \in 1 .. Len(topo') /\ i < Len(topo) + k /\ i \in 1 .. Len(topo')
      BY <1>9, <2>2, <3>1
    <3> QED
      BY <1>9, <2>2, <3>1, <3>2
  <2>4. CASE e.to \notin rest
    <3>1. PICK j \in 1 .. Len(topo) : topo[j] = e.to
      BY <1>1, <2>1, <2>4 DEF Placed
    <3>2. PICK k \in 1 .. Len(topo) : k < j /\ topo[k] = e.from
      BY <1>4, <2>1, <3>1 DEF CallersBefore
    <3>3. k \in 1 .. Len(topo') /\ j \in 1 .. Len(topo')
      BY <1>9
    <3> QED
      BY <1>9, <3>1, <3>2, <3>3
  <2> QED
    BY <2>3, <2>4
<1>12. \A j \in 1 .. Len(topo') : ~(j < layer')
  BY <1>2
<1>13. layer' \in Nat \ {0}
  BY <1>2
<1> QED
  BY <1>2, <1>8, <1>10, <1>11, <1>12, <1>13 DEF LevelInv, Distinct

LEMMA LevelAssigned ==
  ASSUME Leveled, LevelInv, AssignLevel
  PROVE  LevelInv'
<1>1. PICK v : v = topo[layer]
  OBVIOUS
<1>2. /\ stage = "levels" /\ stage' = "levels" /\ layer <= Len(topo) /\ layer' = layer + 1
      /\ UNCHANGED <<names, edges, topo>> /\ level' = [level EXCEPT ![v] = Below(v)]
  BY <1>1 DEF AssignLevel
<1>3. /\ topo \in Seq(Nodes) /\ Distinct(topo) /\ layer \in Nat \ {0}
      /\ \A e \in Steady : \E i, j \in 1 .. Len(topo) :
            i < j /\ topo[i] = e.from /\ topo[j] = e.to
      /\ \A e \in Steady : \A j \in 1 .. Len(topo) :
            j < layer /\ topo[j] = e.to => level[e.from] < level[e.to]
  BY <1>2 DEF LevelInv
<1>4. Nodes' = Nodes /\ Steady' = Steady
  BY <1>2, CallsStay DEF Steady
<1>5. layer \in 1 .. Len(topo) /\ layer' \in Nat \ {0}
  BY <1>2, <1>3
<1>6. ASSUME NEW e \in Steady, NEW j \in 1 .. Len(topo), j < layer + 1, topo[j] = e.to
      PROVE  level'[e.from] < level'[e.to]
  <2>1. PICK i, k \in 1 .. Len(topo) : i < k /\ topo[i] = e.from /\ topo[k] = e.to
    BY <1>3
  <2>2. k = j /\ i < j
    BY <1>3, <1>6, <2>1 DEF Distinct
  <2>3. e.from \in Nodes /\ e.to \in Nodes /\ e.from \in Preds(e.to)
    BY EdgeFacts DEF Steady, Preds, Leveled
  <2>4. level'[e.from] = level[e.from]
    <3>1. i # layer
      BY <1>3, <1>6, <2>2
    <3>2. e.from # v
      BY <1>1, <1>3, <1>5, <2>1, <3>1 DEF Distinct
    <3> QED
      BY <1>2, <2>3, <3>2 DEF Leveled
  <2>5. CASE j = layer
    <3>1. level'[e.to] = Below(v) /\ e.to = v
      BY <1>1, <1>2, <1>6, <2>3, <2>5 DEF Leveled
    <3> QED
      BY <2>3, <2>4, <3>1, BelowIsLevel
  <2>6. CASE j # layer
    <3>1. j < layer
      BY <1>3, <1>6, <2>6
    <3>2. e.to # v
      BY <1>1, <1>3, <1>5, <1>6, <2>6 DEF Distinct
    <3>3. level'[e.to] = level[e.to]
      BY <1>2, <2>3, <3>2 DEF Leveled
    <3> QED
      BY <1>3, <1>6, <2>4, <3>1, <3>3
  <2> QED
    BY <2>5, <2>6
<1> QED
  BY <1>2, <1>3, <1>4, <1>5, <1>6 DEF LevelInv, Distinct

LEMMA LayersGrouped ==
  ASSUME Leveled, LevelInv, GroupLayers
  PROVE  LevelInv'
<1>1. /\ stage = "levels" /\ stage' = "ranks" /\ layer > Len(topo) /\ UNCHANGED <<names, edges>>
      /\ \A v \in Nodes : ~Isolated(v) => level'[v] = level[v]
  BY DEF GroupLayers
<1>2. /\ topo \in Seq(Nodes) /\ layer \in Nat \ {0}
      /\ \A e \in Steady : \E i, j \in 1 .. Len(topo) :
            i < j /\ topo[i] = e.from /\ topo[j] = e.to
      /\ \A e \in Steady : \A j \in 1 .. Len(topo) :
            j < layer /\ topo[j] = e.to => level[e.from] < level[e.to]
  BY <1>1 DEF LevelInv
<1>3. Steady' = Steady
  BY <1>1, CallsStay DEF Steady
<1>4. ASSUME NEW e \in Steady PROVE level'[e.from] < level'[e.to]
  <2>1. PICK j \in 1 .. Len(topo) : topo[j] = e.to
    BY <1>2
  <2>2. j < layer
    BY <1>1, <1>2
  <2>3. level[e.from] < level[e.to]
    BY <1>2, <2>1, <2>2
  <2>4. e.from \in Nodes /\ e.to \in Nodes /\ ~Isolated(e.from) /\ ~Isolated(e.to)
    <3>1. e \in edges
      BY DEF Steady
    <3>2. e.from \in Preds(e.to) /\ e.to \in Succs(e.from)
      BY <3>1 DEF Preds, Succs
    <3> QED
      BY <3>1, <3>2, EdgeFacts DEF Isolated, Leveled
  <2> QED
    BY <1>1, <2>3, <2>4
<1> QED
  BY <1>1, <1>3, <1>4 DEF LevelInv

LEMMA CallsInit == Init => CallsInv
BY BoxInit DEF Init, LayoutInit, CallsInv, KahnInv, LevelInv

LEMMA CallsStep == CallsInv /\ [Next]_vars => CallsInv'
<1> SUFFICES ASSUME CallsInv, [Next]_vars PROVE KahnInv' /\ LevelInv'
  BY BoxStep DEF CallsInv
<1>1. KahnInv /\ LevelInv /\ BoxInv /\ Kept
  BY DEF CallsInv, BoxInv
<1>2. stage # "extract" => prog \in Programs /\ Extracted
  BY <1>1 DEF Kept
<1>3. stage = "levels" => Leveled
  BY <1>1, <1>2 DEF BoxInv, Leveled
<1>4. CASE Extract
  <2>1. stage' = "degrees" /\ topo' = topo /\ topo = <<>>
    BY <1>1, <1>4 DEF Extract, KahnInv
  <2> QED
    BY <2>1 DEF KahnInv, LevelInv
<1>5. CASE CountDegrees
  <2>1. stage = "degrees" /\ stage' = "kahn"
    BY <1>5 DEF CountDegrees
  <2> QED
    BY <1>1, <1>2, <1>5, <2>1, KahnStarts DEF LevelInv
<1>6. CASE PopFront
  <2>1. stage = "kahn" /\ stage' = "kahn"
    BY <1>6 DEF PopFront
  <2> QED
    BY <1>1, <1>2, <1>6, <2>1, KahnPops DEF LevelInv
<1>7. CASE AppendRest
  <2>1. stage = "kahn" /\ stage' = "levels"
    BY <1>7 DEF AppendRest
  <2> QED
    BY <1>1, <1>2, <1>7, <2>1, LevelsStart DEF KahnInv
<1>8. CASE AssignLevel
  <2>1. stage = "levels" /\ stage' = "levels"
    BY <1>8 DEF AssignLevel
  <2> QED
    BY <1>1, <1>3, <1>8, <2>1, LevelAssigned DEF KahnInv
<1>9. CASE GroupLayers
  <2>1. stage = "levels" /\ stage' = "ranks"
    BY <1>9 DEF GroupLayers
  <2> QED
    BY <1>1, <1>3, <1>9, <2>1, LayersGrouped DEF KahnInv
<1>10. CASE RankLayer \/ RanksDone \/ PlaceLayer \/ LayoutDone
  <2>1. /\ stage \in {"ranks", "place"} /\ stage' \in {"ranks", "place", "done"}
        /\ UNCHANGED <<names, edges, level>>
    BY <1>10 DEF RankLayer, RanksDone, PlaceLayer, LayoutDone
  <2>2. Steady' = Steady
    BY <2>1, CallsStay DEF Steady
  <2> QED
    BY <1>1, <2>1, <2>2 DEF KahnInv, LevelInv
<1>11. CASE UNCHANGED layoutVars
  <2>1. UNCHANGED <<stage, names, edges, inDeg, queue, topo, level, layer>>
    BY <1>11 DEF layoutVars
  <2>2. CallersBefore' <=> CallersBefore
    BY <2>1 DEF CallersBefore, Preds
  <2>3. Nodes' = Nodes /\ Ready' = Ready /\ Steady' = Steady
    BY <2>1, CallsStay DEF Steady, Ready, Placed
  <2>4. \A v : (Preds(v) \ Placed)' = Preds(v) \ Placed
    BY <2>1 DEF Preds, Placed
  <2>5. KahnInv'
    BY <1>1, <2>1, <2>2, <2>3, <2>4 DEF KahnInv, Elements, Distinct
  <2>6. LevelInv'
    BY <1>1, <2>1, <2>3 DEF LevelInv, Distinct
  <2> QED
    BY <2>5, <2>6
<1> QED
  BY <1>4, <1>5, <1>6, <1>7, <1>8, <1>9, <1>10, <1>11, UserKeepsLayout DEF LayoutNext

(***************************************************************************)
(* In the layout of every program, the box of a function in no recursion   *)
(* and behind none ends above the boxes of all it calls, one in a          *)
(* recursion too: Kahn's algorithm leaves only nodes in or behind a        *)
(* recursion for the end of the order, and levels follow the order.        *)
(***************************************************************************)
THEOREM SteadyCallsGoDown == Spec => []CallsGoDown
<1>1. CallsInv => CallsGoDown
  <2> SUFFICES ASSUME CallsInv, stage = "done", NEW e \in edges, e.from \notin From(Recursive)
               PROVE  Y(e.from) + Height(e.from) < Y(e.to)
    BY DEF CallsGoDown
  <2>1. BoxInv /\ prog \in Programs /\ Extracted
    BY DEF CallsInv, BoxInv, Kept
  <2>2. level[e.from] < level[e.to]
    BY DEF CallsInv, LevelInv, Steady
  <2>3. e.from \in Nodes /\ e.to \in Nodes
    BY <2>1, EdgeFacts
  <2> QED
    BY <2>1, <2>2, <2>3, LayersGoDown
<1> QED
  BY <1>1, CallsInit, CallsStep, PTL DEF Spec
-----------------------------------------------------------------------------
(* What the pointer is on.                                                 *)

\* shown, and the numbers of the view; a layout that runs is not shown yet.
ViewTyped ==
    /\ shown \in BOOLEAN /\ shown => stage = "done"
    /\ scale \in Nat \ {0} /\ parts \in Nat \ {0} /\ baseParts \in Nat \ {0}
    /\ offset \in Int \X Int /\ base \in Int \X Int /\ mouse \in Int \X Int

ViewInv == BoxInv /\ ViewTyped /\ HoverIsThere

LEMMA ScalingKeepsOrder ==
  ASSUME NEW a \in Int, NEW b \in Int, NEW k \in Nat \ {0}
  PROVE  a * k <= b * k <=> a <= b
<1>1. CASE a <= b
  <2>1. PICK d \in Nat : b = a + d
    BY <1>1
  <2>2. b * k = a * k + d * k /\ d * k \in Nat /\ a * k \in Int
    BY <2>1
  <2> QED
    BY <1>1, <2>2
<1>2. CASE b < a
  <2>1. PICK d \in Nat : a = b + 1 + d
    <3>1. a - b - 1 \in Nat /\ a = b + 1 + (a - b - 1)
      BY <1>2
    <3> QED
      BY <3>1
  <2>2. a * k = b * k + k + d * k /\ d * k \in Nat /\ b * k \in Int
    BY <2>1
  <2> QED
    BY <1>2, <2>2
<1> QED
  BY <1>1, <1>2

\* One axis of a notch of the wheel: m is the pointer, o the offset in parts.
LEMMA PivotHolds ==
  ASSUME NEW m \in Int, NEW o \in Int, NEW x \in Int, NEW p \in Nat \ {0},
         NEW from \in Nat \ {0}, NEW to \in Nat \ {0}, NEW one \in Nat,
         NEW c, c = (m * p - o) * one,
         NEW d, d = (m * (p * from) - (m * p * from - (m * p - o) * to)) * one
  PROVE  /\ x * (to * (p * from)) <= d <=> x * (from * p) <= c
         /\ d <= x * (to * (p * from)) <=> c <= x * (from * p)
<1>1. PICK e : e = m * p - o
  OBVIOUS
<1>2. PICK a : a = x * (from * p)
  OBVIOUS
<1>3. e \in Int /\ a \in Int /\ c = e * one /\ c \in Int
  BY <1>1, <1>2
<1>4. m * (p * from) - (m * p * from - e * to) = e * to
  <2>1. m * (p * from) = m * p * from /\ m * (p * from) \in Int /\ e * to \in Int
    BY <1>3
  <2> QED
    BY <2>1
<1>5. d = c * to
  <2>1. d = (e * to) * one
    BY <1>1, <1>4
  <2> QED
    BY <1>3, <2>1
<1>6. x * (to * (p * from)) = a * to
  <2>1. to * (p * from) = (from * p) * to
    OBVIOUS
  <2>2. x * ((from * p) * to) = (x * (from * p)) * to
    <3>1. PICK y \in Int : y = from * p
      OBVIOUS
    <3>2. x * (y * to) = (x * y) * to
      OBVIOUS
    <3> QED
      BY <3>1, <3>2
  <2> QED
    BY <1>2, <2>1, <2>2
<1>7. (a * to <= c * to <=> a <= c) /\ (c * to <= a * to <=> c <= a)
  BY <1>3, ScalingKeepsOrder
<1> QED
  BY <1>2, <1>5, <1>6, <1>7

LEMMA BoxesAreNumbers ==
  ASSUME BoxInv, stage = "done", NEW v \in Nodes
  PROVE  /\ X(v) \in Int /\ X(v) >= Pad /\ Y(v) \in Int
         /\ X(v) + NodeW \in Int /\ Y(v) + Height(v) \in Int
<1>1. /\ Leveled /\ level[v] \in Nat /\ place[v] \in Nat /\ layerY \in Seq(Nat)
      /\ Len(layerY) = layer /\ layer > MaxLevel /\ layer \in Nat
  BY DEF BoxInv, Kept, Leveled
<1>2. /\ NodeW \in Nat /\ HGap \in Nat /\ Pad \in Nat
  BY LayoutAssumption
<1>3. X(v) \in Int /\ X(v) >= Pad /\ X(v) + NodeW \in Int
  <2>1. place[v] * (NodeW + HGap) \in Nat
    BY <1>1, <1>2
  <2> QED
    BY <1>2, <2>1 DEF X
<1>4. Height(v) \in Int /\ MaxLevel \in Nat /\ level[v] <= MaxLevel
  <2>1. v \in Row(level[v])
    BY DEF Row
  <2> QED
    BY <1>1, <2>1, RowFacts
<1>5. Y(v) \in Int
  <2>1. level[v] + 1 \in 1 .. Len(layerY)
    BY <1>1, <1>4
  <2> QED
    BY <1>1, <2>1 DEF Y
<1> QED
  BY <1>3, <1>4, <1>5

LEMMA HitStays ==
  ASSUME UNCHANGED <<layoutVars, shown, offset, scale, parts>>, NEW p, mouse' = p
  PROVE  Hit(mouse)' = Hit(p)
BY DEF layoutVars, Hit, Nodes, Contains, OnCanvas, X, Y, Height, Internal

LEMMA NothingShown ==
  ASSUME NEW p, ~shown
  PROVE  Hit(p) = 0
BY DEF Hit

\* Replace puts the pointer at the corner, where no box is.
LEMMA CornerIsFree ==
  ASSUME BoxInv, stage = "done", UNCHANGED layoutVars, mouse' = <<0, 0>>, offset' = <<0, 0>>,
         parts' = 1, scale' = ScaleOne
  PROVE  Hit(mouse)' = 0
<1>1. ASSUME NEW v \in Nodes'
      PROVE  ~ Contains(v, OnCanvas(mouse))'
  <2>1. v \in Nodes /\ X(v)' = X(v)
    BY <1>1 DEF Nodes, X, layoutVars
  <2>2. X(v) \in Int /\ X(v) > 0
    <3>1. X(v) \in Int /\ X(v) >= Pad
      BY <2>1, BoxesAreNumbers
    <3> QED
      BY <3>1, LayoutAssumption
  <2>3. OnCanvas(mouse)'[1] = 0
    <3>1. (0 * 1 - 0) * ScaleOne = 0
      BY ViewAssumption
    <3> QED
      BY <3>1 DEF OnCanvas
  <2>4. X(v) * (ScaleOne * 1) > 0
    <3>1. ScaleOne \in Nat /\ ScaleOne >= 1
      BY ViewAssumption
    <3>2. ~ (X(v) * ScaleOne <= 0 * ScaleOne)
      BY <2>2, <3>1, ScalingKeepsOrder
    <3>3. X(v) * (ScaleOne * 1) = X(v) * ScaleOne /\ 0 * ScaleOne = 0 /\ X(v) * ScaleOne \in Int
      BY <2>2, <3>1
    <3> QED
      BY <3>2, <3>3
  <2>5. Contains(v, OnCanvas(mouse))' => X(v) * (ScaleOne * 1) <= 0
    BY <2>1, <2>3 DEF Contains
  <2> QED
    BY <2>2, <2>4, <2>5, ViewAssumption
<1>2. PICK S : S = {v \in Nodes' : Contains(v, OnCanvas(mouse))'}
  OBVIOUS
<1>3. S = {}
  BY <1>1, <1>2
<1> QED
  BY <1>2, <1>3 DEF Hit

\* The wheel moves the canvas so that what is under the pointer stays there.
LEMMA ScrollKeepsHit ==
  ASSUME BoxInv, ViewTyped, stage = "done", NEW in \in BOOLEAN, Scroll(in)
  PROVE  scale' \in Nat \ {0} /\ offset' \in Int \X Int /\ Hit(mouse)' = Hit(mouse)
<1>1. /\ scale \in Nat \ {0} /\ parts \in Nat \ {0} /\ mouse \in Int \X Int
      /\ offset \in Int \X Int /\ ScaleOne \in Nat /\ ScaleMax \in Nat \ {0}
  BY ViewAssumption DEF ViewTyped
<1>2. PICK s : s = IF in THEN scale * 2 ELSE scale \div 2
  OBVIOUS
<1>3. s \in Int
  BY <1>1, <1>2
<1>4. scale' = Clamped(s)
  BY <1>2 DEF Scroll
<1>5. scale' \in Nat \ {0}
  BY <1>1, <1>3, <1>4 DEF Clamped, Lesser
<1>6. PICK from, to, p, ox, oy, mx, my :
        /\ from = scale /\ to = scale' /\ p = parts /\ ox = offset[1] /\ oy = offset[2]
        /\ mx = mouse[1] /\ my = mouse[2]
  OBVIOUS
<1>7. /\ from \in Nat \ {0} /\ to \in Nat \ {0} /\ p \in Nat \ {0}
      /\ ox \in Int /\ oy \in Int /\ mx \in Int /\ my \in Int
  BY <1>1, <1>5, <1>6
<1>8. /\ offset' = <<mx * p * from - (mx * p - ox) * to, my * p * from - (my * p - oy) * to>>
      /\ parts' = p * from /\ mouse' = mouse /\ shown' = shown /\ UNCHANGED layoutVars
  BY <1>6 DEF Scroll, Pivot
<1>9. offset' \in Int \X Int
  <2>1. /\ mx * p * from - (mx * p - ox) * to \in Int
        /\ my * p * from - (my * p - oy) * to \in Int
    BY <1>7
  <2> QED
    BY <1>8, <2>1
<1>10. PICK cx, cy, dx, dy :
        /\ cx = (mx * p - ox) * ScaleOne /\ cy = (my * p - oy) * ScaleOne
        /\ dx = (mx * (p * from) - (mx * p * from - (mx * p - ox) * to)) * ScaleOne
        /\ dy = (my * (p * from) - (my * p * from - (my * p - oy) * to)) * ScaleOne
  OBVIOUS
<1>11. OnCanvas(mouse) = <<cx, cy>> /\ OnCanvas(mouse)' = <<dx, dy>>
  <2>1. OnCanvas(mouse) = <<cx, cy>>
    BY <1>6, <1>10 DEF OnCanvas
  <2>2. mouse'[1] = mx /\ mouse'[2] = my
    BY <1>6, <1>8
  <2>3. /\ offset'[1] = mx * p * from - (mx * p - ox) * to
        /\ offset'[2] = my * p * from - (my * p - oy) * to
    BY <1>8
  <2>4. OnCanvas(mouse)' = <<(mouse'[1] * parts' - offset'[1]) * ScaleOne,
                             (mouse'[2] * parts' - offset'[2]) * ScaleOne>>
    BY DEF OnCanvas
  <2>5. OnCanvas(mouse)' = <<(mx * (p * from) - offset'[1]) * ScaleOne,
                             (my * (p * from) - offset'[2]) * ScaleOne>>
    BY <1>8, <2>2, <2>4
  <2> QED
    BY <1>10, <2>1, <2>3, <2>5
<1>12. Nodes' = Nodes
  BY <1>8 DEF layoutVars, Nodes
<1>13. ASSUME NEW v \in Nodes
       PROVE  Contains(v, OnCanvas(mouse))' <=> Contains(v, OnCanvas(mouse))
  <2>1. PICK x1, x2, y1, y2 : x1 = X(v) /\ x2 = X(v) + NodeW /\ y1 = Y(v) /\ y2 = Y(v) + Height(v)
    OBVIOUS
  <2>2. x1 \in Int /\ x2 \in Int /\ y1 \in Int /\ y2 \in Int
    BY <2>1, BoxesAreNumbers
  <2>3. X(v)' = x1 /\ X(v)' + NodeW = x2 /\ Y(v)' = y1 /\ Y(v)' + Height(v)' = y2
    BY <1>8, <2>1 DEF layoutVars, X, Y, Height, Internal
  <2>4. PICK u, w : u = from * p /\ w = to * (p * from)
    OBVIOUS
  <2>5. Contains(v, OnCanvas(mouse)) <=>
            x1 * u <= cx /\ cx <= x2 * u /\ y1 * u <= cy /\ cy <= y2 * u
    BY <1>6, <1>11, <2>1, <2>4 DEF Contains
  <2>6. Contains(v, OnCanvas(mouse))' <=>
            x1 * w <= dx /\ dx <= x2 * w /\ y1 * w <= dy /\ dy <= y2 * w
    BY <1>6, <1>8, <1>11, <2>3, <2>4 DEF Contains
  <2>7. x1 * w <= dx <=> x1 * u <= cx
    BY <1>1, <1>7, <1>10, <2>2, <2>4, PivotHolds
  <2>8. dx <= x2 * w <=> cx <= x2 * u
    BY <1>1, <1>7, <1>10, <2>2, <2>4, PivotHolds
  <2>9. y1 * w <= dy <=> y1 * u <= cy
    BY <1>1, <1>7, <1>10, <2>2, <2>4, PivotHolds
  <2>10. dy <= y2 * w <=> cy <= y2 * u
    BY <1>1, <1>7, <1>10, <2>2, <2>4, PivotHolds
  <2> QED
    BY <2>5, <2>6, <2>7, <2>8, <2>9, <2>10
<1>14. Hit(mouse)' = Hit(mouse)
  <2>1. PICK S, T : /\ S = {v \in Nodes : Contains(v, OnCanvas(mouse))}
                    /\ T = {v \in Nodes' : Contains(v, OnCanvas(mouse))'}
    OBVIOUS
  <2>2. S = T
    BY <1>12, <1>13, <2>1
  <2>3. CASE shown
    <3>1. Hit(mouse) = IF S = {} THEN 0 ELSE CHOOSE v \in S : \A u \in S : v <= u
      BY <2>1, <2>3 DEF Hit
    <3>2. Hit(mouse)' = IF T = {} THEN 0 ELSE CHOOSE v \in T : \A u \in T : v <= u
      BY <1>8, <2>1, <2>3 DEF Hit
    <3>3. Hit(mouse)' = IF S = {} THEN 0 ELSE CHOOSE v \in S : \A u \in S : v <= u
      BY <2>2, <3>2
    <3> QED
      BY <3>1, <3>3
  <2>4. CASE ~shown
    BY <1>8, <2>4 DEF Hit
  <2> QED
    BY <2>3, <2>4
<1> QED
  BY <1>5, <1>9, <1>14

LEMMA ViewStep == ViewInv /\ [Next]_vars => ViewInv'
<1> SUFFICES ASSUME ViewInv, [Next]_vars PROVE ViewTyped' /\ HoverIsThere'
  BY BoxStep DEF ViewInv
<1>1. BoxInv /\ ViewTyped /\ HoverIsThere
  BY DEF ViewInv
<1>2. CASE LayoutNext /\ UNCHANGED <<shown, offset, scale, base, parts, baseParts,
                                     mouse, hovered, selected, dragging, panned, events>>
  <2>1. stage # "done"
    BY <1>2 DEF LayoutNext, Extract, CountDegrees, PopFront, AppendRest, AssignLevel,
       GroupLayers, RankLayer, RanksDone, PlaceLayer, LayoutDone
  <2>2. ~shown /\ ~shown'
    BY <1>1, <1>2, <2>1 DEF ViewTyped
  <2>3. Hit(mouse) = 0 /\ Hit(mouse)' = 0
    BY <2>2, NothingShown DEF Hit
  <2> QED
    BY <1>1, <1>2, <2>2, <2>3 DEF ViewTyped, HoverIsThere
<1>3. ASSUME NEW graph \in BOOLEAN, Replace(graph)
      PROVE  ViewTyped' /\ HoverIsThere'
  <2>1. Hit(mouse)' = 0
    BY <1>1, <1>3, CornerIsFree DEF Replace
  <2>2. stage' = stage
    BY <1>3 DEF Replace, layoutVars
  <2> QED
    BY <1>1, <1>3, <2>1, <2>2, ViewAssumption DEF Replace, ViewTyped, HoverIsThere
<1>4. ASSUME NEW p \in Points, Motion(p)
      PROVE  ViewTyped' /\ HoverIsThere'
  <2>1. Hit(mouse)' = Hit(p)
    BY <1>4, HitStays DEF Motion
  <2>2. stage' = stage
    BY <1>4 DEF Motion, layoutVars
  <2> QED
    BY <1>1, <1>4, <2>1, <2>2, ViewAssumption DEF Motion, ViewTyped, HoverIsThere
<1>5. CASE \/ \E p \in Points : Click(p)
           \/ DragBegin \/ DragEnd \/ UNCHANGED vars
  <2>1. UNCHANGED <<layoutVars, shown, offset, scale, parts, mouse, hovered, panned>>
    BY <1>5 DEF Click, DragBegin, DragEnd, vars
  <2>2. Hit(mouse)' = Hit(mouse)
    BY <2>1, HitStays
  <2>3. stage' = stage
    BY <2>1 DEF layoutVars
  <2>4. base' \in {base, offset} /\ baseParts' \in {baseParts, parts}
    BY <1>5 DEF Click, DragBegin, DragEnd, vars
  <2> QED
    BY <1>1, <2>1, <2>2, <2>3, <2>4 DEF ViewTyped, HoverIsThere
<1>6. ASSUME NEW d \in Drags, DragUpdate(d)
      PROVE  ViewTyped' /\ HoverIsThere'
  <2>1. d \in Int \X Int
    BY ViewAssumption
  <2>2. offset' \in Int \X Int
    BY <1>1, <1>6, <2>1 DEF DragUpdate, ViewTyped
  <2>3. stage' = stage
    BY <1>6 DEF DragUpdate, layoutVars
  <2> QED
    BY <1>1, <1>6, <2>2, <2>3 DEF DragUpdate, ViewTyped, HoverIsThere
<1>7. ASSUME NEW in \in BOOLEAN, Scroll(in)
      PROVE  ViewTyped' /\ HoverIsThere'
  <2>1. stage = "done" /\ stage' = stage
    BY <1>7 DEF Scroll, User, layoutVars
  <2>2. scale' \in Nat \ {0} /\ offset' \in Int \X Int /\ Hit(mouse)' = Hit(mouse)
    BY <1>1, <1>7, <2>1, ScrollKeepsHit
  <2>3. parts' \in Nat \ {0}
    BY <1>1, <1>7 DEF Scroll, ViewTyped
  <2> QED
    BY <1>1, <1>7, <2>1, <2>2, <2>3 DEF Scroll, ViewTyped, HoverIsThere
<1> QED
  BY <1>2, <1>3, <1>4, <1>5, <1>6, <1>7 DEF Next

(***************************************************************************)
(* For every program, every place the pointer goes to, every drag and      *)
(* every limit of the zoom: until a drag moves the canvas, the highlighted *)
(* node is the one under the pointer, however often the wheel turned       *)
(* since, because the wheel keeps the canvas point under the pointer where *)
(* it is (over the reals; graph.rs computes in f64).                       *)
(***************************************************************************)
THEOREM PointerKeepsItsNode == Spec => []HoverIsThere
<1>1. Init => ViewInv
  <2> SUFFICES ASSUME Init PROVE ViewTyped /\ HoverIsThere
    BY BoxInit DEF ViewInv
  <2>1. Hit(mouse) = 0
    BY NothingShown DEF Init
  <2> QED
    BY <2>1, ViewAssumption DEF Init, ViewInit, ViewTyped, HoverIsThere
<1>2. ViewInv => HoverIsThere
  BY DEF ViewInv
<1> QED
  BY <1>1, <1>2, ViewStep, PTL DEF Spec
=============================================================================
