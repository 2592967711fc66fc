--------------------------- MODULE PipelineProofs ---------------------------
(***************************************************************************)
(* The pipeline, for every file whose sections are decoded from their      *)
(* start on: after detection every instruction from the first entry point  *)
(* on has one owner, a task lifts the instructions of its range, and the   *)
(* calls that are lifted are the edges of the call graph.  Of the tables   *)
(* the pipeline starts from: types are named as their entries spell them   *)
(* and stand under a root, strings are the text at their address, and      *)
(* recovered strings lie apart.                                            *)
(***************************************************************************)
EXTENDS Pipeline, StringTables, FiniteSetTheorems, TLAPS

\* Iteration, induction.
Counting == INSTANCE FlowGraphProofs WITH Graphs <- {}

-----------------------------------------------------------------------------
(* Least and greatest elements.                                            *)

Smaller == {p \in Nat \X Nat : p[1] < p[2]}

LEMMA SmallerFounded == IsWellFoundedOn(Smaller, Nat)
BY NatLessThanWellFounded DEF OpToRel, Smaller

LEMMA LeastOf ==
  ASSUME NEW S, S \subseteq Nat, S # {}
  PROVE  \E m \in S : \A n \in S : m <= n
<1>1. PICK m \in S : \A n \in S : <<n, m>> \notin Smaller
  BY SmallerFounded, WFMin
<1>2. \A n \in Nat : n < m => <<n, m>> \in Smaller
  BY <1>1 DEF Smaller
<1>3. \A n \in S : ~(n < m)
  BY <1>1, <1>2, Zenon
<1>4. \A n \in S : m <= n
  BY <1>3
<1> QED
  BY <1>4

LEMMA GreatestOf ==
  ASSUME NEW S, S \subseteq Nat, S # {}, NEW x \in Nat, \A n \in S : n <= x
  PROVE  \E m \in S : \A n \in S : n <= m
<1> DEFINE D == {d \in Nat : x - d \in S}
<1>1. D # {}
  <2>1. PICK n \in S : TRUE
    OBVIOUS
  <2>2. x - n \in Nat /\ x - (x - n) = n
    BY <2>1
  <2> QED
    BY <2>1, <2>2
<1>2. PICK d \in D : \A e \in D : d <= e
  BY <1>1, LeastOf
<1>3. \A n \in S : n <= x - d
  <2> TAKE n \in S
  <2>1. x - n \in D
    <3>1. x - n \in Nat /\ x - (x - n) = n
      OBVIOUS
    <3> QED
      BY <3>1
  <2> QED
    BY <2>1, <1>2
<1> QED
  BY <1>3

-----------------------------------------------------------------------------
(* The sort.  The place of an instruction is the number of those before it;*)
(* places are below the length and no two share one, so each is taken.     *)

LEMMA InsnFacts ==
  ASSUME NEW s \in Seq(Insn), NEW i \in 1 .. Len(s)
  PROVE  s[i].addr \in Nat /\ s[i].size \in Nat \ {0} /\ s[i].val \in Nat
<1>1. s[i] \in Insn
  OBVIOUS
<1> QED
  BY <1>1 DEF Insn

LEMMA Counted ==
  ASSUME NEW n \in Nat
  PROVE  /\ IsFiniteSet(1 .. n) /\ Cardinality(1 .. n) = n
         /\ IsFiniteSet(0 .. n - 1) /\ Cardinality(0 .. n - 1) = n
<1>1. 0 \in Int /\ 1 \in Int /\ n \in Int /\ n - 1 \in Int
  OBVIOUS
<1>2. IsFiniteSet(1 .. n) /\ Cardinality(1 .. n) = IF 1 > n THEN 0 ELSE n - 1 + 1
  BY <1>1, FS_Interval
<1>3. IsFiniteSet(0 .. n - 1)
      /\ Cardinality(0 .. n - 1) = IF 0 > n - 1 THEN 0 ELSE (n - 1) - 0 + 1
  BY <1>1, FS_Interval
<1> QED
  BY <1>2, <1>3

Places == 0 .. Len(insns) - 1

Place(j) == Cardinality(Before(j))

LEMMA BeforeIsSmall ==
  ASSUME insns \in Seq(Insn), NEW j \in 1 .. Len(insns)
  PROVE  IsFiniteSet(Before(j)) /\ Place(j) \in Places
<1> DEFINE All == 1 .. Len(insns)
<1>1. IsFiniteSet(All) /\ Cardinality(All) = Len(insns)
  BY Counted
<1>2. IsFiniteSet(All \ {j}) /\ Cardinality(All \ {j}) = Len(insns) - 1
  BY <1>1, FS_RemoveElement
<1>3. Before(j) \subseteq All \ {j}
  <2>1. insns[j] \in Insn
    OBVIOUS
  <2> QED
    BY <2>1 DEF Before, Insn
<1>4. IsFiniteSet(Before(j)) /\ Cardinality(Before(j)) <= Len(insns) - 1
  BY <1>2, <1>3, FS_Subset
<1>5. Cardinality(Before(j)) \in Nat
  BY <1>4, FS_CardinalityType
<1> QED
  BY <1>4, <1>5 DEF Place, Places

LEMMA BeforeIsTotal ==
  ASSUME insns \in Seq(Insn), NEW j \in 1 .. Len(insns), NEW k \in 1 .. Len(insns), j # k
  PROVE  j \in Before(k) \/ k \in Before(j)
<1>1. insns[j].addr \in Nat /\ insns[k].addr \in Nat
  BY InsnFacts
<1> QED
  BY <1>1 DEF Before

LEMMA BeforeIsLess ==
  ASSUME insns \in Seq(Insn), NEW j \in 1 .. Len(insns), NEW k \in Before(j)
  PROVE  Place(k) < Place(j)
<1>1. k \in 1 .. Len(insns)
  BY DEF Before
<1>2. Before(k) \subseteq Before(j)
  <2> SUFFICES ASSUME NEW m \in Before(k)
               PROVE  m \in Before(j)
    OBVIOUS
  <2>1. m \in 1 .. Len(insns)
    BY DEF Before
  <2>2. insns[m].addr \in Nat /\ insns[k].addr \in Nat /\ insns[j].addr \in Nat
    BY <1>1, <2>1, InsnFacts
  <2> QED
    BY <1>1, <2>1, <2>2 DEF Before
<1>3. k \notin Before(k)
  <2>1. insns[k].addr \in Nat
    BY <1>1, InsnFacts
  <2> QED
    BY <1>1, <2>1 DEF Before
<1>4. IsFiniteSet(Before(j)) /\ Place(j) \in Nat /\ Place(k) \in Nat
  BY <1>1, BeforeIsSmall DEF Places
<1>5. Place(k) <= Place(j) /\ (Place(j) = Place(k) => Before(j) = Before(k))
  BY <1>2, <1>4, FS_Subset DEF Place
<1> QED
  BY <1>3, <1>4, <1>5

LEMMA PlacesAreTaken ==
  ASSUME insns \in Seq(Insn)
  PROVE  \A p \in Places : \E j \in 1 .. Len(insns) : Place(j) = p
<1> DEFINE All == 1 .. Len(insns)
           f == [j \in All |-> Place(j)]
<1>1. f \in [All -> Places]
  BY BeforeIsSmall
<1>2. \A j, k \in All : f[j] = f[k] => j = k
  <2> SUFFICES ASSUME NEW j \in All, NEW k \in All, j # k
               PROVE  f[j] # f[k]
    OBVIOUS
  <2>1. CASE j \in Before(k)
    <3>1. Place(j) < Place(k)
      BY <2>1, BeforeIsLess
    <3>2. Place(j) \in Nat /\ Place(k) \in Nat
      BY BeforeIsSmall DEF Places
    <3> QED
      BY <3>1, <3>2
  <2>2. CASE k \in Before(j)
    <3>1. Place(k) < Place(j)
      BY <2>2, BeforeIsLess
    <3>2. Place(j) \in Nat /\ Place(k) \in Nat
      BY BeforeIsSmall DEF Places
    <3> QED
      BY <3>1, <3>2
  <2> QED
    BY <2>1, <2>2, BeforeIsTotal
<1> HIDE DEF f
<1>3. f \in Injection(All, Places)
  <2>1. DOMAIN f = All
    BY <1>1
  <2>2. IsInjective(f)
    BY <1>2, <2>1, Zenon DEF IsInjective
  <2> QED
    BY <1>1, <2>2, Zenon DEF Injection
<1>4. /\ IsFiniteSet(Places)
      /\ Cardinality(All) = Len(insns)
      /\ Cardinality(Places) = Len(insns)
  BY Counted DEF Places
<1>5. f \in Surjection(All, Places)
  BY <1>3, <1>4, FS_Injection
<1> QED
  BY <1>5 DEF Surjection, f

InOrder(s) == \A i, j \in 1 .. Len(s) : i < j => s[i].addr <= s[j].addr

LEMMA SortFacts ==
  ASSUME insns \in Seq(Insn)
  PROVE  /\ Sorted \in Seq(Insn)
         /\ Len(Sorted) = Len(insns)
         /\ InOrder(Sorted)
         /\ \A i \in 1 .. Len(insns) : \E j \in 1 .. Len(insns) : Sorted[i] = insns[j]
<1> DEFINE All == 1 .. Len(insns)
           C(i) == CHOOSE j \in All : Cardinality(Before(j)) = i - 1
<1>1. \A i \in All : C(i) \in All /\ Place(C(i)) = i - 1
  <2> TAKE i \in All
  <2>1. i - 1 \in Places
    BY DEF Places
  <2>2. \E j \in All : Cardinality(Before(j)) = i - 1
    BY <2>1, PlacesAreTaken DEF Place
  <2> QED
    BY <2>2 DEF Place
<1> HIDE DEF C
<1>2. Sorted = [i \in All |-> insns[C(i)]]
  BY DEF Sorted, C
<1>3. \A i \in All : insns[C(i)] \in Insn
  BY <1>1
<1>3a. \A i \in All : insns[C(i)].addr \in Nat
  BY <1>1, InsnFacts
<1>4. Sorted \in Seq(Insn) /\ Len(Sorted) = Len(insns)
  BY <1>2, <1>3
<1>5. ASSUME NEW i \in All, NEW j \in All, i < j
      PROVE  insns[C(i)].addr <= insns[C(j)].addr
  <2>1. C(i) # C(j)
    BY <1>1, <1>5
  <2>2. CASE C(i) \in Before(C(j))
    <3>1. \/ insns[C(i)].addr < insns[C(j)].addr
          \/ insns[C(i)].addr = insns[C(j)].addr /\ C(i) < C(j)
      BY <2>2, Zenon DEF Before
    <3> QED
      BY <3>1, <1>3a
  <2>3. CASE C(j) \in Before(C(i))
    <3>1. Place(C(j)) < Place(C(i))
      BY <2>3, <1>1, BeforeIsLess
    <3> QED
      BY <3>1, <1>1, <1>5
  <2> QED
    BY <1>1, <2>1, <2>2, <2>3, BeforeIsTotal
<1>6. InOrder(Sorted)
  BY <1>2, <1>4, <1>5 DEF InOrder
<1> QED
  BY <1>1, <1>2, <1>4, <1>6

-----------------------------------------------------------------------------
(* The invariant.                                                          *)

InsideCode == \A i \in 1 .. Len(insns) : insns[i].addr < globalEnd

InsnsSorted == stage \notin {"disassemble", "failed"} => InOrder(insns)

RangesKept ==
    IF RangesMade
    THEN ranges = [a \in {b \in DOMAIN funcs : RangeEnd(b) > b} |-> RangeEnd(a)]
    ELSE DOMAIN ranges = {}

TakenKept == \A a \in DOMAIN built : built[a].lifted = Lifted(a)

PipeInv ==
    /\ TypeOK /\ obj \in Objects
    /\ InsideCode /\ InsnsSorted /\ RangesKept /\ TakenKept

LEMMA PipeInit == Init => PipeInv
<1> SUFFICES ASSUME Init PROVE PipeInv
  OBVIOUS
<1>1. obj \in Objects /\ obj \in Object
  BY ObjectAssumption DEF Init, DetectInit
<1>2. insns = <<>> /\ globalEnd = 0 /\ at = 1 /\ stage = "disassemble"
  BY DEF Init, DetectInit
<1>3. DOMAIN funcs = {} /\ DOMAIN ranges = {} /\ DOMAIN built = {}
  BY DEF Init, DetectInit
<1>4. TypeOK
  BY <1>1, <1>2, <1>3 DEF TypeOK
<1> QED
  BY <1>1, <1>2, <1>3, <1>4 DEF PipeInv, InsideCode, InsnsSorted, RangesKept, RangesMade, TakenKept

\* What a task takes is told by instructions and ranges.
LEMMA LiftedStays ==
  ASSUME UNCHANGED <<insns, ranges>>
  PROVE  \A a : Lifted(a)' = Lifted(a) /\ LiftedCalls(a)' = LiftedCalls(a)
<1> TAKE a
<1>1. Body(a)' = Body(a)
  BY DEF Body, IndexAt
<1>2. Leaving(a)' = Leaving(a)
  BY <1>1 DEF Leaving
<1>3. Leaders(a)' = Leaders(a)
  BY <1>2 DEF Leaders
<1>4. \A i : Opens(a, i)' <=> Opens(a, i)
  BY <1>1, <1>3 DEF Opens
<1>5. \A i : BlockLast(a, i)' = BlockLast(a, i)
  BY <1>1, <1>2, <1>4 DEF BlockLast
<1>6. Lifted(a)' = Lifted(a)
  BY <1>1, <1>4, <1>5 DEF Lifted
<1> QED
  BY <1>6 DEF LiftedCalls

\* Until the ranges are made nothing depends on what detection changes but
\* shapes, places below the end, and the order.
LEMMA Detecting ==
  ASSUME PipeInv, ~RangesMade, ~RangesMade', UNCHANGED <<obj, pipeVars>>,
         TypeOK', InsideCode', InsnsSorted'
  PROVE  PipeInv'
<1>1. DOMAIN ranges = {} /\ DOMAIN ranges' = {}
  BY DEF PipeInv, RangesKept, pipeVars
<1>2. DOMAIN built' = {}
  BY <1>1 DEF PipeInv, TypeOK, pipeVars
<1>3. RangesKept' /\ TakenKept'
  BY <1>1, <1>2 DEF RangesKept, TakenKept
<1>4. obj' \in Objects
  BY DEF PipeInv
<1> QED
  BY <1>3, <1>4 DEF PipeInv

LEMMA DisassembleKeeps ==
  ASSUME PipeInv, DisassembleSection, UNCHANGED pipeVars
  PROVE  PipeInv'
<1> DEFINE new == obj.sections[at].insns
           end == IF new = <<>> THEN 0 ELSE EndOf(new[Len(new)])
<1>1. at \in 1 .. Len(obj.sections) /\ obj \in Object /\ obj \in Objects
  BY DEF PipeInv, TypeOK, DisassembleSection
<1>2. obj.sections \in Seq(Section) /\ obj.sections[at] \in Section
  BY <1>1 DEF Object
<1>3. new \in Seq(Insn)
  BY <1>2 DEF Section
<1>4. LinearSweep(new)
  BY <1>1, ObjectAssumption
<1> HIDE DEF new
<1>5. end \in Nat /\ \A i \in 1 .. Len(new) : new[i].addr < end
  <2>1. \A i \in 1 .. Len(new) : /\ new[i].addr \in Nat /\ new[i].size \in Nat
                                 /\ new[i].size > 0
    BY <1>3, InsnFacts
  <2>2. CASE new = <<>>
    BY <2>2
  <2>3. CASE new # <<>>
    <3>1. Len(new) \in 1 .. Len(new)
      BY <2>3, <1>3
    <3>2. end \in Nat
      BY <2>1, <2>3, <3>1 DEF EndOf
    <3>3. ASSUME NEW i \in 1 .. Len(new) PROVE new[i].addr < end
      <4>1. CASE i = Len(new)
        BY <2>1, <2>3, <3>1, <4>1 DEF EndOf
      <4>2. CASE i < Len(new)
        <5>1. new[i].addr + new[i].size <= new[Len(new)].addr
          BY <1>4, <3>1, <4>2 DEF LinearSweep
        <5> QED
          BY <2>1, <2>3, <3>1, <5>1 DEF EndOf
      <4> QED
        BY <4>1, <4>2, <1>3
    <3> QED
      BY <3>2, <3>3
  <2> QED
    BY <2>2, <2>3
<1> HIDE DEF end
<1>6. /\ insns' = insns \o new
      /\ globalEnd' = IF end > globalEnd THEN end ELSE globalEnd
      /\ at' = at + 1 /\ UNCHANGED <<obj, stage, funcs>> /\ stage = "disassemble"
  BY DEF DisassembleSection, new, end
<1>7. insns \in Seq(Insn) /\ globalEnd \in Nat /\ at \in Nat \ {0}
  BY DEF PipeInv, TypeOK
<1>8. insns' \in Seq(Insn) /\ globalEnd' \in Nat /\ globalEnd' >= end /\ globalEnd' >= globalEnd
  BY <1>3, <1>5, <1>6, <1>7
<1>9. InsideCode'
  <2> SUFFICES ASSUME NEW i \in 1 .. Len(insns')
               PROVE  insns'[i].addr < globalEnd'
    BY DEF InsideCode
  <2>1. CASE i <= Len(insns)
    <3>1. i \in 1 .. Len(insns) /\ insns'[i] = insns[i]
      BY <2>1, <1>3, <1>6, <1>7
    <3>2. insns[i].addr < globalEnd /\ insns[i].addr \in Nat
      BY <3>1, <1>7, InsnFacts DEF PipeInv, InsideCode
    <3> QED
      BY <3>1, <3>2, <1>7, <1>8
  <2>2. CASE i > Len(insns)
    <3>1. i - Len(insns) \in 1 .. Len(new) /\ insns'[i] = new[i - Len(insns)]
      BY <2>2, <1>3, <1>6, <1>7
    <3>2. insns'[i].addr < end /\ insns'[i].addr \in Nat
      BY <3>1, <1>3, <1>5, InsnFacts
    <3> QED
      BY <3>2, <1>5, <1>8
  <2> QED
    BY <2>1, <2>2, <1>6, <1>7
<1>10. TypeOK'
  BY <1>6, <1>7, <1>8 DEF PipeInv, TypeOK, pipeVars
<1>11. InsnsSorted'
  BY <1>6 DEF InsnsSorted
<1> QED
  BY <1>6, <1>9, <1>10, <1>11, Detecting DEF RangesMade

LEMMA SortKeeps ==
  ASSUME PipeInv, SortInsns, UNCHANGED pipeVars
  PROVE  PipeInv'
<1>1. /\ insns' = Sorted /\ stage' = "entry" /\ stage = "disassemble"
      /\ UNCHANGED <<obj, at, globalEnd, funcs>>
  BY DEF SortInsns
<1>2. insns \in Seq(Insn)
  BY DEF PipeInv, TypeOK
<1>3. insns' \in Seq(Insn) /\ InOrder(insns')
  BY <1>1, <1>2, SortFacts
<1>4. InsideCode'
  <2> SUFFICES ASSUME NEW i \in 1 .. Len(insns')
               PROVE  insns'[i].addr < globalEnd'
    BY DEF InsideCode
  <2>1. i \in 1 .. Len(insns)
    BY <1>1, <1>2, SortFacts
  <2>2. PICK j \in 1 .. Len(insns) : Sorted[i] = insns[j]
    BY <1>2, <2>1, SortFacts
  <2> QED
    BY <1>1, <2>2 DEF PipeInv, InsideCode
<1>5. TypeOK'
  BY <1>1, <1>3 DEF PipeInv, TypeOK, pipeVars
<1>6. InsnsSorted'
  BY <1>3 DEF InsnsSorted
<1> QED
  BY <1>1, <1>4, <1>5, <1>6, Detecting DEF RangesMade

\* The stages that only add entry points.
LEMMA EntriesKeep ==
  ASSUME PipeInv, UNCHANGED <<obj, insns, globalEnd, pipeVars>>,
         stage \notin {"disassemble", "failed"}, ~RangesMade,
         stage' \in {"entry", "symbols", "calls", "ranges"},
         at' \in Nat \ {0}, DOMAIN funcs' \subseteq Nat
  PROVE  PipeInv'
<1>1. TypeOK'
  <2>1. DOMAIN ranges' = {} /\ DOMAIN built' = {}
    BY DEF PipeInv, RangesKept, TypeOK, pipeVars
  <2> QED
    BY <2>1 DEF PipeInv, TypeOK
<1>2. InsideCode' /\ InsnsSorted'
  BY DEF PipeInv, InsideCode, InsnsSorted, InOrder
<1>3. ~RangesMade'
  BY DEF RangesMade
<1> QED
  BY <1>1, <1>2, <1>3, Detecting

LEMMA DetectKeeps ==
  ASSUME PipeInv, DetectNext, UNCHANGED pipeVars
  PROVE  PipeInv'
<1>1. obj \in Object /\ insns \in Seq(Insn) /\ at \in Nat \ {0} /\ DOMAIN funcs \subseteq Nat
  BY DEF PipeInv, TypeOK
<1>2. CASE DisassembleSection
  BY <1>2, DisassembleKeeps
<1>3. CASE FindNoCode
  <2>1. UNCHANGED <<obj, at, insns, globalEnd, funcs>> /\ stage' = "failed" /\ stage = "disassemble"
    BY <1>3 DEF FindNoCode
  <2>2. TypeOK' /\ InsideCode' /\ InsnsSorted'
    BY <2>1 DEF PipeInv, TypeOK, InsideCode, InsnsSorted, pipeVars
  <2> QED
    BY <2>1, <2>2, Detecting DEF RangesMade
<1>4. CASE SortInsns
  BY <1>4, SortKeeps
<1>5. CASE AddEntryPoint
  <2>1. obj.entry \in Nat
    BY <1>1 DEF Object
  <2>2. DOMAIN funcs' \subseteq Nat
    BY <1>1, <1>5, <2>1 DEF AddEntryPoint, Inserted
  <2> QED
    BY <1>5, <2>2, EntriesKeep DEF AddEntryPoint, RangesMade
<1>6. CASE ReadSymbol
  <2>1. obj.symbols[at] \in Symbol
    BY <1>1, <1>6 DEF ReadSymbol, Object
  <2>2. obj.symbols[at].addr \in Nat
    BY <2>1 DEF Symbol
  <2>3. DOMAIN funcs' \subseteq Nat
    BY <1>1, <1>6, <2>2 DEF ReadSymbol, SymbolIn, Inserted
  <2>4. at' \in Nat \ {0}
    BY <1>1, <1>6 DEF ReadSymbol
  <2> QED
    BY <1>6, <2>3, <2>4, EntriesKeep DEF ReadSymbol, RangesMade
<1>7. CASE SymbolsRead
  BY <1>1, <1>7, EntriesKeep DEF SymbolsRead, RangesMade
<1>8. CASE ScanCall
  <2>1. insns[at] \in Insn
    BY <1>1, <1>8 DEF ScanCall
  <2>2. insns[at].val \in Nat
    BY <2>1 DEF Insn
  <2>3. DOMAIN funcs' \subseteq Nat
    BY <1>1, <1>8, <2>2 DEF ScanCall, Called, EntryOr
  <2>4. at' \in Nat \ {0}
    BY <1>1, <1>8 DEF ScanCall
  <2> QED
    BY <1>8, <2>3, <2>4, EntriesKeep DEF ScanCall, RangesMade
<1>9. CASE ScanJumps
  BY <1>1, <1>9, EntriesKeep DEF ScanJumps, RangesMade
<1> QED
  BY <1>2, <1>3, <1>4, <1>5, <1>6, <1>7, <1>8, <1>9 DEF DetectNext

LEMMA MakeRangesKeeps ==
  ASSUME PipeInv, MakeRanges
  PROVE  PipeInv'
<1>1. /\ stage = "ranges" /\ stage' = "build"
      /\ ranges' = [a \in {b \in DOMAIN funcs : RangeEnd(b) > b} |-> RangeEnd(a)]
      /\ UNCHANGED <<obj, at, insns, globalEnd, funcs, built, graph>>
  BY DEF MakeRanges
<1>2. DOMAIN ranges = {} /\ DOMAIN built = {}
  BY <1>1 DEF PipeInv, RangesKept, RangesMade, TypeOK
<1>3. TypeOK'
  BY <1>1, <1>2 DEF PipeInv, TypeOK
<1>4. RangesKept'
  BY <1>1 DEF RangesKept, RangesMade, RangeEnd, Following
<1>5. InsideCode' /\ InsnsSorted'
  BY <1>1 DEF PipeInv, InsideCode, InsnsSorted, InOrder
<1>6. TakenKept'
  BY <1>1, <1>2 DEF TakenKept
<1> QED
  BY <1>1, <1>3, <1>4, <1>5, <1>6 DEF PipeInv

LEMMA BuildKeeps ==
  ASSUME PipeInv, NEW a \in DOMAIN ranges, BuildFunction(a)
  PROVE  PipeInv'
<1>1. UNCHANGED <<obj, stage, at, insns, globalEnd, funcs, ranges, graph>>
  BY DEF BuildFunction
<1>2. \A b : Lifted(b)' = Lifted(b)
  BY <1>1, LiftedStays
<1>3. /\ DOMAIN built' = DOMAIN built \cup {a}
      /\ built'[a].lifted = Lifted(a)
      /\ \A b \in DOMAIN built : b # a => built'[b] = built[b]
  BY DEF BuildFunction
<1>4. TakenKept'
  BY <1>2, <1>3 DEF PipeInv, TakenKept
<1>5. TypeOK'
  BY <1>1, <1>3 DEF PipeInv, TypeOK
<1>6. RangesKept'
  BY <1>1 DEF PipeInv, RangesKept, RangesMade, RangeEnd, Following
<1>7. InsideCode' /\ InsnsSorted'
  BY <1>1 DEF PipeInv, InsideCode, InsnsSorted, InOrder
<1> QED
  BY <1>1, <1>4, <1>5, <1>6, <1>7 DEF PipeInv

LEMMA OthersKeep ==
  ASSUME PipeInv, UNCHANGED <<obj, at, insns, globalEnd, funcs, ranges, built>>,
         stage' = stage \/ (RangesMade /\ stage' \in {"build", "graph", "done"})
  PROVE  PipeInv'
<1>1. TypeOK'
  BY DEF PipeInv, TypeOK, RangesMade
<1>2. RangesKept'
  BY DEF PipeInv, RangesKept, RangesMade, RangeEnd, Following
<1>3. InsideCode' /\ InsnsSorted'
  BY DEF PipeInv, InsideCode, InsnsSorted, InOrder, RangesMade
<1>4. TakenKept'
  <2>1. \A a : Lifted(a)' = Lifted(a)
    BY LiftedStays
  <2> QED
    BY <2>1 DEF PipeInv, TakenKept
<1> QED
  BY <1>1, <1>2, <1>3, <1>4 DEF PipeInv

LEMMA PipeStep ==
  ASSUME PipeInv, [Next]_vars
  PROVE  PipeInv'
<1>1. CASE DetectNext /\ UNCHANGED pipeVars
  BY <1>1, DetectKeeps
<1>2. CASE MakeRanges
  BY <1>2, MakeRangesKeeps
<1>3. ASSUME NEW a \in DOMAIN ranges, BuildFunction(a)
      PROVE  PipeInv'
  BY <1>3, BuildKeeps
<1>4. CASE FunctionsBuilt
  BY <1>4, OthersKeep DEF FunctionsBuilt, RangesMade, pipeVars
<1>5. CASE BuildCallGraph
  BY <1>5, OthersKeep DEF BuildCallGraph, RangesMade
<1>6. CASE UNCHANGED vars
  BY <1>6, OthersKeep DEF vars, detectVars, pipeVars
<1> QED
  BY <1>1, <1>2, <1>3, <1>4, <1>5, <1>6 DEF Next, Returned

LEMMA PipeAlways == Spec => []PipeInv
BY PipeInit, PipeStep, PTL DEF Spec

-----------------------------------------------------------------------------
(* One owner: the greatest entry point at or below an address has it in    *)
(* its range, for the next one is above the address; of two ranges the     *)
(* lower ends where the higher begins, or before.                          *)

LEMMA EndFacts ==
  ASSUME TypeOK, NEW a \in DOMAIN funcs
  PROVE  /\ RangeEnd(a) \in Nat
         /\ \A b \in Following(a) : RangeEnd(a) <= b
         /\ Following(a) # {} => RangeEnd(a) \in Following(a)
         /\ Following(a) = {} => RangeEnd(a) = globalEnd
<1>1. Following(a) \subseteq Nat /\ globalEnd \in Nat
  BY DEF TypeOK, Following
<1>2. CASE Following(a) = {}
  BY <1>1, <1>2 DEF RangeEnd
<1>3. CASE Following(a) # {}
  <2>1. \E m \in Following(a) : \A n \in Following(a) : m <= n
    BY <1>1, <1>3, LeastOf
  <2>2. /\ Least(Following(a)) \in Following(a)
        /\ \A n \in Following(a) : Least(Following(a)) <= n
    BY <2>1 DEF Least
  <2> QED
    BY <1>1, <1>3, <2>2 DEF RangeEnd
<1> QED
  BY <1>2, <1>3

LEMMA RangesApart ==
  ASSUME PipeInv, RangesMade, NEW x \in Nat,
         NEW a \in DOMAIN ranges, NEW b \in DOMAIN ranges, Holds(a, x), Holds(b, x)
  PROVE  a = b
<1>1. ranges = [c \in {d \in DOMAIN funcs : RangeEnd(d) > d} |-> RangeEnd(c)]
  BY DEF PipeInv, RangesKept
<1>2. ASSUME NEW c \in DOMAIN ranges, NEW d \in DOMAIN ranges, c < d
      PROVE  ranges[c] <= d
  <2>1. c \in DOMAIN funcs /\ d \in Following(c) /\ ranges[c] = RangeEnd(c)
    BY <1>1, <1>2 DEF Following
  <2> QED
    BY <2>1, EndFacts DEF PipeInv
<1>3. a \in DOMAIN funcs /\ b \in DOMAIN funcs /\ ranges[a] = RangeEnd(a) /\ ranges[b] = RangeEnd(b)
  BY <1>1
<1>4. a \in Nat /\ b \in Nat /\ ranges[a] \in Nat /\ ranges[b] \in Nat
  BY <1>3, EndFacts DEF PipeInv, TypeOK
<1> QED
  BY <1>2, <1>4 DEF Holds

LEMMA RangesCover ==
  ASSUME PipeInv, RangesMade, NEW x \in Nat, x < globalEnd,
         NEW b \in DOMAIN funcs, b <= x
  PROVE  \E a \in DOMAIN ranges : Holds(a, x)
<1> DEFINE S == {a \in DOMAIN funcs : a <= x}
<1>1. S \subseteq Nat /\ S # {}
  BY DEF PipeInv, TypeOK
<1>2. PICK a \in S : \A n \in S : n <= a
  BY <1>1, GreatestOf
<1>3. a \in DOMAIN funcs /\ a \in Nat /\ a <= x /\ globalEnd \in Nat
  BY <1>1, <1>2 DEF PipeInv, TypeOK
<1>4. RangeEnd(a) > x
  <2>1. CASE Following(a) = {}
    BY <1>3, <2>1, EndFacts DEF PipeInv
  <2>2. CASE Following(a) # {}
    <3>1. RangeEnd(a) \in DOMAIN funcs /\ RangeEnd(a) > a /\ RangeEnd(a) \in Nat
      BY <1>3, <2>2, EndFacts DEF PipeInv, Following
    <3>2. RangeEnd(a) \notin S
      BY <1>2, <1>3, <3>1
    <3> QED
      BY <3>1, <3>2
  <2> QED
    BY <2>1, <2>2
<1>5. RangeEnd(a) \in Nat
  BY <1>3, EndFacts DEF PipeInv
<1>6. a \in DOMAIN ranges /\ ranges[a] = RangeEnd(a)
  BY <1>3, <1>4, <1>5 DEF PipeInv, RangesKept
<1> QED
  BY <1>3, <1>4, <1>5, <1>6 DEF Holds

\* Every instruction from the first entry point on lies in the range of one
\* function and of no other (lib.rs:110-124).
THEOREM EveryInstructionHasOneOwner == Spec => []OneOwner
<1>1. ASSUME PipeInv PROVE OneOwner
  <2> SUFFICES ASSUME RangesMade, NEW i \in 1 .. Len(insns),
                      NEW b \in DOMAIN funcs, b <= insns[i].addr
               PROVE  \E a \in DOMAIN ranges :
                        /\ Holds(a, insns[i].addr)
                        /\ \A c \in DOMAIN ranges : Holds(c, insns[i].addr) => c = a
    BY DEF OneOwner
  <2>1. insns[i].addr \in Nat /\ insns[i].addr < globalEnd
    BY <1>1, InsnFacts DEF PipeInv, TypeOK, InsideCode
  <2>2. PICK a \in DOMAIN ranges : Holds(a, insns[i].addr)
    BY <1>1, <2>1, RangesCover
  <2>3. \A c \in DOMAIN ranges : Holds(c, insns[i].addr) => c = a
    BY <1>1, <2>1, <2>2, RangesApart
  <2> QED
    BY <2>2, <2>3
<1> QED
  BY <1>1, PipeAlways, PTL

-----------------------------------------------------------------------------
(* What a task takes: the list is sorted, so the instructions of a block   *)
(* lie between its opener and its end; and one of the range that is in no  *)
(* block stands behind an instruction that leaves, with no leader between. *)

LEMMA LastAtAddress ==
  ASSUME insns \in Seq(Insn), NEW a, \E i \in 1 .. Len(insns) : insns[i].addr = a
  PROVE  /\ IndexAt(a) \in 1 .. Len(insns)
         /\ insns[IndexAt(a)].addr = a
         /\ \A j \in 1 .. Len(insns) : insns[j].addr = a => j <= IndexAt(a)
<1> DEFINE S == {i \in 1 .. Len(insns) : insns[i].addr = a}
<1>1. S \subseteq Nat /\ S # {} /\ Len(insns) \in Nat /\ \A n \in S : n <= Len(insns)
  OBVIOUS
<1>2. \E m \in S : \A n \in S : n <= m
  BY <1>1, GreatestOf
<1>3. \E i \in 1 .. Len(insns) :
         /\ insns[i].addr = a
         /\ \A j \in 1 .. Len(insns) : insns[j].addr = a => j <= i
  BY <1>2
<1> QED
  BY <1>3 DEF IndexAt

LEMMA BodyFacts ==
  ASSUME insns \in Seq(Insn), InOrder(insns), NEW a \in Nat, ranges[a] \in Nat, NEW i \in Body(a)
  PROVE  /\ i \in 1 .. Len(insns) /\ Holds(a, insns[i].addr)
         /\ IndexAt(a) \in Body(a) /\ insns[IndexAt(a)].addr = a
         /\ \A k \in IndexAt(a) .. i : k \in Body(a)
         /\ \A k \in IndexAt(a) + 1 .. Len(insns) : insns[k].addr # a
<1>1. PICK k : k = IndexAt(a)
  OBVIOUS
<1>2. /\ \E j \in 1 .. Len(insns) : insns[j].addr = a
      /\ Body(a) = {j \in k .. Len(insns) : insns[j].addr < ranges[a]}
  BY <1>1 DEF Body
<1>3. /\ k \in 1 .. Len(insns) /\ insns[k].addr = a
      /\ \A j \in 1 .. Len(insns) : insns[j].addr = a => j <= k
  BY <1>1, <1>2, LastAtAddress
<1>4. i \in k .. Len(insns) /\ insns[i].addr < ranges[a] /\ i \in 1 .. Len(insns)
  BY <1>2, <1>3
<1>5. \A j \in 1 .. Len(insns) : insns[j].addr \in Nat
  BY InsnFacts
<1>6. \A j \in k .. i : a <= insns[j].addr /\ insns[j].addr <= insns[i].addr
  BY <1>3, <1>4, <1>5 DEF InOrder
<1>7. \A j \in k .. i : j \in Body(a)
  <2> TAKE j \in k .. i
  <2>1. j \in 1 .. Len(insns) /\ insns[j].addr \in Nat /\ insns[i].addr \in Nat
    BY <1>3, <1>4, <1>5
  <2>2. insns[j].addr < ranges[a]
    BY <1>4, <1>6, <2>1
  <2> QED
    BY <1>2, <1>3, <1>4, <2>2
<1> QED
  BY <1>1, <1>3, <1>4, <1>6, <1>7 DEF Holds

LEMMA LastFacts ==
  ASSUME insns \in Seq(Insn), InOrder(insns), NEW a \in Nat, ranges[a] \in Nat, NEW o \in Body(a)
  PROVE  /\ BlockLast(a, o) \in Body(a) /\ BlockLast(a, o) >= o
         /\ \/ BlockLast(a, o) \in Leaving(a)
            \/ BlockLast(a, o) + 1 \notin Body(a)
            \/ Opens(a, BlockLast(a, o) + 1)
<1> DEFINE T == {k \in Body(a) :
                   k >= o /\ (k \in Leaving(a) \/ k + 1 \notin Body(a) \/ Opens(a, k + 1))}
<1>1. Body(a) \subseteq 1 .. Len(insns)
  BY BodyFacts
<1>2. PICK m \in {k \in Body(a) : k >= o} : \A k \in {j \in Body(a) : j >= o} : k <= m
  <2>1. PICK S : S = {k \in Body(a) : k >= o}
    OBVIOUS
  <2>2. o \in 1 .. Len(insns) /\ o \in S
    BY <1>1, <2>1
  <2>3. S \subseteq Nat /\ Len(insns) \in Nat /\ \A k \in S : k <= Len(insns)
    BY <1>1, <2>1
  <2>4. \E m \in S : \A k \in S : k <= m
    BY <2>2, <2>3, GreatestOf
  <2> QED
    BY <2>1, <2>4
<1>3. m \in T
  BY <1>1, <1>2
<1>4. \E k \in T : \A j \in T : k <= j
  <2>1. T \subseteq Nat
    BY <1>1
  <2> QED
    BY <1>3, <2>1, LeastOf
<1>5. BlockLast(a, o) \in T
  BY <1>4 DEF BlockLast, Least
<1> QED
  BY <1>5

\* An instruction of the slice is lifted or skipped.
LEMMA LiftedOrSkipped ==
  ASSUME insns \in Seq(Insn), InOrder(insns), NEW a \in Nat, ranges[a] \in Nat, NEW i \in Body(a),
         i \notin Lifted(a)
  PROVE  Skipped(a, i)
<1>1. /\ Body(a) \subseteq 1 .. Len(insns) /\ IndexAt(a) \in Body(a)
      /\ insns[IndexAt(a)].addr = a /\ \A k \in IndexAt(a) .. i : k \in Body(a)
      /\ \A k \in Body(a) : Holds(a, insns[k].addr) /\ insns[k].addr \in Nat /\ insns[k].size \in Nat
  BY BodyFacts, InsnFacts
<1>2. IndexAt(a) <= i
  BY DEF Body
<1>3. PICK o \in {k \in Body(a) : k <= i /\ Opens(a, k)} :
         \A k \in {j \in Body(a) : j <= i /\ Opens(a, j)} : k <= o
  <2>1. IndexAt(a) \in {k \in Body(a) : k <= i /\ Opens(a, k)}
    BY <1>1, <1>2 DEF Opens, Leaders
  <2>2. {k \in Body(a) : k <= i /\ Opens(a, k)} \subseteq Nat /\ i \in Nat
    BY <1>1
  <2> QED
    BY <2>1, <2>2, GreatestOf
<1>4. PICK l : l = BlockLast(a, o)
  OBVIOUS
<1>5. /\ l \in Body(a) /\ l >= o
      /\ l \in Leaving(a) \/ l + 1 \notin Body(a) \/ Opens(a, l + 1)
  BY <1>3, <1>4, LastFacts
<1>6. l < i
  <2> SUFFICES ASSUME i <= l PROVE FALSE
    BY <1>1, <1>5
  <2>1. insns[o].addr <= insns[i].addr /\ insns[i].addr <= insns[l].addr
    BY <1>1, <1>3, <1>5 DEF InOrder
  <2>2. insns[i].addr < EndOf(insns[l])
    <3>1. insns[l].addr \in Nat /\ insns[l].size \in Nat \ {0} /\ insns[i].addr \in Nat
      BY <1>1, <1>5, InsnFacts
    <3> QED
      BY <2>1, <3>1 DEF EndOf
  <2> QED
    BY <1>1, <1>3, <1>4, <2>1, <2>2 DEF Lifted
<1>7. \A k \in l + 1 .. i : k \in Body(a) /\ ~Opens(a, k)
  <2> TAKE k \in l + 1 .. i
  <2>1. IndexAt(a) <= l
    BY <1>5 DEF Body
  <2>2. IndexAt(a) \in Nat /\ l \in Nat /\ i \in Nat /\ o \in Nat
    BY <1>1, <1>3, <1>5
  <2>3. k \in IndexAt(a) .. i /\ k <= i /\ k > o
    BY <1>5, <2>1, <2>2
  <2> QED
    BY <1>1, <1>3, <2>2, <2>3
<1>8. l \in Leaving(a)
  BY <1>1, <1>5, <1>6, <1>7
<1>9. ASSUME NEW k \in l + 1 .. i, LedTo(a, k) PROVE FALSE
  <2>1. k \in Body(a) /\ insns[k].addr \notin Leaders(a)
    BY <1>7 DEF Opens
  <2>2. a <= insns[k].addr /\ insns[k].addr < ranges[a]
    BY <1>1, <2>1 DEF Holds
  <2>3. insns[k].addr \in Leaders(a)
    BY <1>9, <2>2 DEF LedTo, Leaders
  <2> QED
    BY <2>1, <2>3
<1> QED
  BY <1>6, <1>8, <1>9 DEF Skipped

(***************************************************************************)
(* For every file, sections at one address included: a task lifts what is  *)
(* in its range and what an instruction of it covers, no more, and leaves  *)
(* out only what it skips (lib.rs:103, cfg.rs:52-66, lift/lib.rs:39-43).   *)
(***************************************************************************)
THEOREM TasksLiftTheirRanges == Spec => []RangesAreLifted
<1>1. ASSUME PipeInv, NEW a \in DOMAIN built
      PROVE  /\ built[a].lifted = Lifted(a) /\ a \in Nat /\ ranges[a] \in Nat
             /\ insns \in Seq(Insn) /\ InOrder(insns)
  <2>1. built[a].lifted = Lifted(a) /\ a \in DOMAIN ranges /\ insns \in Seq(Insn) /\ TypeOK
    BY <1>1 DEF PipeInv, TakenKept, TypeOK
  <2>2. RangesMade
    BY <1>1, <2>1 DEF PipeInv, RangesKept
  <2>3. InOrder(insns)
    BY <1>1, <2>2 DEF PipeInv, InsnsSorted, RangesMade
  <2>4. a \in Nat /\ ranges[a] \in Nat
    BY <1>1, <2>1, <2>2, EndFacts DEF PipeInv, TypeOK, RangesKept
  <2> QED
    BY <2>1, <2>3, <2>4
<1>2. ASSUME PipeInv, NEW a \in DOMAIN built, NEW i \in built[a].lifted
      PROVE  /\ a <= insns[i].addr
             /\ \/ insns[i].addr < ranges[a]
                \/ \E k \in 1 .. Len(insns) :
                     Holds(a, insns[k].addr) /\ insns[i].addr < EndOf(insns[k])
  <2>1. PICK o \in Body(a) : /\ i \in 1 .. Len(insns)
                             /\ insns[o].addr <= insns[i].addr
                             /\ insns[i].addr < EndOf(insns[BlockLast(a, o)])
    BY <1>1, <1>2 DEF Lifted
  <2>2. /\ o \in 1 .. Len(insns) /\ Holds(a, insns[o].addr)
        /\ BlockLast(a, o) \in 1 .. Len(insns) /\ Holds(a, insns[BlockLast(a, o)].addr)
    BY <1>1, <1>2, LastFacts, BodyFacts
  <2>3. insns[i].addr \in Nat /\ insns[o].addr \in Nat
    BY <1>1, <1>2, <2>1, <2>2, InsnFacts
  <2> QED
    BY <1>1, <1>2, <2>1, <2>2, <2>3 DEF Holds
<1>3. ASSUME PipeInv, NEW a \in DOMAIN built, NEW i \in 1 .. Len(insns), NEW e \in 1 .. Len(insns),
             insns[e].addr = a, Holds(a, insns[i].addr)
      PROVE  i \in built[a].lifted \/ Skipped(a, i)
  <2>1. PICK k : k = IndexAt(a)
    OBVIOUS
  <2>2. /\ k \in 1 .. Len(insns) /\ insns[k].addr = a
        /\ Body(a) = {j \in k .. Len(insns) : insns[j].addr < ranges[a]}
    BY <1>1, <1>3, <2>1, LastAtAddress DEF Body
  <2>3. insns[i].addr \in Nat /\ insns[k].size \in Nat \ {0}
    BY <1>1, <1>3, <2>2, InsnFacts
  <2>4. k \in Body(a)
    BY <1>1, <1>3, <2>2, <2>3 DEF Holds
  <2>5. CASE i >= k
    <3>1. i \in Body(a)
      BY <1>3, <2>2, <2>5 DEF Holds
    <3> QED
      BY <1>1, <1>3, <3>1, LiftedOrSkipped
  <2>6. CASE i < k
    <3>1. insns[i].addr = a
      <4>1. insns[i].addr <= a
        BY <1>1, <1>3, <2>2, <2>6 DEF InOrder
      <4> QED
        BY <1>1, <1>3, <2>3, <4>1 DEF Holds
    <3>2. PICK l : l = BlockLast(a, k)
      OBVIOUS
    <3>3. l \in Body(a) /\ l \in 1 .. Len(insns) /\ Holds(a, insns[l].addr)
      BY <1>1, <1>3, <2>4, <3>2, LastFacts, BodyFacts
    <3>4. insns[l].addr \in Nat /\ insns[l].size \in Nat \ {0}
      BY <1>1, <1>3, <3>3, InsnFacts
    <3>5. insns[i].addr < EndOf(insns[l])
      BY <1>1, <1>3, <3>1, <3>3, <3>4 DEF Holds, EndOf
    <3>6. Opens(a, k)
      BY <2>2, <2>4 DEF Opens, Leaders
    <3> QED
      BY <1>1, <1>3, <2>2, <2>3, <2>4, <3>1, <3>2, <3>5, <3>6 DEF Lifted
  <2> QED
    BY <2>2, <2>5, <2>6
<1>4. PipeInv => RangesAreLifted
  BY <1>2, <1>3 DEF RangesAreLifted
<1> QED
  BY <1>4, PipeAlways, PTL

-----------------------------------------------------------------------------
(* Calls and functions.  Detection has gone past every call, so that there *)
(* is an entry point at its target; below the end of the code an entry     *)
(* point has a range, and so a task; and a task gives its calls the names  *)
(* the call graph looks for.                                               *)

Found(j) ==
    insns[j].does = "call" /\ HasTarget(insns[j]) /\ InCode(insns[j].val)
        => insns[j].val \in DOMAIN funcs

Scanned ==
    /\ stage = "calls" => \A j \in 1 .. Len(insns) : j < at => Found(j)
    /\ stage = "ranges" \/ RangesMade => \A j \in 1 .. Len(insns) : Found(j)

\* There are finitely many entry points, so one is the last.
Bounded == \E m \in Nat : \A a \in DOMAIN funcs : a <= m

\* What the task of a function leaves.
Built(a) ==
    /\ built[a].name = funcs[a] /\ built[a].lifted = Lifted(a)
    /\ built[a].kept \subseteq LiftedCalls(a)
    /\ built[a].calls = {Target(insns[i].val) : i \in built[a].kept}

AllBuilt == \A a \in DOMAIN built : Built(a)

GraphMade ==
    /\ stage \in {"graph", "done"} => DOMAIN built = DOMAIN ranges
    /\ stage = "done" =>
        graph = [n \in {built[a].name : a \in DOMAIN built} |-> Callees(LastOf(n))]

MeetInv == PipeInv /\ Scanned /\ Bounded /\ AllBuilt /\ GraphMade

LEMMA BoundedWith ==
  ASSUME Bounded, NEW a \in Nat, DOMAIN funcs \subseteq Nat, DOMAIN funcs' \subseteq DOMAIN funcs \cup {a}
  PROVE  Bounded'
<1>1. PICK m \in Nat : \A b \in DOMAIN funcs : b <= m
  BY DEF Bounded
<1>2. m + a \in Nat /\ \A b \in DOMAIN funcs' : b <= m + a
  BY <1>1
<1> QED
  BY <1>2 DEF Bounded

LEMMA MeetInit == Init => MeetInv
<1> SUFFICES ASSUME Init PROVE MeetInv
  OBVIOUS
<1>1. DOMAIN funcs = {} /\ DOMAIN built = {} /\ stage = "disassemble"
  BY DEF Init, DetectInit
<1>2. Bounded
  <2>1. 0 \in Nat /\ \A a \in DOMAIN funcs : a <= 0
    BY <1>1
  <2> QED
    BY <2>1 DEF Bounded
<1> QED
  BY <1>1, <1>2, PipeInit DEF MeetInv, Scanned, RangesMade, AllBuilt, GraphMade

\* Up to the ranges no task has ended and there is no graph.
LEMMA DetectMeets ==
  ASSUME MeetInv, DetectNext, UNCHANGED pipeVars
  PROVE  Scanned' /\ Bounded' /\ AllBuilt' /\ GraphMade'
<1>1. /\ obj \in Object /\ insns \in Seq(Insn) /\ at \in Nat \ {0} /\ DOMAIN funcs \subseteq Nat
      /\ Scanned /\ Bounded
  BY DEF MeetInv, PipeInv, TypeOK
<1>2. stage \notin {"build", "graph", "done"} /\ stage' \notin {"build", "graph", "done"}
  BY DEF DetectNext, DisassembleSection, FindNoCode, SortInsns, AddEntryPoint, ReadSymbol,
     SymbolsRead, ScanCall, ScanJumps
<1>3. AllBuilt' /\ GraphMade'
  <2>1. DOMAIN built' = {}
    BY <1>2 DEF MeetInv, PipeInv, RangesKept, RangesMade, TypeOK, pipeVars
  <2> QED
    BY <1>2, <2>1 DEF AllBuilt, GraphMade
<1>4. CASE DisassembleSection \/ FindNoCode \/ SortInsns
  <2>1. stage' \in {"disassemble", "failed", "entry"} /\ funcs' = funcs
    BY <1>1, <1>4 DEF DisassembleSection, FindNoCode, SortInsns
  <2> QED
    BY <1>1, <1>3, <2>1 DEF MeetInv, Scanned, RangesMade, Bounded, DisassembleSection, FindNoCode, SortInsns
<1>5. CASE AddEntryPoint
  <2>1. obj.entry \in Nat /\ stage' = "symbols"
    BY <1>1, <1>5 DEF Object, AddEntryPoint
  <2>2. DOMAIN funcs' \subseteq DOMAIN funcs \cup {obj.entry}
    BY <1>5 DEF AddEntryPoint, Inserted
  <2> QED
    BY <1>1, <1>3, <2>1, <2>2, BoundedWith DEF Scanned, RangesMade
<1>6. CASE ReadSymbol
  <2>1. obj.symbols[at] \in Symbol /\ stage' = "symbols"
    BY <1>1, <1>6 DEF ReadSymbol, Object
  <2>2. obj.symbols[at].addr \in Nat
    BY <2>1 DEF Symbol
  <2>3. DOMAIN funcs' \subseteq DOMAIN funcs \cup {obj.symbols[at].addr}
    BY <1>6 DEF ReadSymbol, SymbolIn, Inserted
  <2> QED
    BY <1>1, <1>3, <2>1, <2>2, <2>3, BoundedWith DEF Scanned, RangesMade
<1>7. CASE SymbolsRead
  <2>1. stage' = "calls" /\ at' = 1 /\ funcs' = funcs /\ \A j \in 1 .. Len(insns') : ~(j < at')
    BY <1>7 DEF SymbolsRead
  <2> QED
    BY <1>1, <1>3, <2>1 DEF Scanned, RangesMade, Bounded
<1>8. CASE ScanCall
  <2>1. PICK i : i = insns[at]
    OBVIOUS
  <2>2. /\ stage = "calls" /\ stage' = "calls" /\ at <= Len(insns) /\ at' = at + 1
        /\ UNCHANGED <<obj, insns>>
        /\ funcs' = IF i.does = "call" /\ HasTarget(i) /\ InCode(i.val)
                    THEN Called(i.val) ELSE funcs
    BY <1>8, <2>1 DEF ScanCall
  <2>3. i.val \in Nat
    BY <1>1, <2>1, <2>2, InsnFacts
  <2>4. DOMAIN Called(i.val) = DOMAIN funcs \cup {i.val}
    BY DEF Called, EntryOr
  <2>5. /\ DOMAIN funcs \subseteq DOMAIN funcs'
        /\ DOMAIN funcs' \subseteq DOMAIN funcs \cup {i.val}
        /\ i.does = "call" /\ HasTarget(i) /\ InCode(i.val) => i.val \in DOMAIN funcs'
    BY <2>2, <2>4
  <2>6. \A x : InCode(x)' <=> InCode(x)
    BY <2>2 DEF InCode
  <2>7. \A j \in 1 .. Len(insns) : j < at => Found(j)
    BY <1>1, <2>2 DEF Scanned
  <2>8. ASSUME NEW j \in 1 .. Len(insns), j < at + 1 PROVE Found(j)'
    <3>1. CASE j = at
      BY <2>1, <2>2, <2>5, <2>6, <3>1 DEF Found, HasTarget
    <3>2. CASE j # at
      <4>1. j < at
        BY <1>1, <2>8, <3>2
      <4>2. Found(j)
        BY <2>7, <4>1
      <4> QED
        BY <2>2, <2>5, <2>6, <4>2 DEF Found, HasTarget
    <3> QED
      BY <3>1, <3>2
  <2>9. Scanned'
    BY <2>2, <2>8 DEF Scanned, RangesMade
  <2> QED
    BY <1>1, <1>3, <2>3, <2>5, <2>9, BoundedWith
<1>9. CASE ScanJumps
  <2>1. /\ stage = "calls" /\ stage' = "ranges" /\ at > Len(insns)
        /\ UNCHANGED <<obj, insns, funcs>>
    BY <1>9 DEF ScanJumps
  <2>2. \A j \in 1 .. Len(insns) : Found(j)
    BY <1>1, <2>1 DEF Scanned
  <2>3. \A j : Found(j)' <=> Found(j)
    BY <2>1 DEF Found, HasTarget, InCode
  <2> QED
    BY <1>1, <1>3, <2>1, <2>2, <2>3 DEF Scanned, RangesMade, Bounded
<1> QED
  BY <1>3, <1>4, <1>5, <1>6, <1>7, <1>8, <1>9 DEF DetectNext

LEMMA FoundStays ==
  ASSUME UNCHANGED <<obj, insns, funcs>>
  PROVE  /\ \A j : Found(j)' <=> Found(j)
         /\ \A t : Target(t)' = Target(t)
         /\ Bounded => Bounded'
<1>1. \A j : Found(j)' <=> Found(j)
  BY DEF Found, HasTarget, InCode
<1>2. Sources' = Sources
  BY DEF Sources
<1>3. \A t : Target(t)' = Target(t)
  BY <1>2 DEF Target, NamesCall, FirstSource
<1> QED
  BY <1>1, <1>3 DEF Bounded

LEMMA BuiltStays ==
  ASSUME UNCHANGED <<obj, insns, funcs, ranges>>, NEW a, built'[a] = built[a], Built(a)
  PROVE  Built(a)'
<1>1. Lifted(a)' = Lifted(a) /\ LiftedCalls(a)' = LiftedCalls(a)
  BY LiftedStays
<1>2. \A t : Target(t)' = Target(t)
  BY FoundStays
<1>3. PICK K : K = built[a].kept
  OBVIOUS
<1>4. {Target(insns[i].val) : i \in K}' = {Target(insns[i].val) : i \in K}
  BY <1>2
<1> QED
  BY <1>1, <1>3, <1>4 DEF Built

LEMMA MeetStep ==
  ASSUME MeetInv, [Next]_vars
  PROVE  MeetInv'
<1>1. PipeInv /\ PipeInv' /\ Scanned /\ Bounded /\ AllBuilt /\ GraphMade
  BY PipeStep DEF MeetInv
<1>2. CASE DetectNext /\ UNCHANGED pipeVars
  BY <1>1, <1>2, DetectMeets DEF MeetInv
<1>3. CASE MakeRanges
  <2>1. /\ stage = "ranges" /\ stage' = "build" /\ UNCHANGED <<obj, insns, funcs, built>>
    BY <1>3 DEF MakeRanges
  <2>2. DOMAIN built' = {}
    BY <1>1, <2>1 DEF PipeInv, RangesKept, RangesMade, TypeOK
  <2> QED
    BY <1>1, <2>1, <2>2, FoundStays DEF MeetInv, Scanned, RangesMade, AllBuilt, GraphMade
<1>4. ASSUME NEW a \in DOMAIN ranges, BuildFunction(a)
      PROVE  MeetInv'
  <2>1. stage = "build" /\ stage' = "build" /\ UNCHANGED <<obj, insns, funcs, ranges>>
    BY <1>4 DEF BuildFunction
  <2>2. PICK kept \in SUBSET LiftedCalls(a) :
            built' = [b \in DOMAIN built \cup {a} |->
                        IF b = a THEN [name |-> funcs[a], lifted |-> Lifted(a), kept |-> kept,
                                       calls |-> {Target(insns[i].val) : i \in kept}]
                        ELSE built[b]]
    BY <1>4 DEF BuildFunction
  <2>3. Built(a)'
    <3>1. Lifted(a)' = Lifted(a) /\ LiftedCalls(a)' = LiftedCalls(a)
      BY <2>1, LiftedStays
    <3>2. \A t : Target(t)' = Target(t)
      BY <2>1, FoundStays
    <3>3. {Target(insns[i].val) : i \in kept}' = {Target(insns[i].val) : i \in kept}
      BY <2>1, <3>2
    <3>4. /\ built'[a].name = funcs[a] /\ built'[a].lifted = Lifted(a) /\ built'[a].kept = kept
          /\ built'[a].calls = {Target(insns[i].val) : i \in kept}
      BY <2>2
    <3> QED
      BY <2>1, <2>2, <3>1, <3>2, <3>4 DEF Built
  <2>4. AllBuilt'
    <3>1. ASSUME NEW b \in DOMAIN built', b # a PROVE Built(b)'
      <4>1. b \in DOMAIN built /\ built'[b] = built[b] /\ Built(b)
        BY <1>1, <2>2, <3>1 DEF AllBuilt
      <4> QED
        BY <2>1, <4>1, BuiltStays
    <3> QED
      BY <2>3, <3>1 DEF AllBuilt
  <2> QED
    BY <1>1, <2>1, <2>4, FoundStays DEF MeetInv, Scanned, RangesMade, GraphMade
<1>5. CASE FunctionsBuilt
  <2>1. /\ stage = "build" /\ stage' = "graph" /\ DOMAIN built = DOMAIN ranges
        /\ UNCHANGED <<obj, insns, funcs, ranges, built>>
    BY <1>5 DEF FunctionsBuilt, pipeVars
  <2> QED
    BY <1>1, <2>1, FoundStays, BuiltStays DEF MeetInv, Scanned, RangesMade, AllBuilt, GraphMade
<1>6. CASE BuildCallGraph
  <2>1. /\ stage = "graph" /\ stage' = "done" /\ UNCHANGED <<obj, insns, funcs, ranges, built>>
        /\ graph' = [n \in {built[a].name : a \in DOMAIN built} |-> Callees(LastOf(n))]
    BY <1>6 DEF BuildCallGraph
  <2>2. \A n : Callees(LastOf(n))' = Callees(LastOf(n))
    BY <2>1 DEF Callees, LastOf, Namesakes
  <2>3. GraphMade'
    BY <1>1, <2>1, <2>2 DEF GraphMade
  <2> QED
    BY <1>1, <2>1, <2>3, FoundStays, BuiltStays DEF MeetInv, Scanned, RangesMade, AllBuilt
<1>7. CASE UNCHANGED vars
  <2>1. UNCHANGED <<obj, stage, at, insns, funcs, ranges, built, graph>>
    BY <1>7 DEF vars, detectVars, pipeVars
  <2>2. \A n : Callees(LastOf(n))' = Callees(LastOf(n))
    BY <2>1 DEF Callees, LastOf, Namesakes
  <2>3. GraphMade'
    BY <1>1, <2>1, <2>2 DEF GraphMade
  <2> QED
    BY <1>1, <2>1, <2>3, FoundStays, BuiltStays DEF MeetInv, Scanned, RangesMade, AllBuilt
<1> QED
  BY <1>2, <1>3, <1>4, <1>5, <1>6, <1>7 DEF Next, Returned

\* Of the functions of one name there is a last.
LEMMA LastOfName ==
  ASSUME MeetInv, NEW a \in DOMAIN built
  PROVE  /\ LastOf(built[a].name) \in Namesakes(built[a].name)
         /\ \A b \in Namesakes(built[a].name) : b <= LastOf(built[a].name)
<1>1. PICK S : S = Namesakes(built[a].name)
  OBVIOUS
<1>2. S \subseteq DOMAIN funcs /\ DOMAIN funcs \subseteq Nat /\ S # {}
  BY <1>1 DEF MeetInv, PipeInv, TypeOK, Namesakes
<1>3. PICK m \in Nat : \A n \in S : n <= m
  BY <1>2 DEF MeetInv, Bounded
<1>4. \E m1 \in S : \A n \in S : n <= m1
  BY <1>2, <1>3, GreatestOf
<1> QED
  BY <1>1, <1>4, Zenon DEF LastOf

(***************************************************************************)
(* Whatever the file: a call that outlives the lifter and has its target   *)
(* in the code and below its end has a function there, and an edge to it   *)
(* when the names agree; and every edge is the call of a function of that  *)
(* name (functions.rs:55-72, lift/lib.rs:201-215, callgraph.rs:126-176).   *)
(***************************************************************************)
THEOREM CallsHaveEdges == Spec => []CallsMeetFunctions
<1>1. ASSUME MeetInv, stage = "done", NEW a \in DOMAIN built
      PROVE  built[a].calls = {Target(t) : t \in CallsTo(a)}
  <2>1. PICK K : K = built[a].kept
    OBVIOUS
  <2>2. built[a].calls = {Target(insns[i].val) : i \in K}
    BY <1>1, <2>1 DEF MeetInv, AllBuilt, Built
  <2>3. CallsTo(a) = {insns[i].val : i \in K}
    BY <2>1 DEF CallsTo
  <2> QED
    BY <2>2, <2>3
<1>2. ASSUME MeetInv, stage = "done", NEW a \in DOMAIN built, NEW t \in CallsTo(a),
             t >= MinTarget, InCode(t), t < globalEnd
      PROVE  t \in DOMAIN built
  <2>1. PICK i \in built[a].kept : insns[i].val = t
    BY <1>2 DEF CallsTo
  <2>2. i \in 1 .. Len(insns) /\ insns[i].does = "call" /\ insns[i].mode = "imm"
    BY <1>2, <2>1 DEF MeetInv, AllBuilt, Built, LiftedCalls, Lifted
  <2>3. t \in DOMAIN funcs
    BY <1>2, <2>1, <2>2 DEF MeetInv, Scanned, RangesMade, Found, HasTarget
  <2>4. RangeEnd(t) > t
    <3>1. t \in Nat /\ globalEnd \in Nat /\ TypeOK
      BY <1>2, <2>3 DEF MeetInv, PipeInv, TypeOK
    <3>2. RangeEnd(t) = globalEnd \/ RangeEnd(t) > t
      BY <2>3, <3>1, EndFacts DEF Following
    <3> QED
      BY <1>2, <3>1, <3>2
  <2> QED
    BY <1>2, <2>3, <2>4 DEF MeetInv, GraphMade, PipeInv, RangesKept, RangesMade
<1>3. ASSUME MeetInv, stage = "done", NEW a \in DOMAIN built, NEW t \in CallsTo(a),
             t \in DOMAIN built, OneName(t), Speaks(a)
      PROVE  built[t].name \in graph[built[a].name]
  <2>1. built[t].name = funcs[t]
    BY <1>3 DEF MeetInv, AllBuilt, Built
  <2>2. LastOf(built[a].name) = a
    <3>1. PICK b : b = LastOf(built[a].name)
      OBVIOUS
    <3>2. b \in DOMAIN built /\ built[b].name = built[a].name /\ a <= b
      BY <1>3, <3>1, LastOfName DEF Namesakes
    <3>3. b <= a /\ a \in Nat /\ b \in Nat
      BY <1>3, <3>2 DEF Speaks, MeetInv, PipeInv, TypeOK
    <3> QED
      BY <3>1, <3>2, <3>3
  <2>3. graph[built[a].name] = Callees(a)
    BY <1>3, <2>2 DEF MeetInv, GraphMade
  <2>4. Target(t) \in built[a].calls
    BY <1>1, <1>3
  <2>5. CASE NamesCall(t)
    <3>1. Target(t).named /\ Target(t).name = funcs[t]
      BY <1>3, <2>5 DEF Target, OneName
    <3> QED
      BY <2>1, <2>3, <2>4, <3>1 DEF Callees
  <2>6. CASE ~NamesCall(t)
    <3>1. ~Target(t).named /\ Target(t).addr = t
      BY <2>6 DEF Target
    <3> QED
      BY <1>3, <2>3, <2>4, <3>1 DEF Callees
  <2> QED
    BY <2>5, <2>6
<1>4. ASSUME MeetInv, stage = "done", NEW n \in DOMAIN graph, NEW m \in graph[n]
      PROVE  \E a \in Namesakes(n) : \E t \in CallsTo(a) :
                \/ t \in DOMAIN built /\ m = built[t].name
                \/ NamesCall(t) /\ m = Sources[FirstSource(t)].name
  <2>1. graph = [k \in {built[b].name : b \in DOMAIN built} |-> Callees(LastOf(k))]
    BY <1>4 DEF MeetInv, GraphMade
  <2>2. PICK b \in DOMAIN built : n = built[b].name
    BY <1>4, <2>1
  <2>3. PICK a : a = LastOf(n)
    OBVIOUS
  <2>4. a \in Namesakes(n) /\ a \in DOMAIN built
    BY <1>4, <2>2, <2>3, LastOfName DEF Namesakes
  <2>5. m \in Callees(a)
    BY <1>4, <2>1, <2>3
  <2>6. PICK c \in built[a].calls :
            \/ c.named /\ m = c.name
            \/ ~c.named /\ c.addr \in DOMAIN built /\ m = built[c.addr].name
    BY <2>5 DEF Callees
  <2>7. PICK t \in CallsTo(a) : c = Target(t)
    BY <1>1, <1>4, <2>4, <2>6
  <2>8. CASE NamesCall(t)
    <3>1. c.named /\ c.name = Sources[FirstSource(t)].name
      BY <2>7, <2>8 DEF Target
    <3> QED
      BY <2>4, <2>6, <2>8, <3>1
  <2>9. CASE ~NamesCall(t)
    <3>1. ~c.named /\ c.addr = t
      BY <2>7, <2>9 DEF Target
    <3> QED
      BY <2>4, <2>6, <3>1
  <2> QED
    BY <2>8, <2>9
<1>5. MeetInv => CallsMeetFunctions
  BY <1>2, <1>3, <1>4 DEF CallsMeetFunctions
<1> QED
  BY <1>5, MeetInit, MeetStep, PTL DEF Spec
-----------------------------------------------------------------------------
(* The string tables.                                                      *)

LEMMA CharsOfNone == Chars(<<>>) = 0
<1>1. {n \in DOMAIN <<>> : <<>>[n] = "char"} = {}
  OBVIOUS
<1> QED
  BY <1>1, FS_EmptySet DEF Chars

LEMMA CharsAreFew ==
  ASSUME NEW t \in Seq(Text)
  PROVE  /\ IsFiniteSet({n \in 1 .. Len(t) : t[n] = "char"})
         /\ Chars(t) = Cardinality({n \in 1 .. Len(t) : t[n] = "char"})
         /\ Chars(t) \in Nat
<1>1. PICK S : S = {n \in 1 .. Len(t) : t[n] = "char"}
  OBVIOUS
<1>2. 1 \in Int /\ Len(t) \in Int
  OBVIOUS
<1>3. IsFiniteSet(1 .. Len(t))
  BY <1>2, FS_Interval
<1>4. S \subseteq 1 .. Len(t)
  BY <1>1
<1>5. IsFiniteSet(S)
  BY <1>3, <1>4, FS_Subset
<1>6. DOMAIN t = 1 .. Len(t)
  OBVIOUS
<1>7. Chars(t) = Cardinality(S)
  BY <1>1, <1>6 DEF Chars
<1> QED
  BY <1>1, <1>5, <1>7, FS_CardinalityType

LEMMA CharsAppend ==
  ASSUME NEW t \in Seq(Text), NEW c \in Text
  PROVE  Chars(Append(t, c)) = Chars(t) + (IF c = "char" THEN 1 ELSE 0)
<1>1. PICK u : u = Append(t, c)
  OBVIOUS
<1>2. /\ u \in Seq(Text) /\ Len(u) = Len(t) + 1 /\ u[Len(t) + 1] = c
      /\ \A n \in 1 .. Len(t) : u[n] = t[n]
  BY <1>1
<1>3. PICK S, T : S = {n \in 1 .. Len(t) : t[n] = "char"} /\ T = {n \in 1 .. Len(u) : u[n] = "char"}
  OBVIOUS
<1>4. IsFiniteSet(S) /\ Chars(t) = Cardinality(S) /\ Chars(t) \in Nat
  BY <1>3, CharsAreFew
<1>5. Chars(u) = Cardinality(T)
  BY <1>2, <1>3, CharsAreFew
<1>6. CASE c = "char"
  <2>1. T = S \cup {Len(t) + 1}
    BY <1>2, <1>3, <1>6
  <2>2. Len(t) + 1 \notin S
    BY <1>3
  <2>3. Cardinality(S \cup {Len(t) + 1}) = Cardinality(S) + 1
    BY <1>4, <2>2, FS_AddElement
  <2> QED
    BY <1>1, <1>4, <1>5, <1>6, <2>1, <2>3
<1>7. CASE c # "char"
  <2>1. T = S
    BY <1>2, <1>3, <1>7
  <2> QED
    BY <1>1, <1>4, <1>5, <1>7, <2>1
<1> QED
  BY <1>6, <1>7

ScanTyped ==
    /\ sections \in Seq(FileSection)
    /\ sec \in Nat \ {0} /\ pos \in Nat /\ start \in Nat
    /\ buf \in Seq(Text) /\ printable = Chars(buf)

\* buf is the text from start to pos, which nothing lengthens to the front.
AsciiSoFar ==
    /\ pos = start + Len(buf) /\ pos <= Len(Data)
    /\ \A n \in 1 .. Len(buf) : buf[n] = Data[start + n]
    /\ start = 0 \/ Data[start] \notin Text

WideSoFar ==
    /\ pos = start + 2 * Len(buf)
    /\ \A n \in 1 .. Len(buf) : Data[start + 2 * n - 1] = buf[n] /\ Data[start + 2 * n] = "nul"

\* The literals of section s that end before e are in the table.
LiteralsTo(s, e) ==
    LET data == sections[s].data
    IN  \A k \in 0 .. Len(data) - 1 : \A n \in 1 .. Len(data) - k - 1 :
            k + n < e /\ IsLiteral(s, k, SubSeq(data, k + 1, k + n)) =>
                sections[s].va + k \in DOMAIN strings

Unscanned == pos = 0 /\ start = 0 /\ buf = <<>>

TableInv ==
    /\ ScanTyped
    /\ step = "dwarf" => sec = 1 /\ Unscanned /\ strings = Empty
    /\ step \in {"ascii", "wide"} =>
        /\ EntriesReadBack /\ sec <= Len(sections) + 1
        /\ \A s \in 1 .. sec - 1 : sections[s].kind \in {"rodata", "data"} =>
                LiteralsTo(s, Len(sections[s].data))
    /\ step = "ascii" /\ sec <= Len(sections) => AsciiSoFar /\ LiteralsTo(sec, pos)
    /\ step = "wide" => HasData /\ WideSoFar /\ LiteralsTo(sec, Len(Data))

LEMMA LiteralsStay ==
  ASSUME sections' = sections, DOMAIN strings \subseteq DOMAIN strings', NEW s, NEW e,
         LiteralsTo(s, e)
  PROVE  LiteralsTo(s, e)'
BY DEF LiteralsTo, IsLiteral, ReadsAscii

LEMMA SectionFacts ==
  ASSUME ScanTyped, NEW s \in 1 .. Len(sections)
  PROVE  /\ sections[s].data \in Seq(Byte) /\ sections[s].va \in Nat
         /\ s \in DOMAIN sections /\ sections[s].kind \in STRING /\ sections[s].size \in Nat
<1>1. sections \in Seq(FileSection)
  BY DEF ScanTyped
<1>2. sections[s] \in FileSection /\ s \in DOMAIN sections
  BY <1>1
<1> QED
  BY <1>2 DEF FileSection

\* A text that is read at its place goes into the table.
LEMMA EntryAdded ==
  ASSUME ScanTyped, EntriesReadBack, NEW s \in DOMAIN sections, NEW k \in Nat, NEW t,
         ReadsAscii(s, k, t) \/ ReadsWide(s, k, t), Chars(t) >= MinString,
         sections' = sections, strings' = Put(strings, sections[s].va + k, t)
  PROVE  EntriesReadBack'
<1>1. PICK va : va = sections[s].va /\ va \in Nat
  BY SectionFacts DEF ScanTyped
<1>2. DOMAIN strings' = DOMAIN strings \cup {va + k}
  BY <1>1 DEF Put
<1>3. strings'[va + k] = t /\ \A b \in DOMAIN strings : b # va + k => strings'[b] = strings[b]
  BY <1>1 DEF Put
<1>4. (va + k) - va = k /\ k >= 0
  BY <1>1
<1>5. ASSUME NEW a \in DOMAIN strings'
      PROVE  /\ Chars(strings'[a]) >= MinString
             /\ \E z \in DOMAIN sections :
                    /\ a - sections[z].va >= 0
                    /\ \/ ReadsAscii(z, a - sections[z].va, strings'[a])
                       \/ ReadsWide(z, a - sections[z].va, strings'[a])
  <2>1. CASE a = va + k
    BY <1>1, <1>3, <1>4, <2>1
  <2>2. CASE a # va + k
    <3>1. a \in DOMAIN strings /\ strings'[a] = strings[a]
      BY <1>2, <1>3, <2>2
    <3> QED
      BY <3>1 DEF EntriesReadBack
  <2> QED
    BY <2>1, <2>2
<1>6. \A z, k0, t0 : /\ ReadsAscii(z, k0, t0)' <=> ReadsAscii(z, k0, t0)
                     /\ ReadsWide(z, k0, t0)' <=> ReadsWide(z, k0, t0)
  BY DEF ReadsAscii, ReadsWide
<1> QED
  BY <1>5, <1>6 DEF EntriesReadBack

LEMMA EntriesKept ==
  ASSUME EntriesReadBack, UNCHANGED <<sections, strings>>
  PROVE  EntriesReadBack'
BY DEF EntriesReadBack, ReadsAscii, ReadsWide

LEMMA SubSeqFacts ==
  ASSUME NEW S, NEW d \in Seq(S), NEW k \in Nat, NEW n \in Nat, k + n <= Len(d)
  PROVE  /\ SubSeq(d, k + 1, k + n) \in Seq(S) /\ Len(SubSeq(d, k + 1, k + n)) = n
         /\ \A m \in 1 .. n : SubSeq(d, k + 1, k + n)[m] = d[k + m]
<1>1. PICK t : t = SubSeq(d, k + 1, k + n)
  OBVIOUS
<1>2. t = [m \in 1 .. n |-> d[k + m]]
  BY <1>1
<1>3. \A m \in 1 .. n : d[k + m] \in S
  OBVIOUS
<1>4. t \in Seq(S) /\ Len(t) = n
  BY <1>2, <1>3
<1> QED
  BY <1>1, <1>2, <1>4

LEMMA SameSequence ==
  ASSUME NEW S, NEW T, NEW s \in Seq(S), NEW t \in Seq(T), Len(s) = Len(t),
         \A m \in 1 .. Len(s) : s[m] = t[m]
  PROVE  s = t
<1>1. s = [m \in 1 .. Len(s) |-> s[m]] /\ t = [m \in 1 .. Len(s) |-> t[m]]
  OBVIOUS
<1> QED
  BY <1>1

\* A literal that ends at pos is what buf holds.
LEMMA EndsHere ==
  ASSUME ScanTyped, sec \in 1 .. Len(sections), AsciiSoFar,
         NEW k \in Nat, NEW n \in Nat \ {0}, k + n = pos,
         IsLiteral(sec, k, SubSeq(Data, k + 1, k + n))
  PROVE  k = start /\ SubSeq(Data, k + 1, k + n) = buf
<1>1. PICK d : d = Data
  OBVIOUS
<1>2. d \in Seq(Byte)
  BY <1>1, SectionFacts DEF Data
<1>3. /\ start \in Nat /\ pos \in Nat /\ buf \in Seq(Text) /\ pos = start + Len(buf) /\ pos <= Len(d)
      /\ \A m \in 1 .. Len(buf) : buf[m] = d[start + m]
      /\ start = 0 \/ d[start] \notin Text
  BY <1>1 DEF ScanTyped, AsciiSoFar
<1>4. PICK t : t = SubSeq(d, k + 1, k + n)
  OBVIOUS
<1>5. k + n <= Len(d) /\ n \in Nat
  BY <1>3
<1>6. t \in Seq(Byte) /\ Len(t) = n /\ \A m \in 1 .. n : t[m] = d[k + m]
  BY <1>2, <1>4, <1>5, SubSeqFacts
<1>7. (\A m \in 1 .. n : t[m] \in Text) /\ (k = 0 \/ d[k] \notin Text)
  <2>1. DOMAIN t = 1 .. n
    BY <1>6
  <2> QED
    BY <1>1, <1>4, <2>1 DEF IsLiteral, Data
<1>8. ~(k < start)
  <2> SUFFICES ASSUME k < start PROVE FALSE
    OBVIOUS
  <2>1. PICK m : m = start - k
    OBVIOUS
  <2>2. m \in 1 .. n /\ k + m = start /\ start # 0
    BY <1>3, <2>1
  <2> QED
    BY <1>3, <1>6, <1>7, <2>2
<1>9. ~(start < k)
  <2> SUFFICES ASSUME start < k PROVE FALSE
    OBVIOUS
  <2>1. PICK m : m = k - start
    OBVIOUS
  <2>2. m \in 1 .. Len(buf) /\ start + m = k /\ k # 0
    BY <1>3, <2>1
  <2>3. buf[m] \in Text /\ buf[m] = d[start + m]
    BY <1>3, <2>2
  <2>4. d[k] \in Text
    BY <2>2, <2>3
  <2> QED
    BY <1>7, <2>2, <2>4
<1>10. k = start /\ Len(buf) = n
  BY <1>3, <1>8, <1>9
<1>11. t = buf
  <2>1. \A m \in 1 .. n : t[m] = buf[m]
    BY <1>3, <1>6, <1>10
  <2> QED
    BY <1>3, <1>6, <1>10, <2>1, SameSequence
<1> QED
  BY <1>1, <1>4, <1>10, <1>11

\* One byte further, with the literals that end there.
LEMMA LiteralsNext ==
  ASSUME ScanTyped, NEW s \in 1 .. Len(sections), NEW e \in Nat, NEW d, d = sections[s].data,
         LiteralsTo(s, e), sections' = sections, DOMAIN strings \subseteq DOMAIN strings',
         \A k \in Nat : \A n \in Nat \ {0} :
            k + n = e /\ IsLiteral(s, k, SubSeq(d, k + 1, k + n)) =>
                sections[s].va + k \in DOMAIN strings'
  PROVE  LiteralsTo(s, e + 1)'
<1> SUFFICES ASSUME NEW k \in 0 .. Len(d) - 1, NEW n \in 1 .. Len(d) - k - 1, k + n < e + 1,
                    IsLiteral(s, k, SubSeq(d, k + 1, k + n))
             PROVE  sections[s].va + k \in DOMAIN strings'
  BY DEF LiteralsTo, IsLiteral, ReadsAscii
<1>1. k \in Nat /\ n \in Nat \ {0}
  BY SectionFacts
<1>2. CASE k + n = e
  BY <1>1, <1>2
<1>3. CASE k + n < e
  BY <1>3 DEF LiteralsTo
<1> QED
  BY <1>1, <1>2, <1>3

\* What the scan of a section leaves alone.
LEMMA EarlierStay ==
  ASSUME sec' = sec, sections' = sections, DOMAIN strings \subseteq DOMAIN strings',
         \A s \in 1 .. sec - 1 : sections[s].kind \in {"rodata", "data"} =>
                LiteralsTo(s, Len(sections[s].data))
  PROVE  (\A s \in 1 .. sec - 1 : sections[s].kind \in {"rodata", "data"} =>
                LiteralsTo(s, Len(sections[s].data)))'
<1> SUFFICES ASSUME NEW s \in 1 .. sec - 1, sections[s].kind \in {"rodata", "data"}
             PROVE  LiteralsTo(s, Len(sections[s].data))'
  OBVIOUS
<1>1. PICK e : e = Len(sections[s].data)
  OBVIOUS
<1>2. LiteralsTo(s, e)
  BY <1>1
<1>3. LiteralsTo(s, e)'
  BY <1>2, LiteralsStay
<1> QED
  BY <1>1, <1>3 DEF LiteralsTo

LEMMA AsciiKeeps == TableInv /\ ScanAscii => TableInv'
<1> SUFFICES ASSUME TableInv, ScanAscii PROVE TableInv'
  OBVIOUS
<1>1. PICK d, b, c : d = Data /\ b = buf /\ c = At(pos)
  OBVIOUS
<1>2. /\ ScanTyped /\ step = "ascii" /\ step' = "ascii" /\ sec' = sec /\ sections' = sections
      /\ sec \in 1 .. Len(sections) /\ pos < Len(d) /\ AsciiSoFar /\ LiteralsTo(sec, pos)
      /\ EntriesReadBack /\ sec \in Nat
      /\ \A s \in 1 .. sec - 1 : sections[s].kind \in {"rodata", "data"} =>
                LiteralsTo(s, Len(sections[s].data))
  BY <1>1 DEF TableInv, ScanAscii, HasData, ScanTyped
<1>3. /\ d \in Seq(Byte) /\ d = sections[sec].data /\ Data' = d
      /\ pos \in Nat /\ start \in Nat /\ b \in Seq(Text) /\ printable = Chars(b)
      /\ pos = start + Len(b)
      /\ \A n \in 1 .. Len(b) : b[n] = d[start + n]
      /\ c = d[pos + 1] /\ c \in Byte
  BY <1>1, <1>2, SectionFacts DEF Data, At, ScanTyped, AsciiSoFar
\* A literal can only end at a zero.
<1>4. \A k \in Nat : \A n \in Nat \ {0} :
        k + n = pos /\ IsLiteral(sec, k, SubSeq(d, k + 1, k + n)) =>
            c = "nul" /\ k = start /\ SubSeq(d, k + 1, k + n) = b
  <2> SUFFICES ASSUME NEW k \in Nat, NEW n \in Nat \ {0}, k + n = pos,
                      IsLiteral(sec, k, SubSeq(d, k + 1, k + n))
               PROVE  c = "nul" /\ k = start /\ SubSeq(d, k + 1, k + n) = b
    OBVIOUS
  <2>1. k = start /\ SubSeq(d, k + 1, k + n) = b
    BY <1>1, <1>2, EndsHere
  <2>2. Len(SubSeq(d, k + 1, k + n)) = n
    BY <1>3, <2>1
  <2>3. d[k + n + 1] = "nul"
    BY <1>3, <2>2 DEF IsLiteral, ReadsAscii
  <2> QED
    BY <1>3, <2>1, <2>3
<1>5. ASSUME Restart(1), c \notin Text
      PROVE  ScanTyped' /\ AsciiSoFar'
  <2>1. /\ buf' = <<>> /\ printable' = 0 /\ pos' = pos + 1 /\ start' = pos + 1
    BY <1>5 DEF Restart
  <2>2. ScanTyped'
    BY <1>2, <1>3, <2>1, CharsOfNone DEF ScanTyped
  <2> QED
    BY <1>2, <1>3, <1>5, <2>1, <2>2 DEF AsciiSoFar
<1>6. ASSUME ScanTyped', AsciiSoFar', EntriesReadBack', LiteralsTo(sec, pos)',
             DOMAIN strings \subseteq DOMAIN strings'
      PROVE  TableInv'
  <2>1. (\A s \in 1 .. sec - 1 : sections[s].kind \in {"rodata", "data"} =>
                LiteralsTo(s, Len(sections[s].data)))'
    BY <1>2, <1>6, EarlierStay
  <2> QED
    BY <1>2, <1>6, <2>1 DEF TableInv
<1>7. CASE AsciiEnd
  <2>1. /\ c = "nul" /\ buf' = <<>> /\ printable' = 0 /\ pos' = pos + 1 /\ start' = pos + 1
        /\ strings' = IF LongEnough(printable) THEN Put(strings, sections[sec].va + start, b)
                      ELSE strings
    BY <1>1, <1>7 DEF AsciiEnd, Restart
  <2>2. DOMAIN strings \subseteq DOMAIN strings'
    BY <2>1 DEF Put
  <2>3. EntriesReadBack'
    <3>1. CASE LongEnough(printable)
      <4>1. SubSeq(d, start + 1, start + Len(b)) = b
        <5>1. PICK t : t = SubSeq(d, start + 1, start + Len(b))
          OBVIOUS
        <5>2. PICK k, n : k = start /\ n = Len(b)
          OBVIOUS
        <5>3. k \in Nat /\ n \in Nat /\ k + n <= Len(d)
          BY <1>2, <1>3, <5>2
        <5>4. t = SubSeq(d, k + 1, k + n)
          BY <5>1, <5>2
        <5>5. t \in Seq(Byte) /\ Len(t) = n /\ \A m \in 1 .. n : t[m] = d[k + m]
          BY <1>3, <5>3, <5>4, SubSeqFacts
        <5> QED
          BY <1>3, <5>1, <5>2, <5>5, SameSequence
      <4>2. ReadsAscii(sec, start, b)
        BY <1>2, <1>3, <2>1, <4>1 DEF ReadsAscii
      <4>3. Chars(b) >= MinString
        BY <1>3, <3>1 DEF LongEnough
      <4>4. sec \in DOMAIN sections
        BY <1>2, SectionFacts
      <4> QED
        BY <1>2, <1>3, <2>1, <3>1, <4>2, <4>3, <4>4, EntryAdded
    <3>2. CASE ~LongEnough(printable)
      BY <1>2, <2>1, <3>2, EntriesKept
    <3> QED
      BY <3>1, <3>2
  <2>4. LiteralsTo(sec, pos)'
    <3>1. \A k \in Nat : \A n \in Nat \ {0} :
            k + n = pos /\ IsLiteral(sec, k, SubSeq(d, k + 1, k + n)) =>
                sections[sec].va + k \in DOMAIN strings'
      <4> SUFFICES ASSUME NEW k \in Nat, NEW n \in Nat \ {0}, k + n = pos,
                          IsLiteral(sec, k, SubSeq(d, k + 1, k + n))
                   PROVE  sections[sec].va + k \in DOMAIN strings'
        OBVIOUS
      <4>1. k = start /\ SubSeq(d, k + 1, k + n) = b
        BY <1>4
      <4>2. Chars(b) >= MinString
        BY <4>1 DEF IsLiteral
      <4>3. LongEnough(printable)
        BY <1>3, <4>2 DEF LongEnough
      <4> QED
        BY <2>1, <4>1, <4>3 DEF Put
    <3>2. PICK s, e : s = sec /\ e = pos
      OBVIOUS
    <3>3. s \in 1 .. Len(sections) /\ e \in Nat /\ d = sections[s].data /\ LiteralsTo(s, e)
      BY <1>2, <1>3, <3>2
    <3>4. LiteralsTo(s, e + 1)'
      BY <1>2, <2>2, <3>1, <3>2, <3>3, LiteralsNext
    <3> QED
      BY <1>2, <2>1, <3>2, <3>4 DEF LiteralsTo
  <2>5. c \notin Text
    BY <2>1 DEF Text
  <2>6. ScanTyped' /\ AsciiSoFar'
    BY <1>5, <1>7, <2>5 DEF AsciiEnd
  <2> QED
    BY <1>6, <2>2, <2>3, <2>4, <2>6
<1>8. ASSUME strings' = strings, pos' = pos + 1, c # "nul"
      PROVE  /\ EntriesReadBack' /\ LiteralsTo(sec, pos)'
             /\ DOMAIN strings \subseteq DOMAIN strings'
  <2>1. EntriesReadBack'
    BY <1>2, <1>8, EntriesKept
  <2>2. DOMAIN strings \subseteq DOMAIN strings'
    BY <1>8
  <2>3. PICK s, e : s = sec /\ e = pos
    OBVIOUS
  <2>4. s \in 1 .. Len(sections) /\ e \in Nat /\ d = sections[s].data /\ LiteralsTo(s, e)
    BY <1>2, <1>3, <2>3
  <2>5. LiteralsTo(s, e + 1)'
    BY <1>2, <1>4, <1>8, <2>2, <2>3, <2>4, LiteralsNext
  <2> QED
    BY <1>2, <1>8, <2>1, <2>2, <2>3, <2>5 DEF LiteralsTo
<1>9. CASE AsciiText
  <2>1. /\ c \in Text /\ c # "nul" /\ buf' = Append(b, c) /\ pos' = pos + 1
        /\ printable' = printable + (IF c = "char" THEN 1 ELSE 0)
        /\ start' = start /\ strings' = strings
    BY <1>1, <1>9 DEF AsciiText, Text
  <2>2. Chars(Append(b, c)) = Chars(b) + (IF c = "char" THEN 1 ELSE 0)
    BY <1>3, <2>1, CharsAppend
  <2>3. PICK x : x = Append(b, c)
    OBVIOUS
  <2>4. /\ x \in Seq(Text) /\ Len(x) = Len(b) + 1 /\ x[Len(b) + 1] = c
        /\ \A n \in 1 .. Len(b) : x[n] = b[n]
    BY <1>3, <2>1, <2>3
  <2>5. ScanTyped'
    BY <1>2, <1>3, <2>1, <2>2, <2>3, <2>4 DEF ScanTyped
  <2>6. \A n \in 1 .. Len(x) : x[n] = d[start + n]
    <3> TAKE n \in 1 .. Len(x)
    <3>1. CASE n = Len(b) + 1
      BY <1>3, <2>4, <3>1
    <3>2. CASE n \in 1 .. Len(b)
      BY <1>3, <2>4, <3>2
    <3> QED
      BY <2>4, <3>1, <3>2
  <2>7. start = 0 \/ d[start] \notin Text
    BY <1>1, <1>2 DEF AsciiSoFar
  <2>8. AsciiSoFar'
    <3>1. buf' = x /\ Data' = d /\ start' = start
      BY <1>3, <2>1, <2>3
    <3>2. pos' = start + Len(x) /\ pos' <= Len(d)
      BY <1>2, <1>3, <2>1, <2>4
    <3> QED
      BY <2>6, <2>7, <3>1, <3>2 DEF AsciiSoFar
  <2> QED
    BY <1>6, <1>8, <2>1, <2>5, <2>8
<1>10. CASE AsciiOther
  <2>1. c \notin Text /\ c # "nul" /\ strings' = strings /\ pos' = pos + 1 /\ Restart(1)
    BY <1>1, <1>10 DEF AsciiOther, Restart, Text
  <2> QED
    BY <1>5, <1>6, <1>8, <2>1
<1> QED
  BY <1>7, <1>9, <1>10 DEF ScanAscii
LEMMA WideKeeps == TableInv /\ ScanWide => TableInv'
<1> SUFFICES ASSUME TableInv, ScanWide PROVE TableInv'
  OBVIOUS
<1>1. PICK d, b, c : d = Data /\ b = buf /\ c = At(pos)
  OBVIOUS
<1>2. /\ ScanTyped /\ step = "wide" /\ step' = "wide" /\ sec' = sec /\ sections' = sections
      /\ HasData /\ sec \in 1 .. Len(sections) /\ pos + 1 < Len(d) /\ WideSoFar
      /\ LiteralsTo(sec, Len(Data)) /\ EntriesReadBack /\ sec \in Nat
      /\ \A s \in 1 .. sec - 1 : sections[s].kind \in {"rodata", "data"} =>
                LiteralsTo(s, Len(sections[s].data))
  BY <1>1 DEF TableInv, ScanWide, HasData, ScanTyped
<1>3. /\ d \in Seq(Byte) /\ d = sections[sec].data /\ Data' = d
      /\ pos \in Nat /\ start \in Nat /\ b \in Seq(Text) /\ printable = Chars(b)
      /\ pos = start + 2 * Len(b)
      /\ \A n \in 1 .. Len(b) : d[start + 2 * n - 1] = b[n] /\ d[start + 2 * n] = "nul"
      /\ c = d[pos + 1] /\ At(pos + 1) = d[pos + 2] /\ HasData'
  BY <1>1, <1>2, SectionFacts DEF Data, At, ScanTyped, WideSoFar, HasData
<1>4. ASSUME ScanTyped', WideSoFar', EntriesReadBack', DOMAIN strings \subseteq DOMAIN strings'
      PROVE  TableInv'
  <2>1. (\A s \in 1 .. sec - 1 : sections[s].kind \in {"rodata", "data"} =>
                LiteralsTo(s, Len(sections[s].data)))'
    BY <1>2, <1>4, EarlierStay
  <2>2. PICK s, e : s = sec /\ e = Len(d)
    OBVIOUS
  <2>3. LiteralsTo(s, e)'
    BY <1>1, <1>2, <1>4, <2>2, LiteralsStay
  <2>4. LiteralsTo(sec, Len(Data))'
    BY <1>2, <1>3, <2>2, <2>3 DEF LiteralsTo
  <2> QED
    BY <1>2, <1>3, <1>4, <2>1, <2>4 DEF TableInv
<1>5. ASSUME NEW n \in Nat, Restart(n)
      PROVE  ScanTyped' /\ WideSoFar'
  <2>1. /\ buf' = <<>> /\ printable' = 0 /\ pos' = pos + n /\ start' = pos + n
    BY <1>5 DEF Restart
  <2>2. ScanTyped'
    BY <1>2, <1>3, <2>1, CharsOfNone DEF ScanTyped
  <2>3. pos' = start' + 2 * Len(buf') /\ Len(buf') = 0
    BY <1>3, <1>5, <2>1
  <2> QED
    BY <2>2, <2>3 DEF WideSoFar
<1>6. CASE WideEnd
  <2>1. PICK va : va = sections[sec].va + start
    OBVIOUS
  <2>2. /\ c = "nul" /\ d[pos + 2] = "nul" /\ Restart(2)
        /\ strings' = IF LongEnough(printable) /\ va \notin DOMAIN strings
                      THEN Put(strings, va, b) ELSE strings
    BY <1>1, <1>3, <1>6, <2>1 DEF WideEnd
  <2>3. DOMAIN strings \subseteq DOMAIN strings'
    BY <2>2 DEF Put
  <2>4. EntriesReadBack'
    <3>1. CASE LongEnough(printable) /\ va \notin DOMAIN strings
      <4>1. Len(b) \in Nat /\ start + 2 * Len(b) + 1 < Len(d)
        BY <1>2, <1>3
      <4>2. ReadsWide(sec, start, b)
        BY <1>3, <2>2, <4>1 DEF ReadsWide
      <4>3. Chars(b) >= MinString
        BY <1>3, <3>1 DEF LongEnough
      <4>4. sec \in DOMAIN sections
        BY <1>2, SectionFacts
      <4> QED
        BY <1>2, <1>3, <2>1, <2>2, <3>1, <4>2, <4>3, <4>4, EntryAdded
    <3>2. CASE strings' = strings
      BY <1>2, <3>2, EntriesKept
    <3> QED
      BY <2>2, <3>1, <3>2
  <2> QED
    BY <1>4, <1>5, <2>2, <2>3, <2>4
<1>7. CASE WideText
  <2>1. /\ c \in Text /\ d[pos + 2] = "nul" /\ buf' = Append(b, c) /\ pos' = pos + 2
        /\ printable' = printable + (IF c = "char" THEN 1 ELSE 0)
        /\ start' = start /\ strings' = strings
    BY <1>1, <1>3, <1>7 DEF WideText, Text
  <2>2. Chars(Append(b, c)) = Chars(b) + (IF c = "char" THEN 1 ELSE 0)
    BY <1>3, <2>1, CharsAppend
  <2>3. PICK x : x = Append(b, c)
    OBVIOUS
  <2>4. /\ x \in Seq(Text) /\ Len(x) = Len(b) + 1 /\ x[Len(b) + 1] = c
        /\ \A n \in 1 .. Len(b) : x[n] = b[n]
    BY <1>3, <2>1, <2>3
  <2>5. ScanTyped'
    BY <1>2, <1>3, <2>1, <2>2, <2>3, <2>4 DEF ScanTyped
  <2>6. \A n \in 1 .. Len(x) : d[start + 2 * n - 1] = x[n] /\ d[start + 2 * n] = "nul"
    <3> TAKE n \in 1 .. Len(x)
    <3>1. CASE n = Len(b) + 1
      <4>1. start + 2 * n - 1 = pos + 1 /\ start + 2 * n = pos + 2
        BY <1>3, <3>1
      <4> QED
        BY <1>3, <2>1, <2>4, <3>1, <4>1
    <3>2. CASE n \in 1 .. Len(b)
      BY <1>3, <2>4, <3>2
    <3> QED
      BY <2>4, <3>1, <3>2
  <2>7. WideSoFar'
    <3>1. buf' = x /\ Data' = d /\ start' = start
      BY <1>3, <2>1, <2>3
    <3>2. pos' = start + 2 * Len(x)
      BY <1>3, <2>1, <2>4
    <3> QED
      BY <2>6, <3>1, <3>2 DEF WideSoFar
  <2>8. EntriesReadBack' /\ DOMAIN strings \subseteq DOMAIN strings'
    BY <1>2, <2>1, EntriesKept
  <2> QED
    BY <1>4, <2>5, <2>7, <2>8
<1>8. CASE WideOther
  <2>1. Restart(1) /\ strings' = strings
    BY <1>8 DEF WideOther
  <2>2. EntriesReadBack' /\ DOMAIN strings \subseteq DOMAIN strings'
    BY <1>2, <2>1, EntriesKept
  <2> QED
    BY <1>4, <1>5, <2>1, <2>2
<1> QED
  BY <1>6, <1>7, <1>8 DEF ScanWide
LEMMA TableInit == LoaderInit => TableInv
<1> SUFFICES ASSUME LoaderInit PROVE TableInv
  OBVIOUS
<1>1. sections \in Seq(FileSection)
  BY DwarfAssumption, FileAssumption DEF LoaderInit, DwarfInit
<1>2. ScanTyped
  BY <1>1, CharsOfNone DEF LoaderInit, ScanTyped
<1> QED
  BY <1>2 DEF LoaderInit, TableInv, Unscanned

\* The steps between the scans, and those that leave the tables alone.
LEMMA OtherScansKeep ==
  ASSUME TableInv, StartScan \/ EndAscii \/ NextSection \/ UNCHANGED <<sections, scanVars>>
  PROVE  TableInv'
<1>1. ScanTyped /\ sections' = sections
  BY DEF TableInv, StartScan, EndAscii, NextSection
<1>2. CASE UNCHANGED <<sections, scanVars>>
  <2>1. ScanTyped' /\ (EntriesReadBack => EntriesReadBack')
    BY <1>1, <1>2, EntriesKept DEF ScanTyped, scanVars
  <2>2. \A s, e : LiteralsTo(s, e) => LiteralsTo(s, e)'
    BY <1>2, LiteralsStay DEF scanVars
  <2>3. PICK s, e, f : s = sec /\ e = pos /\ f = Len(Data)
    OBVIOUS
  <2>4. /\ AsciiSoFar => AsciiSoFar'
        /\ WideSoFar => WideSoFar'
        /\ HasData => HasData'
        /\ Unscanned => Unscanned'
    BY <1>2 DEF AsciiSoFar, WideSoFar, HasData, Unscanned, scanVars, Data
  <2>5. LiteralsTo(sec, pos) => LiteralsTo(sec, pos)'
    <3>1. LiteralsTo(s, e)' => LiteralsTo(sec, pos)'
      BY <1>2, <2>3 DEF scanVars, LiteralsTo
    <3> QED
      BY <2>2, <2>3, <3>1
  <2>6. LiteralsTo(sec, Len(Data)) => LiteralsTo(sec, Len(Data))'
    <3>1. LiteralsTo(s, f)' => LiteralsTo(sec, Len(Data))'
      BY <1>2, <2>3 DEF scanVars, LiteralsTo, Data
    <3> QED
      BY <2>2, <2>3, <3>1
  <2>7. (\A r \in 1 .. sec - 1 : sections[r].kind \in {"rodata", "data"} =>
                LiteralsTo(r, Len(sections[r].data))) =>
        (\A r \in 1 .. sec - 1 : sections[r].kind \in {"rodata", "data"} =>
                LiteralsTo(r, Len(sections[r].data)))'
    BY <1>2, EarlierStay DEF scanVars
  <2> QED
    BY <1>2, <2>1, <2>4, <2>5, <2>6, <2>7 DEF TableInv, scanVars
<1>3. ASSUME pos' = 0, start' = 0, buf' = <<>>, sec' <= Len(sections)
      PROVE  (HasData' => WideSoFar') /\ (sec' \in Nat \ {0} => AsciiSoFar' /\ LiteralsTo(sec, pos)')
  <2>1. Len(buf') = 0
    BY <1>3
  <2>2. WideSoFar'
    BY <1>3, <2>1 DEF WideSoFar
  <2>3. ASSUME sec' \in Nat \ {0}
        PROVE  AsciiSoFar' /\ LiteralsTo(sec, pos)'
    <3>1. PICK s : s = sec'
      OBVIOUS
    <3>2. s \in 1 .. Len(sections)
      BY <1>1, <1>3, <2>3, <3>1 DEF ScanTyped
    <3>3. sections[s].data \in Seq(Byte)
      BY <1>1, <3>2, SectionFacts
    <3>4. Data' = sections[s].data
      BY <1>1, <3>1 DEF Data
    <3>5. AsciiSoFar'
      BY <1>3, <2>1, <3>3, <3>4 DEF AsciiSoFar
    <3>6. LiteralsTo(s, 0)'
      <4>1. \A k \in 0 .. Len(sections[s].data) - 1 :
                \A n \in 1 .. Len(sections[s].data) - k - 1 : ~(k + n < 0)
        BY <3>3
      <4> QED
        BY <1>1, <4>1 DEF LiteralsTo
    <3> QED
      BY <1>3, <3>1, <3>5, <3>6 DEF LiteralsTo
  <2> QED
    BY <2>2, <2>3
<1>4. CASE StartScan
  <2>1. /\ step = "dwarf" /\ step' = "ascii" /\ sec' = 1 /\ strings' = Empty
        /\ pos' = 0 /\ start' = 0 /\ buf' = <<>> /\ printable' = printable
    BY <1>4 DEF StartScan, TableInv, Unscanned
  <2>2. ScanTyped'
    BY <1>1, <1>4, <2>1 DEF ScanTyped, StartScan
  <2>3. EntriesReadBack'
    BY <2>1 DEF EntriesReadBack, Empty
  <2>4. sec' <= Len(sections) => AsciiSoFar' /\ LiteralsTo(sec, pos)'
    BY <1>3, <2>1
  <2>5. \A s : s \notin 1 .. sec' - 1
    BY <2>1
  <2>6. sec' <= Len(sections') + 1
    BY <1>1, <2>1 DEF ScanTyped
  <2> QED
    BY <1>1, <2>1, <2>2, <2>3, <2>4, <2>5, <2>6 DEF TableInv
<1>5. CASE EndAscii
  <2>1. /\ step = "ascii" /\ step' = "wide" /\ UNCHANGED <<sec, strings>> /\ HasData
        /\ sec <= Len(sections) /\ pos >= Len(Data)
        /\ pos' = 0 /\ start' = 0 /\ buf' = <<>> /\ printable' = 0
    BY <1>5 DEF EndAscii, HasData
  <2>2. ScanTyped'
    BY <1>1, <2>1, CharsOfNone DEF ScanTyped
  <2>3. EntriesReadBack' /\ HasData' /\ DOMAIN strings \subseteq DOMAIN strings'
    BY <1>1, <2>1, EntriesKept DEF TableInv, HasData
  <2>4. WideSoFar'
    BY <1>3, <2>1, <2>3
  <2>5. pos = Len(Data) /\ LiteralsTo(sec, pos)
    <3>1. AsciiSoFar /\ LiteralsTo(sec, pos)
      BY <2>1 DEF TableInv
    <3>2. sec \in 1 .. Len(sections)
      BY <1>1, <2>1 DEF ScanTyped
    <3>3. Len(Data) \in Nat
      BY <1>1, <3>2, SectionFacts DEF Data
    <3> QED
      BY <1>1, <2>1, <3>1, <3>3 DEF AsciiSoFar, ScanTyped
  <2>6. LiteralsTo(sec, Len(Data))'
    <3>1. PICK s, e : s = sec /\ e = Len(Data)
      OBVIOUS
    <3>2. LiteralsTo(s, e)'
      BY <1>1, <2>3, <2>5, <3>1, LiteralsStay
    <3>3. Data' = Data
      BY <1>1, <2>1 DEF Data
    <3> QED
      BY <2>1, <3>1, <3>2, <3>3 DEF LiteralsTo
  <2>7. (\A s \in 1 .. sec - 1 : sections[s].kind \in {"rodata", "data"} =>
                LiteralsTo(s, Len(sections[s].data)))'
    BY <1>1, <2>1, <2>3, EarlierStay DEF TableInv
  <2> QED
    BY <1>1, <2>1, <2>2, <2>3, <2>4, <2>6, <2>7 DEF TableInv
<1>6. CASE NextSection
  <2>1. /\ step' = "ascii" /\ sec' = sec + 1 /\ strings' = strings
        /\ pos' = 0 /\ start' = 0 /\ buf' = <<>> /\ printable' = 0
        /\ \/ step = "wide"
           \/ step = "ascii" /\ sec <= Len(sections) /\ ~HasData
    BY <1>6 DEF NextSection
  <2>2. ScanTyped' /\ sec \in Nat \ {0} /\ sec <= Len(sections)
    BY <1>1, <2>1, CharsOfNone DEF ScanTyped, TableInv, HasData
  <2>3. EntriesReadBack' /\ DOMAIN strings \subseteq DOMAIN strings'
    BY <1>1, <2>1, EntriesKept DEF TableInv
  <2>4. sec' <= Len(sections) => AsciiSoFar' /\ LiteralsTo(sec, pos)'
    BY <1>3, <2>1, <2>2
  <2>5. ASSUME NEW s \in 1 .. sec' - 1, sections[s].kind \in {"rodata", "data"}
        PROVE  LiteralsTo(s, Len(sections[s].data))'
    <3>1. PICK e : e = Len(sections[s].data)
      OBVIOUS
    <3>2. LiteralsTo(s, e)
      <4>1. CASE s \in 1 .. sec - 1
        BY <2>1, <2>5, <3>1, <4>1 DEF TableInv
      <4>2. CASE s = sec
        <5>1. step = "wide"
          BY <2>1, <2>2, <2>5, <4>2 DEF HasData
        <5> QED
          BY <3>1, <4>2, <5>1 DEF TableInv, Data
      <4> QED
        BY <2>1, <2>2, <4>1, <4>2
    <3>3. LiteralsTo(s, e)'
      BY <1>1, <2>3, <3>2, LiteralsStay
    <3> QED
      BY <1>1, <3>1, <3>3 DEF LiteralsTo
  <2>6. sec' <= Len(sections) + 1
    BY <1>1, <2>1, <2>2 DEF ScanTyped
  <2> QED
    BY <1>1, <2>1, <2>2, <2>3, <2>4, <2>5, <2>6 DEF TableInv
<1> QED
  BY <1>2, <1>4, <1>5, <1>6

-----------------------------------------------------------------------------
(* The recovered strings.                                                  *)

\* A literal from k on stays in the section and has no zero.
LEMMA LengthFacts ==
  ASSUME NEW d \in Seq(Byte), d = Data, NEW k \in Nat, k < Len(d)
  PROVE  /\ LengthFrom(k) \in Nat /\ k + LengthFrom(k) <= Len(d)
         /\ \A n \in 0 .. LengthFrom(k) - 1 : d[k + n + 1] # "nul"
<1>1. PICK stop : stop = {n \in 0 .. Len(d) - k :
                             \/ n = MaxString \/ k + n = Len(d)
                             \/ At(k + n) \in {"nul", "blank", "control"}}
  OBVIOUS
<1>2. stop \subseteq Nat /\ Len(d) - k \in stop
  BY <1>1
<1>3. PICK len : len = CHOOSE n \in stop : \A m \in stop : n <= m
  OBVIOUS
<1>4. \E n \in stop : \A m \in stop : n <= m
  BY <1>2, LeastOf
<1>5. len \in stop /\ \A m \in stop : len <= m
  BY <1>3, <1>4
<1>6. LengthFrom(k) = IF len >= MinString THEN len ELSE 0
  BY <1>1, <1>3 DEF LengthFrom
<1>7. len \in Nat /\ k + len <= Len(d)
  BY <1>1, <1>5
<1>8. \A n \in 0 .. len - 1 : d[k + n + 1] # "nul"
  <2> SUFFICES ASSUME NEW n \in 0 .. len - 1, d[k + n + 1] = "nul" PROVE FALSE
    OBVIOUS
  <2>1. At(k + n) = "nul" /\ n \in 0 .. Len(d) - k
    BY <1>7 DEF At
  <2>2. n \in stop
    BY <1>1, <2>1
  <2> QED
    BY <1>5, <1>7, <2>2
<1>9. CASE len >= MinString
  <2>1. LengthFrom(k) = len
    BY <1>6, <1>9
  <2> QED
    BY <1>7, <1>8, <2>1
<1>10. CASE ~(len >= MinString)
  <2>1. LengthFrom(k) = 0
    BY <1>6, <1>10
  <2>2. k + 0 <= Len(d) /\ 0 .. 0 - 1 = {}
    OBVIOUS
  <2> QED
    BY <2>1, <2>2
<1> QED
  BY <1>9, <1>10

\* The candidates so far: texts without a zero, one after the other, up to pos.
Copied(a, t) ==
    /\ sections[sec].va <= a /\ a + Len(t) <= sections[sec].va + Len(Data)
    /\ \A n \in DOMAIN t : t[n] = Data[a - sections[sec].va + n] /\ t[n] # "nul"

CandidatesOK ==
    /\ \A a \in DOMAIN candidates :
        /\ a \in Int /\ candidates[a].text \in Seq(Byte) /\ Len(candidates[a].text) > 0
        /\ Copied(a, candidates[a].text)
    /\ \A a, b \in DOMAIN candidates : a < b => a + Len(candidates[a].text) <= b

EndBy(e) == \A a \in DOMAIN candidates : a + Len(candidates[a].text) <= e

RecoverInv ==
    /\ TableInv
    /\ step \notin {"recover", "score", "done", "panicked"} => candidates = Empty
    /\ step \in {"recover", "score"} => CandidatesOK
    /\ step = "recover" => sec \in 1 .. Len(sections) /\ EndBy(sections[sec].va + pos)

LEMMA CandidateAdded ==
  ASSUME CandidatesOK, NEW e \in Int, EndBy(e), NEW t \in Seq(Byte), Len(t) > 0,
         Copied(e, t), UNCHANGED <<sections, sec>>,
         NEW c, c.text = t, candidates' = Put(candidates, e, c)
  PROVE  CandidatesOK' /\ EndBy(e + Len(t))'
<1>1. /\ DOMAIN candidates' = DOMAIN candidates \cup {e}
      /\ candidates'[e].text = t
      /\ \A a \in DOMAIN candidates : a # e => candidates'[a].text = candidates[a].text
  BY DEF Put
<1>2. \A a \in DOMAIN candidates : /\ a \in Int /\ Len(candidates[a].text) \in Nat
                                   /\ Len(candidates[a].text) > 0
                                   /\ a + Len(candidates[a].text) <= e /\ a < e
  BY DEF CandidatesOK, EndBy
<1>3. \A a \in DOMAIN candidates' : (a \in DOMAIN candidates /\ a # e) \/ a = e
  BY <1>1
<1>4. \A a \in DOMAIN candidates' :
        /\ a \in Int /\ candidates'[a].text \in Seq(Byte) /\ Len(candidates'[a].text) > 0
        /\ Copied(a, candidates'[a].text)
  BY <1>1, <1>3 DEF CandidatesOK
<1>5. ASSUME NEW a \in DOMAIN candidates', NEW b \in DOMAIN candidates', a < b
      PROVE  a + Len(candidates'[a].text) <= b
  <2>1. CASE a = e
    BY <1>2, <1>3, <1>5, <2>1
  <2>2. CASE a # e /\ b = e
    BY <1>1, <1>2, <1>3, <2>2
  <2>3. CASE a # e /\ b # e
    BY <1>1, <1>3, <1>5, <2>3 DEF CandidatesOK
  <2> QED
    BY <2>1, <2>2, <2>3
<1>6. \A a \in DOMAIN candidates' : a + Len(candidates'[a].text) <= e + Len(t)
  <2> TAKE a \in DOMAIN candidates'
  <2>1. CASE a = e
    BY <1>1, <2>1
  <2>2. CASE a # e
    BY <1>1, <1>2, <1>3, <2>2
  <2> QED
    BY <2>1, <2>2
<1> QED
  BY <1>4, <1>5, <1>6 DEF CandidatesOK, EndBy, Copied, Data

\* What comes after the scans: nothing but types is said of it.
LEMMA AfterScans ==
  ASSUME ScanTyped, UNCHANGED <<sections, start, buf, printable>>, sec' \in Nat \ {0},
         pos' \in Nat, step' \notin {"dwarf", "ascii", "wide"}
  PROVE  TableInv'
BY DEF TableInv, ScanTyped

LEMMA RecoverKeeps == RecoverInv /\ RecoverAt => RecoverInv'
<1> SUFFICES ASSUME RecoverInv, RecoverAt PROVE RecoverInv'
  OBVIOUS
<1>1. PICK d, p, va : d = Data /\ p = pos /\ va = sections[sec].va
  OBVIOUS
<1>2. /\ ScanTyped /\ step = "recover" /\ step' = "recover" /\ sec' = sec /\ sections' = sections
      /\ UNCHANGED <<start, buf, printable>>
      /\ sec \in 1 .. Len(sections) /\ CandidatesOK /\ EndBy(va + p) /\ p < Len(d) /\ p \in Nat
      /\ sec \in Nat \ {0}
  BY <1>1 DEF RecoverInv, TableInv, RecoverAt, ScanTyped
<1>3. d \in Seq(Byte) /\ va \in Nat /\ d = sections[sec].data
  BY <1>1, <1>2, SectionFacts DEF Data
<1>4. PICK len : len = IF At(p) = "nul" THEN 0 ELSE LengthFrom(p)
  OBVIOUS
<1>5. len \in Nat /\ p + len <= Len(d) /\ \A n \in 0 .. len - 1 : d[p + n + 1] # "nul"
  <2>1. /\ LengthFrom(p) \in Nat /\ p + LengthFrom(p) <= Len(d)
        /\ \A n \in 0 .. LengthFrom(p) - 1 : d[p + n + 1] # "nul"
    BY <1>1, <1>2, <1>3, LengthFacts
  <2> QED
    BY <1>2, <1>3, <1>4, <2>1
<1>6. pos' = p + Advance(len)
  BY <1>1, <1>4 DEF RecoverAt
<1>7. pos' \in Nat
  BY <1>2, <1>5, <1>6 DEF Advance
<1>8. TableInv'
  BY <1>2, <1>7, AfterScans
<1>9. CASE len = 0
  <2>1. candidates' = candidates /\ pos' = p + 1
    BY <1>1, <1>4, <1>6, <1>9 DEF RecoverAt, Advance
  <2>2. \A a \in DOMAIN candidates : a + Len(candidates[a].text) <= va + p
                                     /\ a \in Int /\ Len(candidates[a].text) \in Nat
    BY <1>2 DEF EndBy, CandidatesOK
  <2>3. \A a \in DOMAIN candidates : a + Len(candidates[a].text) <= va + (p + 1)
    BY <1>2, <1>3, <2>2
  <2>4. EndBy(sections[sec].va + pos)'
    BY <1>1, <1>2, <2>1, <2>3 DEF EndBy
  <2>5. CandidatesOK'
    BY <1>2, <2>1 DEF CandidatesOK, Copied, Data
  <2> QED
    BY <1>2, <1>8, <2>4, <2>5 DEF RecoverInv
<1>10. CASE len # 0
  <2>1. PICK t, e : t = SubSeq(d, p + 1, p + len) /\ e = va + p
    OBVIOUS
  <2>2. PICK c : c = [text |-> t, confidence |-> IF Referenced(e) THEN Raised(Confidence(t))
                                                ELSE Confidence(t)]
    OBVIOUS
  <2>3. candidates' = Put(candidates, e, c)
    BY <1>1, <1>4, <1>10, <2>1, <2>2 DEF RecoverAt
  <2>4. t \in Seq(Byte) /\ Len(t) = len /\ \A m \in 1 .. len : t[m] = d[p + m]
    BY <1>2, <1>3, <1>5, <2>1, SubSeqFacts
  <2>5. \A m \in DOMAIN t : t[m] = d[p + m] /\ t[m] # "nul"
    <3> TAKE m \in DOMAIN t
    <3>1. m \in 1 .. len /\ m - 1 \in 0 .. len - 1 /\ p + (m - 1) + 1 = p + m
      BY <1>2, <1>5, <2>4
    <3> QED
      BY <1>5, <2>4, <3>1
  <2>6. e \in Int /\ EndBy(e) /\ Len(t) > 0 /\ c.text = t
    BY <1>2, <1>3, <1>5, <1>10, <2>1, <2>2, <2>4
  <2>6a. Copied(e, t)
    <3>1. e - va = p /\ va <= e /\ e + Len(t) <= va + Len(d)
      BY <1>2, <1>3, <1>5, <2>1, <2>4
    <3> QED
      BY <1>1, <1>3, <2>5, <3>1 DEF Copied, Data
  <2>7. CandidatesOK' /\ EndBy(e + Len(t))'
    BY <1>2, <2>3, <2>4, <2>6, <2>6a, CandidateAdded
  <2>8. sections'[sec'].va + pos' = e + Len(t)
    <3>1. pos' = p + len
      BY <1>6, <1>10 DEF Advance
    <3>2. sections'[sec'].va = va
      BY <1>1, <1>2
    <3>3. va + (p + len) = (va + p) + len
      BY <1>2, <1>3, <1>5
    <3> QED
      BY <2>1, <2>4, <3>1, <3>2, <3>3
  <2>9. EndBy(sections[sec].va + pos)'
    BY <2>7, <2>8 DEF EndBy
  <2> QED
    BY <1>2, <1>8, <2>7, <2>9 DEF RecoverInv
<1> QED
  BY <1>9, <1>10

LEMMA LoaderStep == RecoverInv /\ [LoaderNext]_loaderVars => RecoverInv'
<1> SUFFICES ASSUME RecoverInv, [LoaderNext]_loaderVars PROVE RecoverInv'
  OBVIOUS
<1>1. TableInv /\ ScanTyped /\ sec \in Nat \ {0} /\ pos \in Nat
  BY DEF RecoverInv, TableInv, ScanTyped
<1>2. CASE ScanAscii \/ ScanWide \/ StartScan \/ EndAscii \/ NextSection
  <2>1. TableInv'
    BY <1>1, <1>2, AsciiKeeps, WideKeeps, OtherScansKeep
  <2>2. /\ step' \in {"ascii", "wide"} /\ candidates' = candidates
        /\ step \in {"dwarf", "ascii", "wide"}
    BY <1>2 DEF ScanAscii, ScanWide, StartScan, EndAscii, NextSection
  <2> QED
    BY <2>1, <2>2 DEF RecoverInv
<1>3. CASE LoadDwarf \/ Finished \/ UNCHANGED loaderVars
  <2>1. UNCHANGED <<sections, scanVars>>
    BY <1>3 DEF LoadDwarf, Finished, loaderVars
  <2>2. TableInv'
    BY <1>1, <2>1, OtherScansKeep
  <2>3. UNCHANGED <<sections, step, sec, pos, candidates>>
    BY <2>1 DEF scanVars
  <2>4. (CandidatesOK => CandidatesOK') /\ sections'[sec'].va + pos' = sections[sec].va + pos
    BY <2>3 DEF CandidatesOK, Copied, Data
  <2>5. EndBy(sections[sec].va + pos) => EndBy(sections[sec].va + pos)'
    BY <2>3, <2>4 DEF EndBy
  <2> QED
    BY <2>2, <2>3, <2>4, <2>5 DEF RecoverInv
<1>4. CASE EndScan
  <2>1. /\ step = "ascii" /\ candidates = Empty /\ candidates' = Empty /\ pos' = 0
        /\ UNCHANGED <<sections, start, buf, printable>>
    BY <1>4 DEF EndScan, RecoverInv
  <2>2. \/ step' \in {"done", "score"} /\ sec' = sec
        \/ /\ step' = "recover" /\ Named # {}
           /\ sec' = CHOOSE k \in Named : \A m \in Named : k <= m
    BY <1>4 DEF EndScan
  <2>3. step' = "recover" => sec' \in 1 .. Len(sections)
    <3>1. Named \subseteq 1 .. Len(sections)
      BY <1>1 DEF Named, ScanTyped
    <3>2. Named # {} => \E k \in Named : \A m \in Named : k <= m
      <4>1. Named \subseteq Nat
        BY <1>1, <3>1 DEF ScanTyped
      <4> QED
        BY <4>1, LeastOf
    <3>3. step' = "recover" => sec' \in Named
      BY <2>2, <3>2
    <3> QED
      BY <3>1, <3>3
  <2>4. sec' \in Nat \ {0}
    BY <1>1, <2>2, <2>3 DEF ScanTyped
  <2>5. TableInv'
    BY <1>1, <2>1, <2>2, <2>4, AfterScans
  <2>6. CandidatesOK' /\ EndBy(sections[sec].va + pos)'
    BY <2>1 DEF CandidatesOK, EndBy, Empty
  <2> QED
    BY <2>1, <2>2, <2>3, <2>5, <2>6 DEF RecoverInv
<1>5. CASE RecoverAt
  BY <1>5, RecoverKeeps
<1>6. CASE Panic \/ EndRecover \/ Recover \/ PanicInScore
  <2>1. /\ step \in {"recover", "score"} /\ step' \in {"panicked", "score", "done"}
        /\ UNCHANGED <<sections, sec, pos, start, buf, printable, candidates>>
    BY <1>6 DEF Panic, EndRecover, Recover, PanicInScore
  <2>2. TableInv'
    BY <1>1, <2>1, AfterScans
  <2>3. CandidatesOK'
    BY <2>1 DEF RecoverInv, CandidatesOK, Copied, Data
  <2> QED
    BY <2>1, <2>2, <2>3 DEF RecoverInv
<1> QED
  BY <1>2, <1>3, <1>4, <1>5, <1>6 DEF LoaderNext

LEMMA RecoverInit == LoaderInit => RecoverInv
BY TableInit DEF LoaderInit, RecoverInv

(***************************************************************************)
(* In every file, however its data sections lie: as long as the sections   *)
(* are scanned, every entry of the string table is what a program reads at *)
(* its address, narrow or wide, and every ASCII literal of a section that  *)
(* has been scanned is in the table.                                       *)
(***************************************************************************)
THEOREM ScannedTablesAreText == LoaderSpec => []TablesAreText
<1>1. RecoverInv => TablesAreText
  <2> SUFFICES ASSUME RecoverInv, step \in {"ascii", "wide"}
               PROVE  EntriesReadBack /\ LiteralsAreFound
    BY DEF TablesAreText
  <2>1. /\ ScanTyped /\ EntriesReadBack /\ sec <= Len(sections) + 1
        /\ \A s \in 1 .. sec - 1 : sections[s].kind \in {"rodata", "data"} =>
                LiteralsTo(s, Len(sections[s].data))
    BY DEF RecoverInv, TableInv
  <2>2. LiteralsAreFound
    <3> SUFFICES ASSUME NEW s \in 1 .. sec - 1, sections[s].kind \in {"rodata", "data"},
                        NEW d, d = sections[s].data,
                        NEW k \in 0 .. Len(d) - 1, NEW n \in 1 .. Len(d) - k - 1,
                        IsLiteral(s, k, SubSeq(d, k + 1, k + n))
                 PROVE  sections[s].va + k \in DOMAIN strings
      BY DEF LiteralsAreFound
    <3>1. s \in 1 .. Len(sections)
      BY <2>1 DEF ScanTyped
    <3>2. d \in Seq(Byte)
      BY <2>1, <3>1, SectionFacts
    <3>3. k + n < Len(d)
      BY <3>2
    <3> QED
      BY <2>1, <3>3 DEF LiteralsTo
  <2> QED
    BY <2>1, <2>2
<1> QED
  BY <1>1, RecoverInit, LoaderStep, PTL DEF LoaderSpec

(***************************************************************************)
(* In every file: no two recovered strings share a byte, so that no        *)
(* literal of the output is the tail of another, and each is the bytes at  *)
(* its address, with no zero among them.                                   *)
(***************************************************************************)
THEOREM RecoveredLieApart == LoaderSpec => []RecoveredAreDisjoint
<1>1. RecoverInv => RecoveredAreDisjoint
  BY DEF RecoverInv, CandidatesOK, Copied, RecoveredAreDisjoint
<1> QED
  BY <1>1, RecoverInit, LoaderStep, PTL DEF LoaderSpec
-----------------------------------------------------------------------------
(* The debug information.                                                  *)

DwarfTyped ==
    /\ units \in Programs
    /\ unit \in 1 .. Len(units) + 1 /\ entry \in Nat \ {0}
    /\ pass \in {"root", "map", "walk", "lines", "parsed"}
    /\ pass \in {"map", "walk", "lines"} => unit <= Len(units) /\ Read(unit)
    /\ pass = "parsed" => unit = Len(units) + 1

\* An info with lists of whatever they are.
IsInfo(i) ==
    \E T : i \in [state : {"none", "some"}, units : Seq(T), functions : Seq(T),
               types : Seq(T), lines : Seq(T)]

\* The walk has come to entry, and depth is the level it has reached.
WalkInv ==
    /\ pass \in {"map", "walk"} => 1 .. entry - 1 \subseteq Reached(Dies)
    /\ pass = "map" => depth = 0
    /\ pass = "walk" => depth = IF entry = 1 THEN 0 ELSE Dies[entry - 1].level

\* What the second pass has been over.
Behind ==
    {q \in Entries : \/ q[1] < unit
                     \/ q[1] = unit /\ pass = "walk" /\ q[2] < entry
                     \/ q[1] = unit /\ pass = "lines"}

RightFunction(q, f) ==
    /\ f.name = DieAt(q).name
    /\ \A s \in Spelling(units[q[1]].dies, q[2], MaxTypeDepth) : f.ret = s

RightType(q, t) == t.name = DieAt(q).name /\ t.tag = DieAt(q).tag

\* The functions and the types of the entries in S, in their order.
FunctionsFor(S, fs) ==
    /\ IsFiniteSet(S) /\ Len(fs) = Cardinality(S)
    /\ \A q \in S : RightFunction(q, fs[PlaceIn(S, q)])

TypesFor(S, ts) ==
    /\ IsFiniteSet(S) /\ Len(ts) = Cardinality(S)
    /\ \A q \in S : RightType(q, ts[PlaceIn(S, q)])

ReadInv ==
    /\ FunctionsFor(Bodies \cap Behind, info.functions)
    /\ TypesFor(Tops \cap Behind, info.types)

\* The words of the names, and those of the reader.
Word == STRING \cup {"*", "&", "[]", "?", "void", "..."}

\* A map of names that says what the chains say.
MapFor(dies, map) ==
    /\ DOMAIN map \subseteq DOMAIN dies
    /\ \A o \in DOMAIN map :
        /\ map[o] \in Seq(Word)
        /\ dies[o].tag \notin DerivedTags => map[o] = dies[o].name
        /\ dies[o].tag \in DerivedTags /\ ~HasPointerName(dies[o]) =>
            \A s \in Spelling(dies, o, MaxTypeDepth) : map[o] = DerivedOr(dies[o].tag, s)

DwarfInv ==
    /\ DwarfTyped /\ IsInfo(info) /\ WalkInv /\ ReadInv
    /\ pass \in {"map", "walk"} => MapFor(Dies, typeMap)

-----------------------------------------------------------------------------
(* The names of types.                                                     *)

LEMMA SeqWider ==
  ASSUME NEW S, NEW T, S \subseteq T, NEW s \in Seq(S)
  PROVE  s \in Seq(T)
OBVIOUS

LEMMA Alone ==
  ASSUME NEW T, NEW w \in T
  PROVE  <<w>> \in Seq(T)
OBVIOUS

LEMMA Joined ==
  ASSUME NEW T, NEW s \in Seq(T), NEW t \in Seq(T)
  PROVE  s \o t \in Seq(T)
OBVIOUS

LEMMA ReadersWords ==
  \A w \in {"*", "&", "[]", "?", "void", "..."} : <<w>> \in Seq(Word)
<1>1. \A w \in {"*", "&", "[]", "?", "void", "..."} : w \in Word
  BY DEF Word
<1> QED
  BY <1>1, Alone

LEMMA DerivedTyped ==
  ASSUME NEW tag \in STRING, NEW s \in Seq(Word)
  PROVE  DerivedOr(tag, s) \in Seq(Word)
<1>1. PICK inner : inner = IF s = <<>> THEN Nameless(tag) ELSE s
  OBVIOUS
<1>2. inner \in Seq(Word)
  BY <1>1, ReadersWords DEF Nameless
<1>3. \A w \in {"*", "&", "[]"} : inner \o <<w>> \in Seq(Word)
  BY <1>2, ReadersWords, Joined
<1>4. <<tag>> \o inner \in Seq(Word)
  <2>1. <<tag>> \in Seq(Word)
    <3>1. tag \in Word
      BY DEF Word
    <3> QED
      BY <3>1, Alone
  <2> QED
    BY <1>2, <2>1, Joined
<1>5. Derived(tag, inner) \in Seq(Word)
  BY <1>3, <1>4 DEF Derived
<1> QED
  BY <1>1, <1>5 DEF DerivedOr

LEMMA DieFacts ==
  ASSUME NEW dies \in Seq(Die), NEW o \in DOMAIN dies
  PROVE  /\ dies[o].tag \in STRING /\ dies[o].name \in Seq(Word)
         /\ dies[o].level \in Nat /\ dies[o].ref \in Nat
<1>1. PICK die : die = dies[o]
  OBVIOUS
<1>2. die \in Die
  BY <1>1
<1>3. /\ die.tag \in STRING /\ die.name \in Seq(STRING)
      /\ die.level \in Nat /\ die.ref \in Nat
  BY <1>2 DEF Die
<1>4. STRING \subseteq Word
  BY DEF Word
<1>5. die.name \in Seq(Word)
  BY <1>3, <1>4, SeqWider
<1> QED
  BY <1>1, <1>3, <1>5

\* One more entry of the chain.
SpellNext(dies, F) ==
    [p \in DOMAIN dies |->
        IF dies[p].ref \notin DOMAIN dies THEN {<<>>}
        ELSE IF dies[dies[p].ref].tag \notin DerivedTags THEN {dies[dies[p].ref].name}
        ELSE IF HasPointerName(dies[dies[p].ref]) THEN {}
        ELSE {DerivedOr(dies[dies[p].ref].tag, s) : s \in F[dies[p].ref]}]

NameNext(dies, map, F) ==
    [p \in DOMAIN dies |->
        IF dies[p].ref \notin DOMAIN dies THEN <<>>
        ELSE IF dies[p].ref \in DOMAIN map THEN map[dies[p].ref]
        ELSE IF dies[dies[p].ref].tag \in DerivedTags
             THEN DerivedOr(dies[dies[p].ref].tag, F[dies[p].ref])
             ELSE dies[dies[p].ref].name]

LEMMA SpellTyped ==
  ASSUME NEW dies \in Seq(Die), NEW F \in [DOMAIN dies -> SUBSET Seq(Word)]
  PROVE  SpellNext(dies, F) \in [DOMAIN dies -> SUBSET Seq(Word)]
<1> SUFFICES ASSUME NEW p \in DOMAIN dies
             PROVE  SpellNext(dies, F)[p] \in SUBSET Seq(Word)
  BY DEF SpellNext
<1>1. PICK to : to = dies[p].ref
  OBVIOUS
<1>2. to \in DOMAIN dies => dies[to].tag \in STRING /\ dies[to].name \in Seq(Word)
                            /\ F[to] \subseteq Seq(Word)
  BY DieFacts
<1>3. to \in DOMAIN dies => \A s \in F[to] : DerivedOr(dies[to].tag, s) \in Seq(Word)
  BY <1>2, DerivedTyped
<1>4. <<>> \in Seq(Word)
  OBVIOUS
<1> QED
  BY <1>1, <1>2, <1>3, <1>4 DEF SpellNext

LEMMA NameTyped ==
  ASSUME NEW dies \in Seq(Die), NEW F \in [DOMAIN dies -> Seq(Word)],
         NEW map, \A o \in DOMAIN map : map[o] \in Seq(Word)
  PROVE  NameNext(dies, map, F) \in [DOMAIN dies -> Seq(Word)]
<1> SUFFICES ASSUME NEW p \in DOMAIN dies
             PROVE  NameNext(dies, map, F)[p] \in Seq(Word)
  BY DEF NameNext
<1>1. PICK to : to = dies[p].ref
  OBVIOUS
<1>2. to \in DOMAIN dies => dies[to].tag \in STRING /\ dies[to].name \in Seq(Word)
                            /\ F[to] \in Seq(Word)
  BY DieFacts
<1>3. to \in DOMAIN dies => DerivedOr(dies[to].tag, F[to]) \in Seq(Word)
  BY <1>2, DerivedTyped
<1>4. <<>> \in Seq(Word)
  OBVIOUS
<1> QED
  BY <1>1, <1>2, <1>3, <1>4 DEF NameNext

LEMMA Iterated ==
  ASSUME NEW V, NEW x \in V, NEW onward \in [V -> V]
  PROVE  \E h \in [Nat -> V] : h[0] = x /\ \A n \in Nat : h[n + 1] = onward[h[n]]
BY Counting!IterationExists

\* The recursion of Spelling, unfolded.
LEMMA SpellingUnfolds ==
  \A dies : dies \in Seq(Die) =>
         \E f \in [Nat -> [DOMAIN dies -> SUBSET Seq(Word)]] :
            /\ \A p \in DOMAIN dies : f[0][p] = {}
            /\ \A k \in Nat : f[k + 1] = SpellNext(dies, f[k])
            /\ \A o \in DOMAIN dies, n \in Nat : Spelling(dies, o, n) = f[n + 1][o]
<1>1. SUFFICES ASSUME NEW dies, dies \in Seq(Die)
               PROVE  \E f \in [Nat -> [DOMAIN dies -> SUBSET Seq(Word)]] :
                        /\ \A p \in DOMAIN dies : f[0][p] = {}
                        /\ \A k \in Nat : f[k + 1] = SpellNext(dies, f[k])
                        /\ \A o \in DOMAIN dies, n \in Nat : Spelling(dies, o, n) = f[n + 1][o]
  OBVIOUS
<1>2. PICK none, Sets : none = [p \in DOMAIN dies |-> {}] /\ Sets = [DOMAIN dies -> SUBSET Seq(Word)]
  OBVIOUS
<1>3. PICK further : further = [F \in Sets |-> SpellNext(dies, F)]
  OBVIOUS
<1>4. further \in [Sets -> Sets] /\ none \in Sets /\ \A F \in Sets : further[F] = SpellNext(dies, F)
  BY <1>1, <1>2, <1>3, SpellTyped
<1>5. PICK h \in [Nat -> Sets] : h[0] = none /\ \A n \in Nat : h[n + 1] = further[h[n]]
  <2>1. none \in Sets
    BY <1>4
  <2>2. further \in [Sets -> Sets]
    BY <1>4
  <2>3. \E h \in [Nat -> Sets] : h[0] = none /\ \A n \in Nat : h[n + 1] = further[h[n]]
    BY <2>1, <2>2, Iterated
  <2> QED
    BY <2>3
<1>6. \A k \in Nat : h[k + 1] = SpellNext(dies, h[k])
  BY <1>4, <1>5
<1> DEFINE Unfolded(f) == [k \in Nat |->
            [p \in DOMAIN dies |->
                IF k = 0 THEN {}
                ELSE IF dies[p].ref \notin DOMAIN dies THEN {<<>>}
                ELSE IF dies[dies[p].ref].tag \notin DerivedTags THEN {dies[dies[p].ref].name}
                ELSE IF HasPointerName(dies[dies[p].ref]) THEN {}
                ELSE {DerivedOr(dies[dies[p].ref].tag, s) : s \in f[k - 1][dies[p].ref]}]]
<1> DEFINE g == CHOOSE f : f = Unfolded(f)
<1>7. \A o \in DOMAIN dies, n \in Nat : Spelling(dies, o, n) = g[n + 1][o]
  BY DEF Spelling
<1> HIDE DEF g
<1>8. \A f : Unfolded(f) = [k \in Nat |-> IF k = 0 THEN none ELSE SpellNext(dies, f[k - 1])]
  BY <1>2 DEF SpellNext
<1> HIDE DEF Unfolded
<1>9. h = Unfolded(h)
  <2>1. \A k \in Nat : k # 0 => h[k] = SpellNext(dies, h[k - 1])
    <3> TAKE k \in Nat
    <3> HAVE k # 0
    <3>1. k - 1 \in Nat /\ (k - 1) + 1 = k
      OBVIOUS
    <3> QED
      BY <1>6, <3>1
  <2>2. h = [k \in Nat |-> h[k]]
    OBVIOUS
  <2>3. h = [k \in Nat |-> IF k = 0 THEN none ELSE SpellNext(dies, h[k - 1])]
    BY <1>5, <2>1, <2>2
  <2> QED
    BY <1>8, <2>3
<1>10. g = Unfolded(g)
  BY <1>9, Zenon DEF g
<1>11. g = [k \in Nat |-> IF k = 0 THEN none ELSE SpellNext(dies, g[k - 1])]
  BY <1>8, <1>10
<1>12. g[0] = none /\ \A k \in Nat : g[k + 1] = SpellNext(dies, g[k])
  <2>1. g[0] = none
    BY <1>11
  <2>2. \A k \in Nat : k # 0 => g[k] = SpellNext(dies, g[k - 1])
    BY <1>11, Zenon
  <2>3. \A k \in Nat : k + 1 \in Nat /\ k + 1 # 0 /\ (k + 1) - 1 = k
    OBVIOUS
  <2>4. \A k \in Nat : g[k + 1] = SpellNext(dies, g[k])
    BY <2>2, <2>3
  <2> QED
    BY <2>1, <2>4
<1> DEFINE T == {k \in Nat : g[k] \in Sets}
<1>13. \A k \in Nat : k \in T
  <2>1. 0 \in T
    BY <1>4, <1>12
  <2>2. \A k \in Nat : k \in T => k + 1 \in T
    <3> SUFFICES ASSUME NEW k \in Nat, g[k] \in Sets PROVE g[k + 1] \in Sets
      OBVIOUS
    <3>1. PICK F : F = g[k]
      OBVIOUS
    <3>2. F \in [DOMAIN dies -> SUBSET Seq(Word)]
      BY <1>2, <3>1
    <3>3. SpellNext(dies, F) \in Sets
      BY <1>1, <1>2, <3>2, SpellTyped
    <3> QED
      BY <1>12, <3>1, <3>3
  <2> HIDE DEF T
  <2> QED
    BY <2>1, <2>2, Counting!AllNumbers
<1>14. g \in [Nat -> Sets]
  <2>1. PICK d : d = [k \in Nat |-> IF k = 0 THEN none ELSE SpellNext(dies, g[k - 1])]
    OBVIOUS
  <2>2. g = d /\ d = [k \in Nat |-> d[k]]
    BY <1>11, <2>1
  <2> QED
    BY <1>13, <2>2
<1>15. \A p \in DOMAIN dies : g[0][p] = {}
  BY <1>2, <1>12
<1> QED
  BY <1>7, <1>2, <1>12, <1>14, <1>15

\* The recursion of Resolved, unfolded.
Resolves(f, dies, map) ==
    /\ \A p \in DOMAIN dies : f[0][p] = <<"...">>
    /\ \A k \in Nat : f[k + 1] = NameNext(dies, map, f[k])
    /\ \A o \in DOMAIN dies : Resolved(dies, map, o) = f[MaxTypeDepth + 1][o]

LEMMA ResolvedUnfolds ==
  \A dies : dies \in Seq(Die) => \A map : (\A o \in DOMAIN map : map[o] \in Seq(Word)) =>
         \E f \in [Nat -> [DOMAIN dies -> Seq(Word)]] : Resolves(f, dies, map)
<1>1. SUFFICES ASSUME NEW dies, dies \in Seq(Die),
                      NEW map, \A o \in DOMAIN map : map[o] \in Seq(Word)
               PROVE  \E f \in [Nat -> [DOMAIN dies -> Seq(Word)]] :
                        /\ \A p \in DOMAIN dies : f[0][p] = <<"...">>
                        /\ \A k \in Nat : f[k + 1] = NameNext(dies, map, f[k])
                        /\ \A o \in DOMAIN dies : Resolved(dies, map, o) = f[MaxTypeDepth + 1][o]
  BY DEF Resolves
<1>2. PICK none, Names : none = [p \in DOMAIN dies |-> <<"...">>] /\ Names = [DOMAIN dies -> Seq(Word)]
  OBVIOUS
<1>3. PICK further : further = [F \in Names |-> NameNext(dies, map, F)]
  OBVIOUS
<1>4. further \in [Names -> Names] /\ none \in Names /\ \A F \in Names : further[F] = NameNext(dies, map, F)
  BY <1>1, <1>2, <1>3, ReadersWords, NameTyped
<1>5. PICK h \in [Nat -> Names] : h[0] = none /\ \A n \in Nat : h[n + 1] = further[h[n]]
  <2>1. none \in Names
    BY <1>4
  <2>2. further \in [Names -> Names]
    BY <1>4
  <2>3. \E h \in [Nat -> Names] : h[0] = none /\ \A n \in Nat : h[n + 1] = further[h[n]]
    BY <2>1, <2>2, Iterated
  <2> QED
    BY <2>3
<1>6. \A k \in Nat : h[k + 1] = NameNext(dies, map, h[k])
  BY <1>4, <1>5
<1> DEFINE Unfolded(f) == [k \in Nat |->
            [p \in DOMAIN dies |->
                IF k = 0 THEN <<"...">>
                ELSE IF dies[p].ref \notin DOMAIN dies THEN <<>>
                ELSE IF dies[p].ref \in DOMAIN map THEN map[dies[p].ref]
                ELSE IF dies[dies[p].ref].tag \in DerivedTags
                     THEN DerivedOr(dies[dies[p].ref].tag, f[k - 1][dies[p].ref])
                     ELSE dies[dies[p].ref].name]]
<1> DEFINE g == CHOOSE f : f = Unfolded(f)
<1>7. \A o \in DOMAIN dies : Resolved(dies, map, o) = g[MaxTypeDepth + 1][o]
  BY DEF Resolved
<1> HIDE DEF g
<1>8. \A f : Unfolded(f) = [k \in Nat |-> IF k = 0 THEN none ELSE NameNext(dies, map, f[k - 1])]
  BY <1>2 DEF NameNext
<1> HIDE DEF Unfolded
<1>9. h = Unfolded(h)
  <2>1. \A k \in Nat : k # 0 => h[k] = NameNext(dies, map, h[k - 1])
    <3> TAKE k \in Nat
    <3> HAVE k # 0
    <3>1. k - 1 \in Nat /\ (k - 1) + 1 = k
      OBVIOUS
    <3> QED
      BY <1>6, <3>1
  <2>2. h = [k \in Nat |-> h[k]]
    OBVIOUS
  <2>3. h = [k \in Nat |-> IF k = 0 THEN none ELSE NameNext(dies, map, h[k - 1])]
    BY <1>5, <2>1, <2>2
  <2> QED
    BY <1>8, <2>3
<1>10. g = Unfolded(g)
  BY <1>9, Zenon DEF g
<1>11. g = [k \in Nat |-> IF k = 0 THEN none ELSE NameNext(dies, map, g[k - 1])]
  BY <1>8, <1>10
<1>12. g[0] = none /\ \A k \in Nat : g[k + 1] = NameNext(dies, map, g[k])
  <2>1. g[0] = none
    BY <1>11
  <2>2. \A k \in Nat : k # 0 => g[k] = NameNext(dies, map, g[k - 1])
    BY <1>11, Zenon
  <2>3. \A k \in Nat : k + 1 \in Nat /\ k + 1 # 0 /\ (k + 1) - 1 = k
    OBVIOUS
  <2>4. \A k \in Nat : g[k + 1] = NameNext(dies, map, g[k])
    BY <2>2, <2>3
  <2> QED
    BY <2>1, <2>4
<1> DEFINE T == {k \in Nat : g[k] \in Names}
<1>13. \A k \in Nat : k \in T
  <2>1. 0 \in T
    BY <1>4, <1>12
  <2>2. \A k \in Nat : k \in T => k + 1 \in T
    <3> SUFFICES ASSUME NEW k \in Nat, g[k] \in Names PROVE g[k + 1] \in Names
      OBVIOUS
    <3>1. PICK F : F = g[k]
      OBVIOUS
    <3>2. F \in [DOMAIN dies -> Seq(Word)]
      BY <1>2, <3>1
    <3>3. NameNext(dies, map, F) \in Names
      BY <1>1, <1>2, <3>2, NameTyped
    <3> QED
      BY <1>12, <3>1, <3>3
  <2> HIDE DEF T
  <2> QED
    BY <2>1, <2>2, Counting!AllNumbers
<1>14. g \in [Nat -> Names]
  <2>1. PICK d : d = [k \in Nat |-> IF k = 0 THEN none ELSE NameNext(dies, map, g[k - 1])]
    OBVIOUS
  <2>2. g = d /\ d = [k \in Nat |-> d[k]]
    BY <1>11, <2>1
  <2> QED
    BY <1>13, <2>2
<1>15. \A p \in DOMAIN dies : g[0][p] = <<"...">>
  BY <1>2, <1>12
<1> QED
  BY <1>7, <1>2, <1>12, <1>14, <1>15

\* The longer the look, the more is spelt.
LEMMA SpellingGrows ==
  ASSUME NEW dies, NEW f,
         \A p \in DOMAIN dies : f[0][p] = {},
         \A k \in Nat : f[k + 1] = SpellNext(dies, f[k])
  PROVE  \A k \in Nat : \A m \in Nat : k <= m => \A p \in DOMAIN dies : f[k][p] \subseteq f[m][p]
<1> DEFINE T == {k \in Nat : \A p \in DOMAIN dies : f[k][p] \subseteq f[k + 1][p]}
<1>1. \A k \in Nat : k \in T
  <2>1. 0 \in T
    OBVIOUS
  <2>2. ASSUME NEW k \in Nat, k \in T PROVE k + 1 \in T
    <3>1. PICK F, G : F = f[k] /\ G = f[k + 1]
      OBVIOUS
    <3>2. f[k + 1] = SpellNext(dies, F) /\ f[(k + 1) + 1] = SpellNext(dies, G)
      BY <3>1
    <3>3. \A p \in DOMAIN dies : F[p] \subseteq G[p]
      BY <2>2, <3>1
    <3>4. ASSUME NEW p \in DOMAIN dies
          PROVE  SpellNext(dies, F)[p] \subseteq SpellNext(dies, G)[p]
      <4>1. PICK to, tag : to = dies[p].ref /\ tag = dies[to].tag
        OBVIOUS
      <4>2. to \in DOMAIN dies => {DerivedOr(tag, s) : s \in F[to]} \subseteq {DerivedOr(tag, s) : s \in G[to]}
        BY <3>3
      <4>3. \A H : SpellNext(dies, H)[p] =
                IF to \notin DOMAIN dies THEN {<<>>}
                ELSE IF tag \notin DerivedTags THEN {dies[to].name}
                ELSE IF HasPointerName(dies[to]) THEN {}
                ELSE {DerivedOr(tag, s) : s \in H[to]}
        BY <4>1 DEF SpellNext
      <4> QED
        BY <4>2, <4>3
    <3> QED
      BY <3>2, <3>4
  <2> HIDE DEF T
  <2> QED
    BY <2>1, <2>2, Counting!AllNumbers
<1>2. \A k \in Nat : \A p \in DOMAIN dies : f[k][p] \subseteq f[k + 1][p]
  BY <1>1
<1> SUFFICES ASSUME NEW k \in Nat
             PROVE  \A m \in Nat : k <= m => \A p \in DOMAIN dies : f[k][p] \subseteq f[m][p]
  OBVIOUS
<1> DEFINE U == {m \in Nat : k <= m => \A p \in DOMAIN dies : f[k][p] \subseteq f[m][p]}
<1>3. 0 \in U
  OBVIOUS
<1>4. \A m \in Nat : m \in U => m + 1 \in U
  <2> SUFFICES ASSUME NEW m \in Nat, m \in U, k <= m + 1
               PROVE  \A p \in DOMAIN dies : f[k][p] \subseteq f[m + 1][p]
    OBVIOUS
  <2>1. k <= m \/ k = m + 1
    OBVIOUS
  <2> QED
    BY <1>2, <2>1
<1> HIDE DEF U
<1>5. \A m \in Nat : m \in U
  BY <1>3, <1>4, Counting!AllNumbers
<1> QED
  BY <1>5 DEF U

\* With a map of names that says what the chains say, resolve_type_ref does.
LEMMA ResolvedAsSpelt ==
  ASSUME NEW dies, dies \in Seq(Die), NEW map, MapFor(dies, map)
  PROVE  \A o \in DOMAIN dies :
            /\ Resolved(dies, map, o) \in Seq(Word)
            /\ \A s \in Spelling(dies, o, MaxTypeDepth) : Resolved(dies, map, o) = s
<1>1. \A o \in DOMAIN map : map[o] \in Seq(Word)
  BY DEF MapFor
<1>2. PICK f \in [Nat -> [DOMAIN dies -> SUBSET Seq(Word)]] :
               /\ \A p \in DOMAIN dies : f[0][p] = {}
               /\ \A k \in Nat : f[k + 1] = SpellNext(dies, f[k])
               /\ \A o \in DOMAIN dies, n \in Nat : Spelling(dies, o, n) = f[n + 1][o]
  BY SpellingUnfolds
<1>3. PICK g \in [Nat -> [DOMAIN dies -> Seq(Word)]] :
               /\ \A p \in DOMAIN dies : g[0][p] = <<"...">>
               /\ \A k \in Nat : g[k + 1] = NameNext(dies, map, g[k])
               /\ \A o \in DOMAIN dies : Resolved(dies, map, o) = g[MaxTypeDepth + 1][o]
  <2>1. dies \in Seq(Die) /\ \A o \in DOMAIN map : map[o] \in Seq(Word)
    BY <1>1
  <2>2. \E g \in [Nat -> [DOMAIN dies -> Seq(Word)]] : Resolves(g, dies, map)
    BY <2>1, ResolvedUnfolds, Zenon
  <2> QED
    BY <2>2 DEF Resolves
<1>4. MaxTypeDepth \in Nat /\ MaxTypeDepth + 1 \in Nat
  BY DwarfAssumption
<1>5. \A k \in Nat : k <= MaxTypeDepth + 1 =>
        \A p \in DOMAIN dies : f[k][p] \subseteq Spelling(dies, p, MaxTypeDepth)
  <2>1. \A k \in Nat : \A m \in Nat : k <= m => \A p \in DOMAIN dies : f[k][p] \subseteq f[m][p]
    BY <1>2, SpellingGrows
  <2>2. \A p \in DOMAIN dies : Spelling(dies, p, MaxTypeDepth) = f[MaxTypeDepth + 1][p]
    BY <1>2, <1>4
  <2>3. \A k \in Nat : k <= MaxTypeDepth + 1 => \A p \in DOMAIN dies : f[k][p] \subseteq f[MaxTypeDepth + 1][p]
    BY <1>4, <2>1
  <2> QED
    BY <2>2, <2>3
<1> DEFINE T == {k \in Nat : k <= MaxTypeDepth + 1 =>
                    \A p \in DOMAIN dies : \A s \in f[k][p] : g[k][p] = s}
<1>6. 0 \in T
  BY <1>2
<1>7. ASSUME NEW k \in Nat, k \in T PROVE k + 1 \in T
  <2> SUFFICES ASSUME k + 1 <= MaxTypeDepth + 1, NEW p \in DOMAIN dies, NEW s \in f[k + 1][p]
               PROVE  g[k + 1][p] = s
    OBVIOUS
  <2>1. PICK F, G : F = f[k] /\ G = g[k]
    OBVIOUS
  <2>2. PICK to, tag : to = dies[p].ref /\ tag = dies[to].tag
    OBVIOUS
  <2>3. s \in SpellNext(dies, F)[p] /\ g[k + 1][p] = NameNext(dies, map, G)[p]
    BY <1>2, <1>3, <2>1
  <2>4. to \in DOMAIN dies => \A t \in F[to] : G[to] = t /\ t \in Spelling(dies, to, MaxTypeDepth)
    <3>1. k <= MaxTypeDepth + 1
      BY <1>4
    <3>2. \A q \in DOMAIN dies : \A t \in F[q] : G[q] = t
      BY <1>7, <2>1, <3>1
    <3>3. \A q \in DOMAIN dies : F[q] \subseteq Spelling(dies, q, MaxTypeDepth)
      BY <1>5, <2>1, <3>1
    <3> QED
      BY <3>2, <3>3
  <2>5. /\ to \notin DOMAIN dies => s = <<>>
        /\ to \in DOMAIN dies /\ tag \notin DerivedTags => s = dies[to].name
        /\ to \in DOMAIN dies /\ tag \in DerivedTags =>
            ~HasPointerName(dies[to]) /\ \E t \in F[to] : s = DerivedOr(tag, t)
    BY <2>2, <2>3 DEF SpellNext
  <2>6. NameNext(dies, map, G)[p] =
            IF to \notin DOMAIN dies THEN <<>>
            ELSE IF to \in DOMAIN map THEN map[to]
            ELSE IF tag \in DerivedTags THEN DerivedOr(tag, G[to])
            ELSE dies[to].name
    BY <2>2 DEF NameNext
  <2>7. to \in DOMAIN map =>
            /\ to \in DOMAIN dies
            /\ tag \notin DerivedTags => map[to] = dies[to].name
            /\ tag \in DerivedTags /\ ~HasPointerName(dies[to]) =>
                \A t \in Spelling(dies, to, MaxTypeDepth) : map[to] = DerivedOr(tag, t)
    BY <2>2 DEF MapFor
  <2> QED
    BY <2>3, <2>4, <2>5, <2>6, <2>7
<1> HIDE DEF T
<1>8. \A k \in Nat : k \in T
  BY <1>6, <1>7, Counting!AllNumbers
<1>9. \A p \in DOMAIN dies : \A s \in f[MaxTypeDepth + 1][p] : g[MaxTypeDepth + 1][p] = s
  BY <1>4, <1>8 DEF T
<1>10. \A o \in DOMAIN dies : g[MaxTypeDepth + 1][o] \in Seq(Word)
  BY <1>3, <1>4
<1> QED
  BY <1>2, <1>3, <1>4, <1>9, <1>10

-----------------------------------------------------------------------------
(* The two passes over the entries of a unit.                              *)

LEMMA UnitFacts ==
  ASSUME units \in Programs, NEW u \in 1 .. Len(units)
  PROVE  /\ units[u].dies \in Seq(Die) /\ u \in DOMAIN units
         /\ units[u].dies # <<>> => units[u].dies[1].level = 0
<1>1. PICK p : p = units
  OBVIOUS
<1>2. /\ p \in Seq([ok : BOOLEAN, dies : Seq(Die), rows : Seq(Row)])
      /\ \A v \in DOMAIN p : p[v].dies # <<>> => p[v].dies[1].level = 0
  BY <1>1, DwarfAssumption
<1>3. u \in DOMAIN p /\ p[u] \in [ok : BOOLEAN, dies : Seq(Die), rows : Seq(Row)]
  <2>1. PICK S : S = [ok : BOOLEAN, dies : Seq(Die), rows : Seq(Row)]
    OBVIOUS
  <2>2. p \in Seq(S) /\ u \in 1 .. Len(p)
    BY <1>1, <1>2, <2>1
  <2>3. u \in DOMAIN p /\ p[u] \in S
    BY <2>2
  <2> QED
    BY <2>1, <2>3
<1> QED
  BY <1>1, <1>2, <1>3

LEMMA EntryFacts ==
  ASSUME units \in Programs
  PROVE  /\ \A q \in Entries : /\ q[1] \in 1 .. Len(units) /\ q[2] \in Nat \ {0}
                               /\ q = <<q[1], q[2]>> /\ Read(q[1])
                               /\ q[2] \in Reached(units[q[1]].dies)
         /\ \A u \in 1 .. Len(units) : \A o \in Reached(units[u].dies) :
                Read(u) => <<u, o>> \in Entries
<1>1. DOMAIN units = 1 .. Len(units)
  BY DwarfAssumption
<1>2. \A u \in 1 .. Len(units) : Reached(units[u].dies) \subseteq Nat \ {0}
  <2> TAKE u \in 1 .. Len(units)
  <2>1. DOMAIN units[u].dies \subseteq Nat \ {0}
    BY UnitFacts
  <2> QED
    BY <2>1 DEF Reached
<1>3. \A q : q \in Entries <=> /\ \E u \in 1 .. Len(units) : q \in {u} \X Reached(units[u].dies)
                               /\ Read(q[1])
  BY <1>1 DEF Entries
<1>4. ASSUME NEW q \in Entries
      PROVE  /\ q[1] \in 1 .. Len(units) /\ q[2] \in Nat \ {0} /\ q = <<q[1], q[2]>> /\ Read(q[1])
             /\ q[2] \in Reached(units[q[1]].dies)
  <2>1. PICK u \in 1 .. Len(units) : q \in {u} \X Reached(units[u].dies)
    BY <1>3
  <2>2. q[1] = u /\ q[2] \in Reached(units[u].dies) /\ q = <<q[1], q[2]>>
    BY <2>1
  <2>3. Read(q[1])
    BY <1>3
  <2> QED
    BY <1>2, <2>2, <2>3
<1>5. ASSUME NEW u \in 1 .. Len(units), NEW o \in Reached(units[u].dies), Read(u)
      PROVE  <<u, o>> \in Entries
  <2>1. PICK q : q = <<u, o>>
    OBVIOUS
  <2>2. q \in {u} \X Reached(units[u].dies) /\ q[1] = u
    BY <2>1
  <2> QED
    BY <1>3, <1>5, <2>1, <2>2
<1> QED
  BY <1>4, <1>5

\* In the order of the file.
Precedes(r, q) == r[1] < q[1] \/ (r[1] = q[1] /\ r[2] < q[2])

\* Behind the last one there is a new place; the others keep theirs.
LEMMA PlacesStay ==
  ASSUME NEW S, S \subseteq Nat \X Nat, IsFiniteSet(S), NEW x \in Nat \X Nat,
         \A r \in S : Precedes(r, x)
  PROVE  /\ IsFiniteSet(S \cup {x}) /\ Cardinality(S) \in Nat
         /\ Cardinality(S \cup {x}) = Cardinality(S) + 1
         /\ PlaceIn(S \cup {x}, x) = Cardinality(S) + 1
         /\ \A q \in S : /\ PlaceIn(S \cup {x}, q) = PlaceIn(S, q)
                         /\ PlaceIn(S, q) \in 1 .. Cardinality(S)
<1>1. x \notin S
  BY DEF Precedes
<1>2. IsFiniteSet(S \cup {x}) /\ Cardinality(S \cup {x}) = Cardinality(S) + 1 /\ Cardinality(S) \in Nat
  BY <1>1, FS_AddElement, FS_CardinalityType
<1>3. {r \in S \cup {x} : r[1] < x[1] \/ (r[1] = x[1] /\ r[2] <= x[2])} = S \cup {x}
  BY DEF Precedes
<1>4. ASSUME NEW q \in S
      PROVE  PlaceIn(S \cup {x}, q) = PlaceIn(S, q) /\ PlaceIn(S, q) \in 1 .. Cardinality(S)
  <2>1. PICK R : R = {r \in S : r[1] < q[1] \/ (r[1] = q[1] /\ r[2] <= q[2])}
    OBVIOUS
  <2>2. {r \in S \cup {x} : r[1] < q[1] \/ (r[1] = q[1] /\ r[2] <= q[2])} = R
    BY <2>1 DEF Precedes
  <2>3. R \subseteq S /\ q \in R
    BY <2>1
  <2>4. IsFiniteSet(R) /\ Cardinality(R) <= Cardinality(S) /\ Cardinality(R) \in Nat
    BY <2>3, FS_Subset, FS_CardinalityType
  <2>5. Cardinality(R) # 0
    BY <2>3, <2>4, FS_EmptySet
  <2>6. PlaceIn(S \cup {x}, q) = Cardinality(R) /\ PlaceIn(S, q) = Cardinality(R)
    BY <2>1, <2>2 DEF PlaceIn
  <2>7. Cardinality(R) \in 1 .. Cardinality(S)
    BY <1>2, <2>4, <2>5
  <2> QED
    BY <2>6, <2>7
<1> QED
  BY <1>2, <1>3, <1>4 DEF PlaceIn

LEMMA Appended ==
  ASSUME NEW T, NEW s \in Seq(T), NEW e
  PROVE  /\ Append(s, e) \in Seq(T \cup {e}) /\ Len(Append(s, e)) = Len(s) + 1
         /\ Append(s, e)[Len(s) + 1] = e
         /\ \A k \in 1 .. Len(s) : Append(s, e)[k] = s[k]
<1>1. s \in Seq(T \cup {e}) /\ e \in T \cup {e}
  BY SeqWider
<1> QED
  BY <1>1

LEMMA FunctionsGrow ==
  ASSUME NEW S, S \subseteq Nat \X Nat, NEW x \in Nat \X Nat, \A r \in S : Precedes(r, x),
         NEW T, NEW fs \in Seq(T), FunctionsFor(S, fs), NEW f, RightFunction(x, f)
  PROVE  FunctionsFor(S \cup {x}, Append(fs, f))
<1>1. PICK gs, U : gs = Append(fs, f) /\ U = S \cup {x}
  OBVIOUS
<1>2. /\ IsFiniteSet(U) /\ Cardinality(S) \in Nat /\ Cardinality(U) = Cardinality(S) + 1
      /\ PlaceIn(U, x) = Cardinality(S) + 1
      /\ \A q \in S : PlaceIn(U, q) = PlaceIn(S, q) /\ PlaceIn(S, q) \in 1 .. Cardinality(S)
  BY <1>1, PlacesStay DEF FunctionsFor
<1>3. /\ Len(gs) = Len(fs) + 1 /\ gs[Len(fs) + 1] = f
      /\ \A k \in 1 .. Len(fs) : gs[k] = fs[k]
  BY <1>1, Appended
<1>4. Len(fs) = Cardinality(S) /\ \A q \in S : RightFunction(q, fs[PlaceIn(S, q)])
  BY DEF FunctionsFor
<1>5. \A q \in U : RightFunction(q, gs[PlaceIn(U, q)])
  <2> TAKE q \in U
  <2>1. CASE q = x
    BY <1>2, <1>3, <1>4, <2>1
  <2>2. CASE q \in S
    BY <1>2, <1>3, <1>4, <2>2
  <2> QED
    BY <1>1, <2>1, <2>2
<1>6. FunctionsFor(U, gs)
  BY <1>2, <1>3, <1>4, <1>5 DEF FunctionsFor
<1> QED
  BY <1>1, <1>6

LEMMA TypesGrow ==
  ASSUME NEW S, S \subseteq Nat \X Nat, NEW x \in Nat \X Nat, \A r \in S : Precedes(r, x),
         NEW T, NEW ts \in Seq(T), TypesFor(S, ts), NEW t, RightType(x, t)
  PROVE  TypesFor(S \cup {x}, Append(ts, t))
<1>1. PICK gs, U : gs = Append(ts, t) /\ U = S \cup {x}
  OBVIOUS
<1>2. /\ IsFiniteSet(U) /\ Cardinality(S) \in Nat /\ Cardinality(U) = Cardinality(S) + 1
      /\ PlaceIn(U, x) = Cardinality(S) + 1
      /\ \A q \in S : PlaceIn(U, q) = PlaceIn(S, q) /\ PlaceIn(S, q) \in 1 .. Cardinality(S)
  BY <1>1, PlacesStay DEF TypesFor
<1>3. /\ Len(gs) = Len(ts) + 1 /\ gs[Len(ts) + 1] = t
      /\ \A k \in 1 .. Len(ts) : gs[k] = ts[k]
  BY <1>1, Appended
<1>4. Len(ts) = Cardinality(S) /\ \A q \in S : RightType(q, ts[PlaceIn(S, q)])
  BY DEF TypesFor
<1>5. \A q \in U : RightType(q, gs[PlaceIn(U, q)])
  <2> TAKE q \in U
  <2>1. CASE q = x
    BY <1>2, <1>3, <1>4, <2>1
  <2>2. CASE q \in S
    BY <1>2, <1>3, <1>4, <2>2
  <2> QED
    BY <1>1, <2>1, <2>2
<1>6. TypesFor(U, gs)
  BY <1>2, <1>3, <1>4, <1>5 DEF TypesFor
<1> QED
  BY <1>1, <1>6

\* The functions and types read stay right where nothing is read.
LEMMA ReadStays ==
  ASSUME units' = units, Behind' = Behind, ReadInv,
         info'.functions = info.functions, info'.types = info.types
  PROVE  ReadInv'
<1>1. PICK B, C : B = Bodies \cap Behind /\ C = Tops \cap Behind
  OBVIOUS
<1>2. Entries' = Entries
  BY DEF Entries, Read
<1>3. (Bodies \cap Behind)' = B /\ (Tops \cap Behind)' = C
  BY <1>1, <1>2 DEF Bodies, Tops, DieAt
<1>4. PICK fs, ts : fs = info.functions /\ ts = info.types
  OBVIOUS
<1>5. FunctionsFor(B, fs) /\ TypesFor(C, ts)
  BY <1>1, <1>4 DEF ReadInv
<1>6. FunctionsFor(B, fs)' /\ TypesFor(C, ts)'
  BY <1>5 DEF FunctionsFor, TypesFor, RightFunction, RightType, DieAt
<1>7. info'.functions = fs /\ info'.types = ts
  BY <1>4
<1>8. FunctionsFor(Bodies \cap Behind, info.functions)'
  BY <1>3, <1>6, <1>7 DEF FunctionsFor
<1>9. TypesFor(Tops \cap Behind, info.types)'
  BY <1>3, <1>6, <1>7 DEF TypesFor
<1> QED
  BY <1>8, <1>9 DEF ReadInv

\* What is behind.
LEMMA BehindFacts ==
  ASSUME DwarfTyped
  PROVE  /\ Behind \subseteq Entries /\ Behind \subseteq Nat \X Nat
         /\ \A q \in Entries : q \in Behind <=> \/ q[1] < unit
                                                \/ q[1] = unit /\ pass = "walk" /\ q[2] < entry
                                                \/ q[1] = unit /\ pass = "lines"
<1>1. \A q \in Entries : q \in Nat \X Nat
  BY EntryFacts DEF DwarfTyped
<1> QED
  BY <1>1 DEF Behind

\* The walk ends where the entries that are reached do.
LEMMA WalkEnds ==
  ASSUME DwarfTyped, unit <= Len(units), ~Readable
  PROVE  \A o \in Reached(Dies) : o < entry
<1>1. Dies \in Seq(Die) /\ entry \in Nat \ {0}
  <2>1. unit \in 1 .. Len(units) /\ units \in Programs /\ entry \in Nat \ {0}
    BY DEF DwarfTyped
  <2>2. units[unit].dies \in Seq(Die)
    BY <2>1, UnitFacts
  <2> QED
    BY <2>1, <2>2 DEF Dies
<1>2. PICK d : d = Dies
  OBVIOUS
<1>3. entry > Len(d) \/ d[entry].tag = "bad"
  BY <1>1, <1>2 DEF Readable
<1>4. ASSUME NEW o \in Reached(d) PROVE o < entry
  <2>1. o \in 1 .. Len(d) /\ \A p \in 1 .. o : d[p].tag # "bad"
    BY <1>1, <1>2 DEF Reached
  <2> QED
    BY <1>1, <1>3, <2>1
<1> QED
  BY <1>2, <1>4

\* One more entry that can be read.
LEMMA ReachedNext ==
  ASSUME DwarfTyped, pass \in {"map", "walk"}, Readable, WalkInv
  PROVE  /\ Dies \in Seq(Die) /\ entry \in DOMAIN Dies /\ entry \in Reached(Dies)
         /\ 1 .. (entry + 1) - 1 \subseteq Reached(Dies) /\ unit \in 1 .. Len(units)
<1>1. /\ Dies \in Seq(Die) /\ entry \in Nat \ {0} /\ entry <= Len(Dies)
      /\ unit \in 1 .. Len(units)
  <2>1. unit \in 1 .. Len(units) /\ units \in Programs /\ entry \in Nat \ {0}
    BY DEF DwarfTyped
  <2>2. units[unit].dies \in Seq(Die)
    BY <2>1, UnitFacts
  <2>3. entry <= Len(Dies)
    BY DEF Readable
  <2> QED
    BY <2>1, <2>2, <2>3 DEF Dies
<1>2. PICK d, e : d = Dies /\ e = entry
  OBVIOUS
<1>3. 1 .. e - 1 \subseteq Reached(d) /\ d[e].tag # "bad" /\ e \in 1 .. Len(d)
  BY <1>1, <1>2 DEF WalkInv, Readable
<1>4. \A p \in 1 .. e : d[p].tag # "bad"
  <2> TAKE p \in 1 .. e
  <2>1. p = e \/ p \in 1 .. e - 1
    BY <1>3
  <2>2. p \in Reached(d) => p \in 1 .. p /\ d[p].tag # "bad"
    BY <1>1, <1>2 DEF Reached
  <2> QED
    BY <1>3, <2>1, <2>2
<1>5. \A o \in 1 .. e : o \in Reached(d)
  <2> TAKE o \in 1 .. e
  <2>1. o \in DOMAIN d
    BY <1>1, <1>2, <1>3
  <2>2. \A p \in 1 .. o : p \in 1 .. e
    BY <1>3
  <2> QED
    BY <1>4, <2>1, <2>2 DEF Reached
<1> QED
  BY <1>1, <1>2, <1>3, <1>5

LEMMA ReadRootKeeps == DwarfInv /\ ReadRoot => DwarfInv'
<1> SUFFICES ASSUME DwarfInv, ReadRoot PROVE DwarfInv'
  OBVIOUS
<1>1. DwarfTyped /\ pass = "root" /\ unit \in 1 .. Len(units) /\ units' = units /\ depth' = 0
  BY DEF DwarfInv, DwarfTyped, ReadRoot
<1>2. PICK u : u = unit
  OBVIOUS
<1>3. \/ Read(u) /\ pass' = "map" /\ entry' = 1 /\ unit' = u
      \/ ~Read(u) /\ pass' = "root" /\ entry' = 1 /\ unit' = u + 1
  BY <1>2 DEF ReadRoot, NextUnit, Read, Dies
<1>4. Read(u)' <=> Read(u)
  BY <1>1 DEF Read
<1>5. DwarfTyped'
  <2>1. pass' = "map" => Read(unit)'
    BY <1>2, <1>3, <1>4 DEF Read
  <2> QED
    BY <1>1, <1>2, <1>3, <2>1 DEF DwarfTyped
<1>6. Behind' = Behind
  <2>1. Entries' = Entries
    BY <1>1 DEF Entries, Read
  <2>2. \A q \in Entries : q[1] \in Nat /\ Read(q[1])
    BY <1>1, EntryFacts DEF DwarfTyped
  <2>3. Behind = {q \in Entries : q[1] < u}
    BY <1>1, <1>2 DEF Behind
  <2>4. Behind' = {q \in Entries : q[1] < unit'}
    BY <1>3, <2>1 DEF Behind
  <2> QED
    BY <1>1, <1>2, <1>3, <2>2, <2>3, <2>4
<1>7. IsInfo(info') /\ info'.functions = info.functions /\ info'.types = info.types
  <2>1. PICK T : info \in [state : {"none", "some"}, units : Seq(T), functions : Seq(T),
                           types : Seq(T), lines : Seq(T)]
    BY DEF DwarfInv, IsInfo
  <2>2. PICK n : n = Dies[1].name
    OBVIOUS
  <2>3. \/ info' = [info EXCEPT !.state = "some", !.units = Append(@, n)]
        \/ info' = [info EXCEPT !.state = "some"]
    BY <2>2 DEF ReadRoot
  <2>4. /\ Append(info.units, n) \in Seq(T \cup {n}) /\ info.functions \in Seq(T \cup {n})
        /\ info.types \in Seq(T \cup {n}) /\ info.lines \in Seq(T \cup {n})
        /\ info.units \in Seq(T \cup {n})
    BY <2>1, Appended, SeqWider
  <2>5. info' \in [state : {"none", "some"}, units : Seq(T \cup {n}), functions : Seq(T \cup {n}),
                   types : Seq(T \cup {n}), lines : Seq(T \cup {n})]
    BY <2>1, <2>3, <2>4
  <2> QED
    BY <2>1, <2>3, <2>5 DEF IsInfo
<1>8. ReadInv'
  BY <1>1, <1>6, <1>7, ReadStays DEF DwarfInv
<1>9. WalkInv'
  <2>1. pass' = "map" => depth' = 0
    BY <1>1
  <2>2. 1 .. entry' - 1 = {}
    BY <1>3
  <2> QED
    BY <1>3, <2>1, <2>2 DEF WalkInv
<1>10. pass' = "map" => MapFor(Dies, typeMap)'
  <2>1. DOMAIN typeMap' = {}
    BY DEF ReadRoot
  <2> QED
    BY <2>1 DEF MapFor
<1> QED
  BY <1>3, <1>5, <1>7, <1>8, <1>9, <1>10 DEF DwarfInv

LEMMA MapTypeKeeps == DwarfInv /\ MapType => DwarfInv'
<1> SUFFICES ASSUME DwarfInv, MapType PROVE DwarfInv'
  OBVIOUS
<1>1. /\ DwarfTyped /\ pass = "map" /\ Readable /\ WalkInv /\ MapFor(Dies, typeMap)
      /\ UNCHANGED <<units, unit, pass, depth, info>> /\ entry' = entry + 1
  BY DEF DwarfInv, MapType
<1>2. /\ Dies \in Seq(Die) /\ entry \in DOMAIN Dies /\ unit \in 1 .. Len(units)
      /\ 1 .. (entry + 1) - 1 \subseteq Reached(Dies)
  BY <1>1, ReachedNext
<1>3. PICK d, e : d = Dies /\ e = entry
  OBVIOUS
<1>4. Dies' = d /\ d \in Seq(Die) /\ e \in DOMAIN d
  BY <1>1, <1>2, <1>3 DEF Dies
<1>5. DwarfTyped'
  <2>1. entry' \in Nat \ {0}
    BY <1>1 DEF DwarfTyped
  <2> QED
    BY <1>1, <2>1 DEF DwarfTyped, Read
<1>6. ReadInv'
  <2>1. Entries' = Entries
    BY <1>1 DEF Entries, Read
  <2>2. Behind' = Behind
    BY <1>1, <2>1 DEF Behind
  <2> QED
    BY <1>1, <2>2, ReadStays DEF DwarfInv
<1>7. WalkInv'
  BY <1>1, <1>2, <1>3, <1>4 DEF WalkInv
<1>8. MapFor(d, typeMap')
  <2>1. PICK m : m = typeMap
    OBVIOUS
  <2>2. MapFor(d, m)
    BY <1>1, <1>3, <2>1
  <2>3. /\ Resolved(d, m, e) \in Seq(Word)
        /\ \A s \in Spelling(d, e, MaxTypeDepth) : Resolved(d, m, e) = s
    BY <1>4, <2>2, ResolvedAsSpelt
  <2>4. PICK x : x = NameOf(e)
    OBVIOUS
  <2>5. x = IF d[e].tag \in NamedTags \/ HasPointerName(d[e]) THEN d[e].name
            ELSE DerivedOr(d[e].tag, Resolved(d, m, e))
    BY <1>3, <2>1, <2>4 DEF NameOf, HasPointerName
  <2>6. d[e].tag \in STRING /\ d[e].name \in Seq(Word)
    BY <1>4, DieFacts
  <2>7. x \in Seq(Word)
    BY <2>3, <2>5, <2>6, DerivedTyped
  <2>8. \/ typeMap' = m
        \/ /\ d[e].tag \in DerivedTags \cup NamedTags
           /\ typeMap' = [o \in DOMAIN m \cup {e} |-> IF o = e THEN x ELSE m[o]]
    BY <1>3, <2>1, <2>4 DEF MapType
  <2>9. d[e].tag \in NamedTags => d[e].tag \notin DerivedTags
    BY DEF NamedTags, DerivedTags
  <2>10. /\ d[e].tag \notin DerivedTags /\ d[e].tag \in DerivedTags \cup NamedTags => x = d[e].name
         /\ d[e].tag \in DerivedTags /\ ~HasPointerName(d[e]) =>
                \A s \in Spelling(d, e, MaxTypeDepth) : x = DerivedOr(d[e].tag, s)
    BY <2>3, <2>5, <2>9
  <2>11. CASE typeMap' = m
    BY <2>2, <2>11
  <2>12. CASE /\ d[e].tag \in DerivedTags \cup NamedTags
              /\ typeMap' = [o \in DOMAIN m \cup {e} |-> IF o = e THEN x ELSE m[o]]
    <3>1. PICK n : n = typeMap'
      OBVIOUS
    <3>2. DOMAIN n = DOMAIN m \cup {e} /\ n[e] = x /\ \A o \in DOMAIN m : o # e => n[o] = m[o]
      BY <2>12, <3>1
    <3>3. DOMAIN n \subseteq DOMAIN d
      BY <1>4, <2>2, <3>2 DEF MapFor
    <3>4. ASSUME NEW o \in DOMAIN n
          PROVE  /\ n[o] \in Seq(Word)
                 /\ d[o].tag \notin DerivedTags => n[o] = d[o].name
                 /\ d[o].tag \in DerivedTags /\ ~HasPointerName(d[o]) =>
                        \A s \in Spelling(d, o, MaxTypeDepth) : n[o] = DerivedOr(d[o].tag, s)
      <4>1. CASE o = e
        BY <2>7, <2>10, <2>12, <3>2, <4>1
      <4>2. CASE o # e
        <5>1. o \in DOMAIN m /\ n[o] = m[o]
          BY <3>2, <4>2
        <5> QED
          BY <2>2, <5>1 DEF MapFor
      <4> QED
        BY <4>1, <4>2
    <3>5. MapFor(d, n)
      BY <3>3, <3>4 DEF MapFor
    <3> QED
      BY <3>1, <3>5
  <2> QED
    BY <2>8, <2>11, <2>12
<1>9. MapFor(Dies, typeMap)'
  BY <1>4, <1>8 DEF MapFor
<1>10. IsInfo(info')
  BY <1>1 DEF DwarfInv
<1> QED
  BY <1>5, <1>6, <1>7, <1>9, <1>10 DEF DwarfInv

\* The passes that read no function and no type.
LEMMA PassesKeep ==
  DwarfInv /\ (EndMap \/ EndWalk \/ ReadRow \/ EndLines \/ EndParse) => DwarfInv'
<1> SUFFICES ASSUME DwarfInv, EndMap \/ EndWalk \/ ReadRow \/ EndLines \/ EndParse
             PROVE  DwarfInv'
  OBVIOUS
<1>1. /\ DwarfTyped /\ ReadInv /\ units' = units /\ typeMap' = typeMap /\ depth' = depth
      /\ info'.functions = info.functions /\ info'.types = info.types
  <2>1. info'.functions = info.functions /\ info'.types = info.types
    <3>1. DOMAIN info = {"state", "units", "functions", "types", "lines"}
      BY DEF DwarfInv, IsInfo
    <3>2. \/ info' = info
          \/ \E l : info' = [info EXCEPT !.lines = l]
      BY DEF EndMap, EndWalk, ReadRow, EndLines, EndParse
    <3> QED
      BY <3>1, <3>2
  <2> QED
    BY <2>1 DEF DwarfInv, EndMap, EndWalk, ReadRow, EndLines, EndParse
<1>2. Entries' = Entries
  BY <1>1 DEF Entries, Read
<1>3. \A u : Read(u)' <=> Read(u)
  BY <1>1 DEF Read
<1>4. IsInfo(info')
  <2>1. CASE info' = info
    BY <2>1 DEF DwarfInv
  <2>2. CASE ReadRow
    <3>1. PICK T : info \in [state : {"none", "some"}, units : Seq(T), functions : Seq(T),
                             types : Seq(T), lines : Seq(T)]
      BY DEF DwarfInv, IsInfo
    <3>2. PICK n : n = units[unit].rows[entry].addr
      OBVIOUS
    <3>3. info' = info \/ info' = [info EXCEPT !.lines = Append(@, n)]
      BY <2>2, <3>2 DEF ReadRow
    <3>4. /\ Append(info.lines, n) \in Seq(T \cup {n}) /\ info.functions \in Seq(T \cup {n})
          /\ info.types \in Seq(T \cup {n}) /\ info.units \in Seq(T \cup {n})
      BY <3>1, Appended, SeqWider
    <3>5. info' = [info EXCEPT !.lines = Append(@, n)] =>
            info' \in [state : {"none", "some"}, units : Seq(T \cup {n}),
                       functions : Seq(T \cup {n}), types : Seq(T \cup {n}), lines : Seq(T \cup {n})]
      BY <3>1, <3>4
    <3> QED
      BY <2>1, <3>3, <3>5 DEF IsInfo
  <2> QED
    BY <2>1, <2>2 DEF EndMap, EndWalk, EndLines, EndParse
<1>5. \A q \in Entries : q[1] \in Nat /\ q[2] \in Nat \ {0} /\ q[2] \in Reached(units[q[1]].dies)
  BY <1>1, EntryFacts DEF DwarfTyped
<1>6. CASE EndMap
  <2>1. pass = "map" /\ pass' = "walk" /\ entry' = 1 /\ unit' = unit /\ info' = info
    BY <1>6 DEF EndMap
  <2>2. DwarfTyped'
    BY <1>1, <1>3, <2>1 DEF DwarfTyped, Read
  <2>3. Behind' = Behind
    <3>1. \A q \in Entries : ~(q[2] < 1)
      BY <1>5
    <3> QED
      BY <1>2, <2>1, <3>1 DEF Behind
  <2>4. WalkInv'
    <3>1. depth = 0 /\ 1 .. 1 - 1 = {}
      BY <2>1 DEF DwarfInv, WalkInv
    <3> QED
      BY <1>1, <2>1, <3>1 DEF WalkInv
  <2>5. MapFor(Dies, typeMap)'
    <3>1. Dies' = Dies /\ MapFor(Dies, typeMap)
      BY <1>1, <2>1 DEF Dies, DwarfInv
    <3> QED
      BY <1>1, <3>1 DEF MapFor
  <2> QED
    BY <1>1, <1>4, <2>2, <2>3, <2>4, <2>5, ReadStays DEF DwarfInv
<1>7. CASE EndWalk
  <2>1. pass = "walk" /\ pass' = "lines" /\ entry' = 1 /\ unit' = unit /\ info' = info
    BY <1>7 DEF EndWalk
  <2>2. DwarfTyped'
    BY <1>1, <1>3, <2>1 DEF DwarfTyped, Read
  <2>3. Behind' = Behind
    <3>1. ~Readable /\ unit <= Len(units)
      BY <1>1, <1>7 DEF EndWalk, DwarfTyped
    <3>2. \A o \in Reached(Dies) : o < entry
      BY <1>1, <3>1, WalkEnds
    <3>3. \A q \in Entries : q[1] = unit => q[2] < entry
      BY <1>5, <3>2 DEF Dies
    <3> QED
      BY <1>2, <2>1, <3>3 DEF Behind
  <2> QED
    BY <1>1, <1>4, <2>1, <2>2, <2>3, ReadStays DEF DwarfInv, WalkInv
<1>8. CASE ReadRow
  <2>1. pass = "lines" /\ pass' = "lines" /\ entry' = entry + 1 /\ unit' = unit
    BY <1>8 DEF ReadRow
  <2>2. DwarfTyped'
    BY <1>1, <1>3, <2>1 DEF DwarfTyped, Read
  <2>3. Behind' = Behind
    BY <1>2, <2>1 DEF Behind
  <2> QED
    BY <1>1, <1>4, <2>1, <2>2, <2>3, ReadStays DEF DwarfInv, WalkInv
<1>9. CASE EndLines
  <2>1. pass = "lines" /\ pass' = "root" /\ entry' = 1 /\ unit' = unit + 1
    BY <1>9 DEF EndLines, NextUnit
  <2>2. DwarfTyped'
    BY <1>1, <2>1 DEF DwarfTyped
  <2>3. Behind' = Behind
    <3>1. unit \in Nat /\ \A q \in Entries : q[1] < unit + 1 <=> q[1] < unit \/ q[1] = unit
      BY <1>1, <1>5 DEF DwarfTyped
    <3> QED
      BY <1>2, <2>1, <3>1 DEF Behind
  <2> QED
    BY <1>1, <1>4, <2>1, <2>2, <2>3, ReadStays DEF DwarfInv, WalkInv
<1>10. CASE EndParse
  <2>1. pass = "root" /\ pass' = "parsed" /\ entry' = entry /\ unit' = unit /\ unit > Len(units)
    BY <1>10 DEF EndParse
  <2>2. DwarfTyped'
    BY <1>1, <2>1 DEF DwarfTyped
  <2>3. Behind' = Behind
    BY <1>2, <2>1 DEF Behind
  <2> QED
    BY <1>1, <1>4, <2>1, <2>2, <2>3, ReadStays DEF DwarfInv, WalkInv
<1> QED
  BY <1>6, <1>7, <1>8, <1>9, <1>10

LEMMA WalkKeeps == DwarfInv /\ Walk => DwarfInv'
<1> SUFFICES ASSUME DwarfInv, Walk PROVE DwarfInv'
  OBVIOUS
<1>1. /\ DwarfTyped /\ pass = "walk" /\ Readable /\ WalkInv /\ ReadInv /\ MapFor(Dies, typeMap)
      /\ UNCHANGED <<units, unit, pass, typeMap>> /\ entry' = entry + 1
  BY DEF DwarfInv, Walk
<1>2. /\ Dies \in Seq(Die) /\ entry \in DOMAIN Dies /\ unit \in 1 .. Len(units)
      /\ entry \in Reached(Dies) /\ 1 .. (entry + 1) - 1 \subseteq Reached(Dies)
  BY <1>1, ReachedNext
<1>3. PICK d, e, x, m : d = Dies /\ e = entry /\ x = <<unit, entry>> /\ m = typeMap
  OBVIOUS
<1>4. /\ Dies' = d /\ d \in Seq(Die) /\ e \in 1 .. Len(d) /\ e \in Nat \ {0}
      /\ x[1] = unit /\ x[2] = e /\ unit \in Nat
  BY <1>1, <1>2, <1>3 DEF Dies, DwarfTyped
<1>5. depth' = d[e].level
  <2>1. depth = (IF e = 1 THEN 0 ELSE d[e - 1].level) /\ depth' = depth + Delta(e)
    BY <1>1, <1>3 DEF WalkInv, Walk
  <2>2. CASE e = 1
    <3>1. d[1].level = 0
      <4>1. units \in Programs /\ d = units[unit].dies /\ d # <<>>
        BY <1>1, <1>3, <1>4 DEF DwarfTyped, Dies
      <4> QED
        BY <1>2, <4>1, UnitFacts
    <3> QED
      BY <2>1, <2>2, <3>1 DEF Delta
  <2>3. CASE e # 1
    <3>1. d[e].level \in Nat /\ d[e - 1].level \in Nat
      BY <1>4, <2>3, DieFacts
    <3>2. Delta(e) = d[e].level - d[e - 1].level
      BY <1>3, <2>3 DEF Delta
    <3> QED
      BY <2>1, <2>3, <3>1, <3>2
  <2> QED
    BY <2>2, <2>3
<1>6. DwarfTyped'
  <2>1. entry' \in Nat \ {0}
    BY <1>1 DEF DwarfTyped
  <2> QED
    BY <1>1, <2>1 DEF DwarfTyped, Read
<1>7. WalkInv'
  <2>1. (e + 1) - 1 = e /\ e + 1 # 1 /\ entry' = e + 1
    BY <1>1, <1>3, <1>4
  <2> QED
    BY <1>1, <1>2, <1>3, <1>4, <1>5, <2>1 DEF WalkInv
<1>8. MapFor(Dies, typeMap)'
  BY <1>1, <1>3, <1>4 DEF MapFor
<1>9. Entries' = Entries /\ Bodies' = Bodies /\ Tops' = Tops
  <2>1. Entries' = Entries
    BY <1>1 DEF Entries, Read
  <2> QED
    BY <1>1, <2>1 DEF Bodies, Tops, DieAt
<1>10. x \in Entries /\ DieAt(x) = d[e] /\ units[x[1]].dies = d
  <2>1. units \in Programs /\ Read(unit)
    BY <1>1 DEF DwarfTyped
  <2>2. entry \in Reached(units[unit].dies)
    BY <1>2 DEF Dies
  <2>3. <<unit, entry>> \in Entries
    BY <1>2, <2>1, <2>2, EntryFacts
  <2> QED
    BY <1>3, <1>4, <2>3 DEF DieAt, Dies
<1>11. PICK S : S = Behind
  OBVIOUS
<1>12. Behind' = S \cup {x} /\ x \notin S /\ \A r \in S : r \in Nat \X Nat /\ Precedes(r, x)
  <2>1. \A q \in Entries : q[1] \in Nat /\ q[2] \in Nat /\ q = <<q[1], q[2]>>
    BY <1>1, EntryFacts DEF DwarfTyped
  <2>2. S = {q \in Entries : q[1] < unit \/ (q[1] = unit /\ q[2] < e)}
    BY <1>1, <1>3, <1>11 DEF Behind
  <2>3. Behind' = {q \in Entries : q[1] < unit \/ (q[1] = unit /\ q[2] < e + 1)}
    BY <1>1, <1>3, <1>9 DEF Behind
  <2>4. \A q \in Entries : q[1] = unit /\ q[2] < e + 1 <=> (q[1] = unit /\ q[2] < e) \/ q = x
    BY <1>3, <1>4, <2>1
  <2>5. Behind' = S \cup {x} /\ x \notin S
    BY <1>4, <1>10, <2>2, <2>3, <2>4
  <2>6. \A r \in S : r \in Nat \X Nat /\ Precedes(r, x)
    BY <1>4, <2>1, <2>2 DEF Precedes
  <2> QED
    BY <2>5, <2>6
<1>13. x \in Nat \X Nat
  BY <1>3, <1>4
<1>14. PICK B, C : B = Bodies \cap S /\ C = Tops \cap S
  OBVIOUS
<1>15. PICK fs, ts : fs = info.functions /\ ts = info.types
  OBVIOUS
<1>16. FunctionsFor(B, fs) /\ TypesFor(C, ts)
  BY <1>1, <1>11, <1>14, <1>15 DEF ReadInv
<1>17. PICK T : info \in [state : {"none", "some"}, units : Seq(T), functions : Seq(T),
                          types : Seq(T), lines : Seq(T)]
  BY DEF DwarfInv, IsInfo
<1>18. fs \in Seq(T) /\ ts \in Seq(T)
  BY <1>15, <1>17
<1>19. PICK f, t : f = Function(d, m, e) /\ t = Type(d, m, e)
  OBVIOUS
<1>20. RightFunction(x, f) /\ RightType(x, t)
  <2>1. \A s \in Spelling(d, e, MaxTypeDepth) : Resolved(d, m, e) = s
    BY <1>1, <1>3, <1>4, ResolvedAsSpelt
  <2>2. f.name = d[e].name /\ f.ret = Resolved(d, m, e) /\ t.name = d[e].name /\ t.tag = d[e].tag
    BY <1>19 DEF Function, Type
  <2> QED
    BY <1>4, <1>10, <2>1, <2>2 DEF RightFunction, RightType
<1>21. /\ x \in Bodies <=> d[e].tag = "subprogram" /\ IsDefinition(d[e])
       /\ x \in Tops <=> d[e].level = 1 /\ IsType(d[e])
  BY <1>10 DEF Bodies, Tops
<1>22. PICK j : j = info'
  OBVIOUS
<1>23. j = IF x \in Bodies THEN [info EXCEPT !.functions = Append(@, f)]
           ELSE IF x \in Tops THEN [info EXCEPT !.types = Append(@, t)] ELSE info
  BY <1>1, <1>3, <1>5, <1>19, <1>21, <1>22 DEF Walk
<1>24. ~(x \in Bodies /\ x \in Tops)
  BY <1>21 DEF IsType, NamedTags
<1>25. /\ IsInfo(j)
       /\ j.functions = IF x \in Bodies THEN Append(fs, f) ELSE fs
       /\ j.types = IF x \in Tops THEN Append(ts, t) ELSE ts
  <2>1. PICK U : U = T \cup {f, t}
    OBVIOUS
  <2>2. \A s \in Seq(T) : s \in Seq(U) /\ Append(s, f) \in Seq(U) /\ Append(s, t) \in Seq(U)
    <3> TAKE s \in Seq(T)
    <3>1. s \in Seq(U) /\ f \in U /\ t \in U
      BY <2>1, SeqWider
    <3> QED
      BY <3>1
  <2>3. CASE x \in Bodies
    <3>1. j = [info EXCEPT !.functions = Append(fs, f)]
      BY <1>15, <1>23, <2>3
    <3>2. j \in [state : {"none", "some"}, units : Seq(U), functions : Seq(U),
                 types : Seq(U), lines : Seq(U)]
      BY <1>17, <1>18, <2>2, <3>1
    <3> QED
      BY <1>15, <1>17, <1>24, <2>3, <3>1, <3>2 DEF IsInfo
  <2>4. CASE x \notin Bodies /\ x \in Tops
    <3>1. j = [info EXCEPT !.types = Append(ts, t)]
      BY <1>15, <1>23, <2>4
    <3>2. j \in [state : {"none", "some"}, units : Seq(U), functions : Seq(U),
                 types : Seq(U), lines : Seq(U)]
      BY <1>17, <1>18, <2>2, <3>1
    <3> QED
      BY <1>15, <1>17, <2>4, <3>1, <3>2 DEF IsInfo
  <2>5. CASE x \notin Bodies /\ x \notin Tops
    BY <1>15, <1>17, <1>23, <2>5 DEF IsInfo
  <2> QED
    BY <2>3, <2>4, <2>5
<1>26. PICK B2, C2 : B2 = Bodies \cap (S \cup {x}) /\ C2 = Tops \cap (S \cup {x})
  OBVIOUS
<1>27. FunctionsFor(B2, j.functions)
  <2>1. CASE x \in Bodies
    <3>1. B2 = B \cup {x} /\ j.functions = Append(fs, f)
      BY <1>14, <1>25, <1>26, <2>1
    <3>2. B \subseteq Nat \X Nat /\ \A r \in B : Precedes(r, x)
      BY <1>12, <1>14
    <3>3. FunctionsFor(B \cup {x}, Append(fs, f))
      BY <1>13, <1>16, <1>18, <1>20, <3>2, FunctionsGrow
    <3> QED
      BY <3>1, <3>3
  <2>2. CASE x \notin Bodies
    <3>1. B2 = B /\ j.functions = fs
      BY <1>14, <1>25, <1>26, <2>2
    <3> QED
      BY <1>16, <3>1
  <2> QED
    BY <2>1, <2>2
<1>28. TypesFor(C2, j.types)
  <2>1. CASE x \in Tops
    <3>1. C2 = C \cup {x} /\ j.types = Append(ts, t)
      BY <1>14, <1>25, <1>26, <2>1
    <3>2. C \subseteq Nat \X Nat /\ \A r \in C : Precedes(r, x)
      BY <1>12, <1>14
    <3>3. TypesFor(C \cup {x}, Append(ts, t))
      BY <1>13, <1>16, <1>18, <1>20, <3>2, TypesGrow
    <3> QED
      BY <3>1, <3>3
  <2>2. CASE x \notin Tops
    <3>1. C2 = C /\ j.types = ts
      BY <1>14, <1>25, <1>26, <2>2
    <3> QED
      BY <1>16, <3>1
  <2> QED
    BY <2>1, <2>2
<1>29. ReadInv'
  <2>1. PICK gs, us : gs = j.functions /\ us = j.types
    OBVIOUS
  <2>2. FunctionsFor(B2, gs)' /\ TypesFor(C2, us)'
    BY <1>1, <1>27, <1>28, <2>1 DEF FunctionsFor, TypesFor, RightFunction, RightType, DieAt
  <2>3. /\ (Bodies \cap Behind)' = B2 /\ (Tops \cap Behind)' = C2
        /\ info'.functions = gs /\ info'.types = us
    BY <1>9, <1>12, <1>22, <1>26, <2>1
  <2>4. FunctionsFor(Bodies \cap Behind, info.functions)'
    BY <2>2, <2>3 DEF FunctionsFor
  <2>5. TypesFor(Tops \cap Behind, info.types)'
    BY <2>2, <2>3 DEF TypesFor
  <2> QED
    BY <2>4, <2>5 DEF ReadInv
<1> QED
  BY <1>6, <1>7, <1>8, <1>22, <1>25, <1>29 DEF DwarfInv

LEMMA DwarfStep == DwarfInv /\ [LoaderNext]_loaderVars => DwarfInv'
<1> SUFFICES ASSUME DwarfInv, [LoaderNext]_loaderVars PROVE DwarfInv'
  OBVIOUS
<1>1. CASE DwarfNext
  BY <1>1, ReadRootKeeps, MapTypeKeeps, WalkKeeps, PassesKeep DEF DwarfNext
<1>2. CASE UNCHANGED dwarfVars
  <2>1. UNCHANGED <<units, unit, pass, entry, depth, typeMap, info>>
    BY <1>2 DEF dwarfVars
  <2>2. DwarfTyped' /\ IsInfo(info)' /\ WalkInv'
    BY <2>1 DEF DwarfInv, DwarfTyped, WalkInv, Read, Dies
  <2>3. Behind' = Behind
    <3>1. Entries' = Entries
      BY <2>1 DEF Entries, Read
    <3> QED
      BY <2>1, <3>1 DEF Behind
  <2>4. ReadInv'
    BY <2>1, <2>3, ReadStays DEF DwarfInv
  <2>5. pass \in {"map", "walk"} => MapFor(Dies, typeMap)'
    BY <2>1 DEF DwarfInv, MapFor, Dies
  <2> QED
    BY <2>1, <2>2, <2>4, <2>5 DEF DwarfInv
<1> QED
  BY <1>1, <1>2 DEF LoaderNext, loaderVars, LoadDwarf, StartScan, ScanAscii, EndAscii, ScanWide,
    NextSection, EndScan, RecoverAt, Panic, EndRecover, Recover, PanicInScore, Finished

LEMMA DwarfStart == LoaderInit => DwarfInv
<1> SUFFICES ASSUME LoaderInit PROVE DwarfInv
  OBVIOUS
<1>1. DwarfInit
  BY DEF LoaderInit
<1>2. DwarfTyped
  <2>1. Len(units) \in Nat
    BY <1>1, DwarfAssumption DEF DwarfInit
  <2> QED
    BY <1>1, <2>1 DEF DwarfInit, DwarfTyped
<1>3. Behind = {}
  <2>1. \A q \in Entries : q[1] \in 1 .. Len(units)
    BY <1>2, EntryFacts DEF DwarfTyped
  <2>2. \A q \in Entries : ~(q[1] < 1)
    BY <2>1
  <2> QED
    BY <1>1, <2>2 DEF Behind, DwarfInit
<1>4. IsInfo(info)
  <2>1. \A T : <<>> \in Seq(T)
    OBVIOUS
  <2> QED
    BY <1>1, <2>1 DEF DwarfInit, IsInfo
<1>5. FunctionsFor({}, <<>>) /\ TypesFor({}, <<>>)
  BY FS_EmptySet DEF FunctionsFor, TypesFor
<1>6. ReadInv
  <2>1. Bodies \cap Behind = {} /\ Tops \cap Behind = {}
    BY <1>3
  <2>2. info.functions = <<>> /\ info.types = <<>>
    BY <1>1 DEF DwarfInit
  <2> QED
    BY <1>5, <2>1, <2>2 DEF ReadInv
<1> QED
  BY <1>1, <1>2, <1>4, <1>6 DEF DwarfInv, WalkInv, DwarfInit

\* At the end all entries are behind.
LEMMA AllBehind ==
  ASSUME DwarfInv, pass = "parsed"
  PROVE  FunctionsFor(Bodies, info.functions) /\ TypesFor(Tops, info.types)
<1>1. \A q \in Entries : q[1] \in 1 .. Len(units) /\ unit = Len(units) + 1 /\ Len(units) \in Nat
  BY EntryFacts, DwarfAssumption DEF DwarfInv, DwarfTyped
<1>2. Entries \subseteq Behind
  BY <1>1 DEF Behind
<1>3. Bodies \cap Behind = Bodies /\ Tops \cap Behind = Tops
  BY <1>2 DEF Bodies, Tops
<1> QED
  BY <1>3 DEF DwarfInv, ReadInv

(***************************************************************************)
(* For the debug information of every file: the functions read are those   *)
(* with a body, in their order and at whatever depth, and the result of    *)
(* each is spelt as its chain of types spells it, wherever in the unit the *)
(* types stand.                                                            *)
(***************************************************************************)
THEOREM NamesAreAsSpelt == LoaderSpec => []NamesFollowTypes
<1>1. DwarfInv => NamesFollowTypes
  BY AllBehind DEF NamesFollowTypes, FunctionsFor, RightFunction
<1> QED
  BY <1>1, DwarfStart, DwarfStep, PTL DEF LoaderSpec

(***************************************************************************)
(* For the debug information of every file: the types read are the named   *)
(* ones right under the roots, in their order, so the depth summed up from *)
(* the differences of next_dfs is the level of the entry.                  *)
(***************************************************************************)
THEOREM TypesAreUnderRoots == LoaderSpec => []TypesStandUnderRoots
<1>1. DwarfInv => TypesStandUnderRoots
  BY AllBehind DEF TypesStandUnderRoots, TypesFor, RightType
<1> QED
  BY <1>1, DwarfStart, DwarfStep, PTL DEF LoaderSpec
=============================================================================
