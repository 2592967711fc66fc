----------------------------- MODULE CfgProofs -----------------------------
(***************************************************************************)
(* build_cfg, for every function it is given: the state keeps its shape,   *)
(* the blocks lie in address order, each at the place its id says, the     *)
(* entry first, they leave out only what lies behind a hole, and their     *)
(* edges are the flow of control between their instructions.               *)
(***************************************************************************)
EXTENDS CfgProperties, TLAPS

-----------------------------------------------------------------------------
(* The invariant: a closed block may get another terminator, never another *)
(* place, so the layout is stated of any sequence of blocks.               *)

Placed(b, k) == b.id = k - 1 /\ b.start < b.end /\ b.start \in leaders

Tiled(s) ==
    /\ \A k \in 1 .. Len(s) : Placed(s[k], k)
    /\ \A k, m \in 1 .. Len(s) : k < m => s[k].end <= s[m].start
    /\ s # <<>> => s[1].start = Entry

\* What has been closed and opened lies below the instructions to come.
Below(s, i) == \A k \in 1 .. Len(s), j \in i .. Len(prog.insns) : s[k].end <= In(j).addr

\* The closed blocks with the open one.
All == IF current = <<>> THEN blocks ELSE Append(blocks, current[1])

Unbegun == pass = "leaders" => at = 1 /\ blocks = <<>> /\ current = <<>> /\ nextId = 0

Begun ==
    pass = "blocks" =>
        /\ Entry \in leaders
        /\ Below(All, at)
        /\ All = <<>> => at = 1

Ended == pass \in {"jumps", "branches", "done"} => current = <<>>

CfgInv ==
    /\ TypeOK
    /\ Tiled(All)
    /\ nextId = Len(All)
    /\ Unbegun /\ Begun /\ Ended

-----------------------------------------------------------------------------
(* Layouts.                                                                *)

Alike(b, c) == b.id = c.id /\ b.start = c.start /\ b.end = c.end

Terms == [kind : {"Unreachable", "Return", "Jump", "Branch"}, to : Seq(Nat)]

LEMMA TermFacts ==
    /\ Term("Unreachable", <<>>) \in Terms /\ Term("Return", <<>>) \in Terms
    /\ \A a \in Nat : Term("Jump", <<a>>) \in Terms
    /\ \A a, b \in Nat : Term("Branch", <<a, b>>) \in Terms
<1>1. <<>> \in Seq(Nat)
  OBVIOUS
<1>2. \A a \in Nat : <<a>> \in Seq(Nat)
  OBVIOUS
<1>3. \A a, b \in Nat : <<a, b>> \in Seq(Nat)
  OBVIOUS
<1> QED
  BY <1>1, <1>2, <1>3 DEF Term, Terms

LEMMA BlockFacts ==
    ASSUME NEW b \in Block
    PROVE  /\ b.id \in Nat /\ b.start \in Nat /\ b.end \in Nat
           /\ \A t \in Terms : [b EXCEPT !.term = t] \in Block
                              /\ Alike(b, [b EXCEPT !.term = t])
  BY DEF Block, Terms, Alike

LEMMA AlikeTiled ==
    ASSUME NEW s \in Seq(Block), NEW t \in Seq(Block), Len(s) = Len(t), Tiled(s),
           \A k \in 1 .. Len(s) : Alike(s[k], t[k])
    PROVE  Tiled(t)
<1>1. Len(s) \in Nat
  OBVIOUS
<1>2. \A k \in 1 .. Len(t) : Placed(t[k], k)
  BY DEF Tiled, Placed, Alike
<1>3. \A k, m \in 1 .. Len(t) : k < m => t[k].end <= t[m].start
  BY DEF Tiled, Alike
<1>4. t # <<>> => t[1].start = Entry
  BY <1>1 DEF Tiled, Alike
<1> QED
  BY <1>2, <1>3, <1>4 DEF Tiled

LEMMA AppendTiled ==
    ASSUME NEW s \in Seq(Block), NEW b \in Block, Tiled(s), Placed(b, Len(s) + 1),
           \A k \in 1 .. Len(s) : s[k].end <= b.start,
           s = <<>> => b.start = Entry
    PROVE  Tiled(Append(s, b))
<1> DEFINE t == Append(s, b)
<1>1. /\ Len(s) \in Nat /\ Len(t) = Len(s) + 1 /\ t # <<>>
      /\ \A k \in 1 .. Len(s) : t[k] = s[k]
      /\ t[Len(s) + 1] = b
  OBVIOUS
<1>2. \A k \in 1 .. Len(t) : k \in 1 .. Len(s) \/ k = Len(s) + 1
  BY <1>1
<1> HIDE DEF t
<1>3. \A k \in 1 .. Len(t) : Placed(t[k], k)
  BY <1>1, <1>2 DEF Tiled
<1>4. \A k, m \in 1 .. Len(t) : k < m => t[k].end <= t[m].start
  <2> TAKE k, m \in 1 .. Len(t)
  <2> HAVE k < m
  <2>1. k \in 1 .. Len(s)
    BY <1>1
  <2>2. CASE m \in 1 .. Len(s)
    BY <1>1, <2>1, <2>2 DEF Tiled
  <2>3. CASE m = Len(s) + 1
    BY <1>1, <2>1, <2>3
  <2> QED
    BY <1>2, <2>2, <2>3
<1>5. t[1].start = Entry
  <2>1. CASE s = <<>>
    BY <1>1, <2>1
  <2>2. CASE s # <<>>
    <3>1. 1 \in 1 .. Len(s)
      BY <1>1, <2>2
    <3> QED
      BY <1>1, <2>2, <3>1 DEF Tiled
  <2> QED
    BY <2>1, <2>2
<1>6. Tiled(t)
  BY <1>3, <1>4, <1>5 DEF Tiled
<1> QED
  BY <1>6 DEF t

\* A prefix of a layout is one, and its last block comes after it.
LEMMA FrontTiled ==
    ASSUME NEW s \in Seq(Block), NEW b \in Block, Tiled(Append(s, b))
    PROVE  /\ Tiled(s)
           /\ Placed(b, Len(s) + 1)
           /\ \A k \in 1 .. Len(s) : s[k].end <= b.start
           /\ s = <<>> => b.start = Entry
<1> DEFINE t == Append(s, b)
<1>1. /\ Len(s) \in Nat /\ Len(t) = Len(s) + 1 /\ t # <<>>
      /\ \A k \in 1 .. Len(s) : t[k] = s[k]
      /\ t[Len(s) + 1] = b
  OBVIOUS
<1>2. Tiled(t)
  OBVIOUS
<1> HIDE DEF t
<1>3. Len(s) + 1 \in 1 .. Len(t) /\ \A k \in 1 .. Len(s) : k \in 1 .. Len(t) /\ k < Len(s) + 1
  BY <1>1
<1>4. Placed(b, Len(s) + 1)
  BY <1>1, <1>2, <1>3 DEF Tiled
<1>5. \A k \in 1 .. Len(s) : s[k].end <= b.start
  BY <1>1, <1>2, <1>3 DEF Tiled
<1>6. s = <<>> => b.start = Entry
  BY <1>1, <1>2 DEF Tiled
<1>7. Tiled(s)
  <2>1. \A k \in 1 .. Len(s) : Placed(s[k], k)
    BY <1>1, <1>2, <1>3 DEF Tiled
  <2>2. \A k, m \in 1 .. Len(s) : k < m => s[k].end <= s[m].start
    BY <1>1, <1>2, <1>3 DEF Tiled
  <2>3. s # <<>> => s[1].start = Entry
    <3>1. s # <<>> => 1 \in 1 .. Len(s)
      BY <1>1
    <3> QED
      BY <1>1, <1>2, <3>1 DEF Tiled
  <2> QED
    BY <2>1, <2>2, <2>3 DEF Tiled
<1> QED
  BY <1>4, <1>5, <1>6, <1>7

-----------------------------------------------------------------------------
(* One instruction.                                                        *)

LEMMA InsnFacts ==
    ASSUME WellFormed(prog)
    PROVE  /\ Len(prog.insns) \in Nat
           /\ prog.insns # <<>> => Entry \in Nat
           /\ \A i \in 1 .. Len(prog.insns) :
                /\ In(i) \in Insn
                /\ In(i).addr \in Nat /\ EndOf(In(i)) \in Nat
                /\ In(i).addr < EndOf(In(i))
           /\ \A i, j \in 1 .. Len(prog.insns) : i < j => EndOf(In(i)) <= In(j).addr
<1>1. prog.insns \in Seq(Insn)
  BY DEF WellFormed
<1>2. Len(prog.insns) \in Nat
  BY <1>1
<1>3. \A i \in 1 .. Len(prog.insns) : In(i) \in Insn
  BY <1>1 DEF In
<1>4. \A i \in 1 .. Len(prog.insns) :
        In(i).addr \in Nat /\ EndOf(In(i)) \in Nat /\ In(i).addr < EndOf(In(i))
  BY <1>3 DEF Insn, EndOf
<1>5. \A i, j \in 1 .. Len(prog.insns) : i < j => EndOf(In(i)) <= In(j).addr
  BY DEF WellFormed, In, EndOf
<1>6. prog.insns # <<>> => Entry \in Nat
  BY <1>1, <1>4 DEF Entry, In
<1> QED
  BY <1>2, <1>3, <1>4, <1>5, <1>6

\* The blocks of the step: those before the instruction's, then its own.
LEMMA StepBlocks ==
    ASSUME CfgInv, HasBlock
    PROVE  /\ Closed \in Seq(Block) /\ Extended \in Block
           /\ Tiled(Append(Closed, Extended))
           /\ \A k \in 1 .. Len(Closed) : Closed[k].end <= EndOf(insn)
           /\ Extended.end = EndOf(insn)
           /\ (IF Opens THEN nextId + 1 ELSE nextId) = Len(Closed) + 1
           /\ insn = In(at) /\ at \in 1 .. Len(prog.insns)
<1>1. /\ WellFormed(prog) /\ pass = "blocks" /\ at \in 1 .. Len(prog.insns)
      /\ blocks \in Seq(Block) /\ current \in Seq(Block) /\ Len(current) <= 1
      /\ nextId \in Nat /\ nextId = Len(All) /\ Tiled(All)
  BY DEF CfgInv, TypeOK, HasBlock, InBlocks
<1>2. insn = In(at) /\ insn.addr \in Nat /\ EndOf(insn) \in Nat /\ insn.addr < EndOf(insn)
  BY <1>1, InsnFacts DEF insn, In
<1>3. /\ Below(All, at) /\ Entry \in leaders
      /\ All = <<>> => insn.addr = Entry
  <2>1. All = <<>> => at = 1
    BY <1>1 DEF CfgInv, Begun
  <2> QED
    BY <1>1, <2>1 DEF CfgInv, Begun, Entry, insn
<1>4. \A k \in 1 .. Len(All) : All[k].end <= insn.addr
  BY <1>1, <1>2, <1>3 DEF Below
<1>5. All \in Seq(Block)
  <2>1. CASE current = <<>>
    BY <1>1, <2>1 DEF All
  <2>2. CASE current # <<>>
    <3>1. current[1] \in Block
      BY <1>1, <2>2
    <3> QED
      BY <1>1, <2>2, <3>1 DEF All
  <2> QED
    BY <2>1, <2>2
<1>6. CASE Opens
  <2>1. /\ Extended = [id |-> nextId, start |-> insn.addr, end |-> EndOf(insn),
                       term |-> Term("Unreachable", <<>>)]
        /\ insn.addr \in leaders
    BY <1>6 DEF Extended, Opens
  <2>2. Extended \in Block
    BY <1>1, <1>2, <2>1 DEF Block, Term
  <2>3. /\ Closed \in Seq(Block) /\ Len(Closed) = Len(All)
        /\ \A k \in 1 .. Len(All) : Alike(All[k], Closed[k])
    <3>1. CASE current = <<>>
      BY <1>1, <3>1 DEF Closed, All, Alike
    <3>2. CASE current # <<>>
      <4> DEFINE c == current[1]
                 d == [current[1] EXCEPT !.term = Term("Jump", <<0>>)]
      <4>1. c \in Block
        BY <1>1, <3>2
      <4>2. d \in Block /\ Alike(c, d)
        BY <4>1, BlockFacts, TermFacts
      <4>3. All = Append(blocks, c) /\ Closed = Append(blocks, d)
        BY <1>6, <3>2 DEF All, Closed
      <4> HIDE DEF c, d
      <4>4. \A k \in 1 .. Len(blocks) + 1 :
                Alike(Append(blocks, c)[k], Append(blocks, d)[k])
        BY <1>1, <4>1, <4>2 DEF Alike
      <4> QED
        BY <1>1, <4>1, <4>2, <4>3, <4>4
    <3> QED
      BY <3>1, <3>2
  <2>4. Tiled(Closed)
    BY <1>1, <1>5, <2>3, AlikeTiled
  <2>5. \A k \in 1 .. Len(Closed) : Closed[k].end <= insn.addr
    BY <1>4, <2>3 DEF Alike
  <2>6. Placed(Extended, Len(Closed) + 1)
    BY <1>1, <1>2, <2>1, <2>3 DEF Placed
  <2>7. Closed = <<>> => Extended.start = Entry
    <3>1. Closed = <<>> => All = <<>>
      BY <1>5, <2>3
    <3> QED
      BY <1>3, <2>1, <3>1
  <2>8. Tiled(Append(Closed, Extended))
    BY <2>1, <2>2, <2>3, <2>4, <2>5, <2>6, <2>7, AppendTiled
  <2>9. \A k \in 1 .. Len(Closed) : Closed[k].end <= EndOf(insn)
    <3>1. \A k \in 1 .. Len(Closed) : Closed[k].end \in Nat
      BY <2>3, BlockFacts
    <3> QED
      BY <1>2, <2>5, <3>1
  <2> QED
    BY <1>1, <1>2, <1>6, <2>1, <2>2, <2>3, <2>8, <2>9
<1>7. CASE ~Opens
  <2> DEFINE c == current[1]
             d == [current[1] EXCEPT !.end = EndOf(insn)]
  <2>1. current # <<>> /\ Closed = blocks /\ Extended = d
    BY <1>7 DEF HasBlock, Closed, Extended
  <2>2. c \in Block /\ All = Append(blocks, c)
    BY <1>1, <2>1 DEF All
  <2>3. d \in Block /\ d.id = c.id /\ d.start = c.start /\ d.end = EndOf(insn)
    BY <1>2, <2>2 DEF Block
  <2> HIDE DEF c, d
  <2>4. /\ Tiled(blocks) /\ Placed(c, Len(blocks) + 1)
        /\ \A k \in 1 .. Len(blocks) : blocks[k].end <= c.start
        /\ blocks = <<>> => c.start = Entry
    BY <1>1, <2>2, FrontTiled
  <2>5. /\ Len(All) = Len(blocks) + 1 /\ Len(blocks) \in Nat
        /\ All[Len(blocks) + 1] = c
        /\ \A k \in 1 .. Len(blocks) : All[k] = blocks[k]
    BY <1>1, <2>2
  <2>6. c.end <= insn.addr /\ \A k \in 1 .. Len(blocks) : blocks[k].end <= insn.addr
    BY <1>4, <2>5
  <2>7. c.start \in Nat /\ c.end \in Nat /\ \A k \in 1 .. Len(blocks) : blocks[k].end \in Nat
    BY <1>1, <2>2, BlockFacts
  <2>8. Placed(d, Len(blocks) + 1)
    BY <1>2, <2>3, <2>4, <2>6, <2>7 DEF Placed
  <2>9. Tiled(Append(blocks, d))
    BY <1>1, <2>3, <2>4, <2>8, AppendTiled
  <2> QED
    BY <1>1, <1>2, <1>7, <2>1, <2>3, <2>5, <2>6, <2>7, <2>9
<1> QED
  BY <1>6, <1>7

\* A layout stays one while the leaders and the function stay.
LEMMA TiledNext ==
    ASSUME UNCHANGED <<prog, leaders>>, Tiled(All')
    PROVE  Tiled(All)'
BY DEF Tiled, Placed, Entry

LEMMA InsnStep ==
    ASSUME CfgInv, HasBlock, Step,
           jumps' \in Seq([from : Nat, to : Nat]),
           branches' \in Seq([from : Nat, yes : Nat, no : Nat]),
           \/ current' = <<Extended>> /\ blocks' = Closed
           \/ /\ current' = <<>>
              /\ \E t \in Terms : blocks' = Append(Closed, [Extended EXCEPT !.term = t])
    PROVE  CfgInv'
<1>1. /\ Closed \in Seq(Block) /\ Extended \in Block
      /\ Tiled(Append(Closed, Extended))
      /\ \A k \in 1 .. Len(Closed) : Closed[k].end <= EndOf(insn)
      /\ Extended.end = EndOf(insn)
      /\ (IF Opens THEN nextId + 1 ELSE nextId) = Len(Closed) + 1
      /\ insn = In(at) /\ at \in 1 .. Len(prog.insns)
  BY StepBlocks
<1>2. /\ pass = "blocks" /\ pass' = "blocks" /\ prog' = prog /\ leaders' = leaders
      /\ edges' = edges /\ at' = at + 1
      /\ nextId' = Len(Closed) + 1
  BY <1>1 DEF HasBlock, InBlocks, Step, NextId
<1>3. PICK b \in Block : /\ Alike(Extended, b)
                        /\ \/ current' = <<b>> /\ blocks' = Closed
                           \/ current' = <<>> /\ blocks' = Append(Closed, b)
  <2>1. CASE current' = <<Extended>> /\ blocks' = Closed
    BY <1>1, <2>1 DEF Alike
  <2>2. ASSUME current' = <<>>, NEW t \in Terms,
               blocks' = Append(Closed, [Extended EXCEPT !.term = t])
        PROVE  \E b \in Block : Alike(Extended, b) /\ current' = <<>> /\ blocks' = Append(Closed, b)
    BY <1>1, <2>2, BlockFacts
  <2> QED
    BY <2>1, <2>2
<1>4. All' = Append(Closed, b)
  <2>1. <<b>> # <<>> /\ <<b>>[1] = b
    OBVIOUS
  <2>2. CASE current' = <<b>> /\ blocks' = Closed
    BY <2>1, <2>2 DEF All
  <2>3. CASE current' = <<>> /\ blocks' = Append(Closed, b)
    BY <2>3 DEF All
  <2> QED
    BY <1>3, <2>2, <2>3
<1>5. /\ current' \in Seq(Block) /\ Len(current') <= 1
      /\ blocks' \in Seq(Block)
      /\ nextId' \in Nat /\ at' \in Nat \ {0}
  <2>1. /\ Append(Closed, b) \in Seq(Block)
        /\ <<b>> \in Seq(Block) /\ Len(<<b>>) = 1
        /\ <<>> \in Seq(Block) /\ Len(<<>>) = 0
    BY <1>1
  <2>2. nextId' \in Nat /\ at' \in Nat \ {0}
    BY <1>1, <1>2
  <2> QED
    <3>1. CASE current' = <<b>> /\ blocks' = Closed
      BY <1>1, <2>1, <2>2, <3>1
    <3>2. CASE current' = <<>> /\ blocks' = Append(Closed, b)
      BY <2>1, <2>2, <3>2
    <3> QED
      BY <1>3, <3>1, <3>2
<1>6. TypeOK'
  BY <1>2, <1>5 DEF TypeOK, CfgInv
<1>7. Tiled(All)'
  <2>1. /\ Append(Closed, Extended) \in Seq(Block) /\ Append(Closed, b) \in Seq(Block)
        /\ Len(Append(Closed, Extended)) = Len(Append(Closed, b))
    BY <1>1
  <2>2. \A k \in 1 .. Len(Append(Closed, Extended)) :
            Alike(Append(Closed, Extended)[k], Append(Closed, b)[k])
    <3> TAKE k \in 1 .. Len(Append(Closed, Extended))
    <3>1. CASE k \in 1 .. Len(Closed)
      <4>1. Append(Closed, Extended)[k] = Closed[k] /\ Append(Closed, b)[k] = Closed[k]
        BY <1>1, <3>1
      <4> QED
        BY <4>1 DEF Alike
    <3>2. CASE k = Len(Closed) + 1
      <4>1. Append(Closed, Extended)[k] = Extended /\ Append(Closed, b)[k] = b
        BY <1>1, <3>2
      <4> QED
        BY <1>3, <4>1
    <3> QED
      BY <1>1, <3>1, <3>2
  <2>3. Tiled(Append(Closed, b))
    BY <1>1, <2>1, <2>2, AlikeTiled
  <2> QED
    BY <1>2, <1>4, <2>3, TiledNext
<1>8. (nextId = Len(All))'
  BY <1>1, <1>2, <1>4
<1>9. Begun'
  <2>1. (Entry \in leaders)'
    BY <1>2 DEF CfgInv, Begun, Entry
  <2>2. All' # <<>>
    <3>1. Len(Append(Closed, b)) = Len(Closed) + 1 /\ Len(Closed) \in Nat
      BY <1>1
    <3>2. Len(All') # 0
      BY <1>4, <3>1
    <3> QED
      BY <3>2
  <2>3. \A k \in 1 .. Len(Append(Closed, b)) : Append(Closed, b)[k].end <= EndOf(insn)
    <3>1. \A k \in 1 .. Len(Closed) + 1 : k \in 1 .. Len(Closed) \/ k = Len(Closed) + 1
      BY <1>1
    <3>2. Extended.end \in Nat
      BY <1>1, BlockFacts
    <3> QED
      BY <1>1, <1>3, <3>1, <3>2 DEF Alike
  <2>4. \A j \in at + 1 .. Len(prog.insns) : EndOf(insn) <= In(j).addr
    BY <1>1, InsnFacts DEF CfgInv, TypeOK
  <2>5. /\ \A k \in 1 .. Len(Append(Closed, b)) : Append(Closed, b)[k].end \in Nat
        /\ EndOf(insn) \in Nat
        /\ \A j \in at + 1 .. Len(prog.insns) : In(j).addr \in Nat
    <3>1. Append(Closed, b) \in Seq(Block)
      BY <1>1
    <3>2. \A k \in 1 .. Len(Append(Closed, b)) : Append(Closed, b)[k] \in Block
      BY <3>1
    <3>3. WellFormed(prog) /\ Len(prog.insns) \in Nat
      BY InsnFacts DEF CfgInv, TypeOK
    <3>4. \A j \in at + 1 .. Len(prog.insns) : j \in 1 .. Len(prog.insns)
      BY <1>1
    <3> QED
      BY <1>1, <3>2, <3>3, <3>4, BlockFacts, InsnFacts
  <2>6. \A k \in 1 .. Len(Append(Closed, b)), j \in at + 1 .. Len(prog.insns) :
            Append(Closed, b)[k].end <= In(j).addr
    BY <2>3, <2>4, <2>5
  <2>7. Below(All, at)'
    BY <1>2, <1>4, <2>6 DEF Below, In
  <2> QED
    BY <2>1, <2>2, <2>7 DEF Begun
<1>10. Unbegun' /\ Ended'
  BY <1>2 DEF Unbegun, Ended
<1> QED
  BY <1>6, <1>7, <1>8, <1>9, <1>10 DEF CfgInv

-----------------------------------------------------------------------------
(* The other steps.                                                        *)

LEMMA PatchFacts ==
    ASSUME blocks \in Seq(Block), NEW a \in Starts, NEW t \in Terms
    PROVE  /\ NodeAt(a) \in 1 .. Len(blocks) /\ IdAt(a) \in Nat
           /\ Patch(a, t) \in Seq(Block)
           /\ Len(Patch(a, t)) = Len(blocks)
           /\ \A k \in 1 .. Len(blocks) : Alike(blocks[k], Patch(a, t)[k])
<1>1. NodeAt(a) \in 1 .. Len(blocks)
  BY DEF Starts, NodeAt
<1>2. blocks[NodeAt(a)] \in Block
  BY <1>1
<1>3. PICK n, d : /\ n = NodeAt(a) /\ d = [blocks[n] EXCEPT !.term = t]
                  /\ Patch(a, t) = [blocks EXCEPT ![n] = d]
  BY DEF Patch
<1>4. n \in 1 .. Len(blocks) /\ d \in Block /\ Alike(blocks[n], d)
  BY <1>1, <1>2, <1>3, BlockFacts
<1>5. /\ [blocks EXCEPT ![n] = d] \in Seq(Block)
      /\ Len([blocks EXCEPT ![n] = d]) = Len(blocks)
      /\ [blocks EXCEPT ![n] = d][n] = d
      /\ \A k \in 1 .. Len(blocks) : k # n => [blocks EXCEPT ![n] = d][k] = blocks[k]
  BY <1>4
<1>6. \A k \in 1 .. Len(blocks) : Alike(blocks[k], Patch(a, t)[k])
  BY <1>3, <1>4, <1>5 DEF Alike
<1> QED
  BY <1>1, <1>2, <1>3, <1>5, <1>6, BlockFacts DEF IdAt

\* The wiring changes terminators only.
LEMMA WireStep ==
    ASSUME CfgInv, pass \in {"jumps", "branches", "done"},
           pass' \in {"jumps", "branches", "done"}, at' \in Nat \ {0},
           UNCHANGED <<prog, leaders, current, nextId, jumps, branches>>,
           edges' \in Seq([from : Nat, to : Nat]),
           \/ blocks' = blocks
           \/ \E a \in Starts, t \in Terms : blocks' = Patch(a, t)
    PROVE  CfgInv'
<1>1. blocks \in Seq(Block) /\ current = <<>> /\ All = blocks /\ All' = blocks'
  BY DEF CfgInv, TypeOK, Ended, All
<1>2. /\ blocks' \in Seq(Block) /\ Len(blocks') = Len(blocks)
      /\ \A k \in 1 .. Len(blocks) : Alike(blocks[k], blocks'[k])
  <2>1. CASE blocks' = blocks
    BY <1>1, <2>1 DEF Alike
  <2>2. CASE \E a \in Starts, t \in Terms : blocks' = Patch(a, t)
    BY <1>1, <2>2, PatchFacts
  <2> QED
    BY <2>1, <2>2
<1>3. TypeOK'
  BY <1>2 DEF TypeOK, CfgInv
<1>4. Tiled(All)'
  <2>1. Tiled(blocks)
    BY <1>1 DEF CfgInv
  <2>2. Tiled(blocks')
    BY <1>1, <1>2, <2>1, AlikeTiled
  <2> QED
    BY <1>1, <2>2, TiledNext
<1>5. (nextId = Len(All))'
  BY <1>1, <1>2 DEF CfgInv
<1>6. Unbegun' /\ Begun' /\ Ended'
  BY <1>1 DEF Unbegun, Begun, Ended
<1> QED
  BY <1>3, <1>4, <1>5, <1>6 DEF CfgInv

LEMMA InitCfg == Init => CfgInv
<1> SUFFICES ASSUME Init PROVE CfgInv
  OBVIOUS
<1>1. All = <<>>
  BY DEF Init, All
<1>2. TypeOK
  BY ProgramAssumption DEF Init, TypeOK
<1>3. Tiled(<<>>) /\ Len(<<>>) = 0
  BY DEF Tiled
<1> QED
  BY <1>1, <1>2, <1>3 DEF CfgInv, Init, Unbegun, Begun, Ended

LEMMA EmptyFunctionCfg == CfgInv /\ EmptyFunction => CfgInv'
<1> SUFFICES ASSUME CfgInv, EmptyFunction PROVE CfgInv'
  OBVIOUS
<1>1. /\ pass = "leaders" /\ pass' = "done" /\ current = <<>>
      /\ UNCHANGED <<prog, at, leaders, current, blocks, nextId, jumps, branches, edges>>
  BY DEF EmptyFunction, CfgInv, Unbegun
<1>2. All' = All
  BY <1>1 DEF All
<1> QED
  BY <1>1, <1>2, TiledNext DEF CfgInv, TypeOK, Unbegun, Begun, Ended

LEMMA FindLeadersCfg == CfgInv /\ FindLeaders => CfgInv'
<1> SUFFICES ASSUME CfgInv, FindLeaders PROVE CfgInv'
  OBVIOUS
<1>1. /\ pass = "leaders" /\ pass' = "blocks" /\ at = 1 /\ at' = 1 /\ prog' = prog
      /\ blocks = <<>> /\ current = <<>> /\ nextId = 0
      /\ UNCHANGED <<current, blocks, nextId, jumps, branches, edges>>
  BY DEF FindLeaders, CfgInv, Unbegun
<1>2. All = <<>> /\ All' = <<>>
  BY <1>1 DEF All
<1>3. leaders' \subseteq Nat /\ Entry \in leaders'
  <2>1. WellFormed(prog) /\ prog.insns \in Seq(Insn)
    BY DEF CfgInv, TypeOK, WellFormed
  <2>2. Entry \in Nat
    BY <2>1, InsnFacts DEF FindLeaders
  <2>3. \A i \in 1 .. Len(prog.insns) : EndOf(prog.insns[i]) \in Nat /\ prog.insns[i].target \in Nat
    <3>1. \A i \in 1 .. Len(prog.insns) : prog.insns[i] \in Insn
      BY <2>1
    <3> QED
      BY <3>1 DEF EndOf, Insn
  <2> QED
    BY <2>2, <2>3 DEF FindLeaders, Followers, Landings
<1>4. TypeOK'
  BY <1>1, <1>3 DEF CfgInv, TypeOK
<1>5. Tiled(<<>>)' /\ Len(<<>>) = 0
  BY DEF Tiled
<1>6. Begun'
  BY <1>1, <1>2, <1>3 DEF Begun, Below, Entry
<1> QED
  BY <1>1, <1>2, <1>4, <1>5, <1>6 DEF CfgInv, Unbegun, Ended

LEMMA SkipInsnCfg == CfgInv /\ SkipInsn => CfgInv'
<1> SUFFICES ASSUME CfgInv, SkipInsn PROVE CfgInv'
  OBVIOUS
<1>1. /\ pass = "blocks" /\ pass' = "blocks" /\ at \in 1 .. Len(prog.insns) /\ at' = at + 1
      /\ insn.addr \notin leaders /\ current = <<>>
      /\ UNCHANGED <<prog, leaders, current, blocks, nextId, jumps, branches, edges>>
  BY DEF SkipInsn, InBlocks, Opens, CfgInv, TypeOK
<1>2. TypeOK'
  BY <1>1 DEF CfgInv, TypeOK
<1>3. All' = All
  BY <1>1 DEF All
<1>4. Tiled(All)' /\ (nextId = Len(All))'
  BY <1>1, <1>3, TiledNext DEF CfgInv
<1>5. Begun'
  <2>1. All # <<>>
    <3>1. at = 1 => insn.addr = Entry
      BY DEF insn, Entry
    <3> QED
      BY <1>1, <3>1 DEF CfgInv, Begun
  <2>2. Below(All, at)
    BY <1>1 DEF CfgInv, Begun
  <2>3. Below(All, at)'
    <3>1. \A j \in at + 1 .. Len(prog.insns) : j \in at .. Len(prog.insns)
      BY <1>1
    <3> QED
      BY <1>1, <1>3, <2>2, <3>1 DEF Below, In
  <2> QED
    BY <1>1, <1>3, <2>1, <2>3 DEF CfgInv, Begun, Entry
<1> QED
  BY <1>1, <1>2, <1>4, <1>5 DEF CfgInv, Unbegun, Ended

LEMMA EndBlocksCfg == CfgInv /\ EndBlocks => CfgInv'
<1> SUFFICES ASSUME CfgInv, EndBlocks PROVE CfgInv'
  OBVIOUS
<1>1. /\ pass = "blocks" /\ pass' = "jumps" /\ at' = 1 /\ current' = <<>>
      /\ UNCHANGED <<prog, leaders, nextId, jumps, branches, edges>>
      /\ blocks \in Seq(Block) /\ current \in Seq(Block) /\ Len(current) <= 1
      /\ Tiled(All) /\ nextId = Len(All)
  BY DEF EndBlocks, CfgInv, TypeOK
<1>2. All' = blocks'
  BY <1>1 DEF All
<1>3. /\ All \in Seq(Block) /\ blocks' \in Seq(Block) /\ Len(blocks') = Len(All)
      /\ \A k \in 1 .. Len(All) : Alike(All[k], blocks'[k])
  <2>1. CASE current = <<>>
    <3>1. All = blocks /\ blocks' = blocks
      BY <2>1 DEF All, EndBlocks
    <3> QED
      BY <1>1, <3>1 DEF Alike
  <2>2. CASE current # <<>>
    <3>1. PICK c, d : /\ c = current[1] /\ d = [c EXCEPT !.term = Term("Return", <<>>)]
                      /\ All = Append(blocks, c) /\ blocks' = Append(blocks, d)
      BY <2>2 DEF All, EndBlocks
    <3>2. c \in Block
      BY <1>1, <2>2, <3>1
    <3>3. d \in Block /\ Alike(c, d)
      BY <3>1, <3>2, BlockFacts, TermFacts
    <3>4. /\ Append(blocks, c) \in Seq(Block) /\ Append(blocks, d) \in Seq(Block)
          /\ Len(Append(blocks, c)) = Len(Append(blocks, d))
      BY <1>1, <3>2, <3>3
    <3>5. \A k \in 1 .. Len(Append(blocks, c)) :
            Alike(Append(blocks, c)[k], Append(blocks, d)[k])
      BY <1>1, <3>2, <3>3 DEF Alike
    <3> QED
      BY <3>1, <3>4, <3>5
  <2> QED
    BY <2>1, <2>2
<1>4. TypeOK'
  BY <1>1, <1>3 DEF CfgInv, TypeOK
<1>5. Tiled(All)'
  BY <1>1, <1>2, <1>3, AlikeTiled, TiledNext
<1>6. (nextId = Len(All))'
  BY <1>1, <1>2, <1>3
<1> QED
  BY <1>1, <1>4, <1>5, <1>6 DEF CfgInv, Unbegun, Begun, Ended

\* The pending jumps and branches have their shape.
LEMMA PendingFacts ==
    ASSUME CfgInv, HasBlock
    PROVE  /\ FallThroughs \in Seq([from : Nat, to : Nat])
           /\ Append(FallThroughs, [from |-> Extended.start, to |-> insn.target])
                \in Seq([from : Nat, to : Nat])
           /\ Append(branches, [from |-> Extended.start, yes |-> insn.target, no |-> EndOf(insn)])
                \in Seq([from : Nat, yes : Nat, no : Nat])
<1>1. Extended \in Block /\ insn = In(at) /\ at \in 1 .. Len(prog.insns)
  BY StepBlocks
<1>2. insn.addr \in Nat /\ insn.target \in Nat /\ EndOf(insn) \in Nat
  BY <1>1, InsnFacts DEF CfgInv, TypeOK, Insn
<1>3. Extended.start \in Nat
  BY <1>1, BlockFacts
<1>4. FallThroughs \in Seq([from : Nat, to : Nat])
  <2>1. CASE Opens /\ current # <<>>
    <3>1. current[1] \in Block
      BY <2>1 DEF CfgInv, TypeOK
    <3>2. current[1].start \in Nat
      BY <3>1, BlockFacts
    <3>3. [from |-> current[1].start, to |-> insn.addr] \in [from : Nat, to : Nat]
      BY <1>2, <3>2
    <3>4. jumps \in Seq([from : Nat, to : Nat])
      BY DEF CfgInv, TypeOK
    <3> QED
      BY <2>1, <3>3, <3>4 DEF FallThroughs
  <2>2. CASE ~(Opens /\ current # <<>>)
    BY <2>2 DEF FallThroughs, CfgInv, TypeOK
  <2> QED
    BY <2>1, <2>2
<1>5. branches \in Seq([from : Nat, yes : Nat, no : Nat])
  BY DEF CfgInv, TypeOK
<1> QED
  BY <1>2, <1>3, <1>4, <1>5

LEMMA CfgStep == CfgInv /\ [Next]_vars => CfgInv'
<1> SUFFICES ASSUME CfgInv, [Next]_vars PROVE CfgInv'
  OBVIOUS
<1>0. CASE EmptyFunction
  BY <1>0, EmptyFunctionCfg
<1>1. CASE FindLeaders
  BY <1>1, FindLeadersCfg
<1>2. CASE SkipInsn
  BY <1>2, SkipInsnCfg
<1>3. branches \in Seq([from : Nat, yes : Nat, no : Nat])
  BY DEF CfgInv, TypeOK
<1>4. CASE PlainInsn
  BY <1>3, <1>4, InsnStep, PendingFacts DEF PlainInsn
<1>5. CASE ExitInsn
  BY <1>3, <1>5, InsnStep, PendingFacts, TermFacts DEF ExitInsn, Close
<1>6. CASE JumpInsn
  BY <1>3, <1>6, InsnStep, PendingFacts, TermFacts DEF JumpInsn, Close
<1>7. CASE BranchInsn
  BY <1>7, InsnStep, PendingFacts, TermFacts DEF BranchInsn, Close
<1>8. CASE EndBlocks
  BY <1>8, EndBlocksCfg
<1>9. CASE WireJump
  <2>1. PICK j : j = jumps[at]
    OBVIOUS
  <2>2. CASE {j.from, j.to} \subseteq Starts
    <3>1. /\ j.from \in Starts
          /\ blocks' = Patch(j.from, Term("Jump", <<IdAt(j.to)>>))
          /\ edges' = Append(edges, [from |-> NodeAt(j.from), to |-> NodeAt(j.to)])
      BY <1>9, <2>1, <2>2 DEF WireJump
    <3>2. IdAt(j.to) \in Nat /\ NodeAt(j.from) \in Nat /\ NodeAt(j.to) \in Nat
      BY <2>2, PatchFacts, TermFacts DEF CfgInv, TypeOK
    <3>3. Term("Jump", <<IdAt(j.to)>>) \in Terms
      BY <3>2, TermFacts
    <3>4. edges' \in Seq([from : Nat, to : Nat])
      BY <3>1, <3>2 DEF CfgInv, TypeOK
    <3>5. \E a \in Starts, t \in Terms : blocks' = Patch(a, t)
      BY <3>1, <3>3
    <3>6. /\ pass \in {"jumps", "branches", "done"} /\ pass' = pass /\ at' \in Nat \ {0}
          /\ UNCHANGED <<prog, leaders, current, nextId, jumps, branches>>
      BY <1>9 DEF WireJump, CfgInv, TypeOK
    <3> QED
      BY <3>4, <3>5, <3>6, WireStep
  <2>3. CASE ~({j.from, j.to} \subseteq Starts)
    BY <1>9, <2>1, <2>3, WireStep DEF WireJump, CfgInv, TypeOK
  <2> QED
    BY <2>2, <2>3
<1>10. CASE EndJumps
  BY <1>10, WireStep DEF EndJumps, CfgInv, TypeOK
<1>11. CASE WireBranch
  <2>1. PICK b : b = branches[at]
    OBVIOUS
  <2>2. CASE {b.from, b.yes, b.no} \subseteq Starts
    <3>1. /\ b.from \in Starts
          /\ blocks' = Patch(b.from, Term("Branch", <<IdAt(b.yes), IdAt(b.no)>>))
          /\ edges' = edges \o <<[from |-> NodeAt(b.from), to |-> NodeAt(b.yes)],
                                 [from |-> NodeAt(b.from), to |-> NodeAt(b.no)]>>
      BY <1>11, <2>1, <2>2 DEF WireBranch
    <3>2. /\ IdAt(b.yes) \in Nat /\ IdAt(b.no) \in Nat
          /\ NodeAt(b.from) \in Nat /\ NodeAt(b.yes) \in Nat /\ NodeAt(b.no) \in Nat
      BY <2>2, PatchFacts, TermFacts DEF CfgInv, TypeOK
    <3>3. Term("Branch", <<IdAt(b.yes), IdAt(b.no)>>) \in Terms
      BY <3>2, TermFacts
    <3>4. edges' \in Seq([from : Nat, to : Nat])
      BY <3>1, <3>2 DEF CfgInv, TypeOK
    <3>5. \E a \in Starts, t \in Terms : blocks' = Patch(a, t)
      BY <3>1, <3>3
    <3>6. /\ pass \in {"jumps", "branches", "done"} /\ pass' = pass /\ at' \in Nat \ {0}
          /\ UNCHANGED <<prog, leaders, current, nextId, jumps, branches>>
      BY <1>11 DEF WireBranch, CfgInv, TypeOK
    <3> QED
      BY <3>4, <3>5, <3>6, WireStep
  <2>3. CASE ~({b.from, b.yes, b.no} \subseteq Starts)
    BY <1>11, <2>1, <2>3, WireStep DEF WireBranch, CfgInv, TypeOK
  <2> QED
    BY <2>2, <2>3
<1>12. CASE EndBranches
  BY <1>12, WireStep DEF EndBranches, CfgInv, TypeOK
<1>13. CASE UNCHANGED vars
  <2>1. All' = All
    BY <1>13 DEF vars, All
  <2> QED
    BY <1>13, <2>1, TiledNext DEF vars, CfgInv, TypeOK, Unbegun, Begun, Ended, Below, Entry, In
<1> QED
  BY <1>0, <1>1, <1>2, <1>4, <1>5, <1>6, <1>7, <1>8, <1>9, <1>10, <1>11, <1>12, <1>13
     DEF Next, Returned

(***************************************************************************)
(* Every state of build_cfg has its shape.                                 *)
(***************************************************************************)
THEOREM ShapesAreKept == Spec => []TypeOK
<1>1. CfgInv => TypeOK
  BY DEF CfgInv
<1> QED
  BY <1>1, InitCfg, CfgStep, PTL DEF Spec

(***************************************************************************)
(* In every function, whatever its jumps and its holes, build_cfg's blocks *)
(* do not overlap, lie in address order and have their place for id: the   *)
(* block with the lowest address, NodeIndex 0 and the entry are the same.  *)
(***************************************************************************)
THEOREM TheBlocksTile == Spec => []BlocksTile
<1>1. CfgInv => BlocksTile
  <2> SUFFICES ASSUME CfgInv PROVE BlocksTile
    OBVIOUS
  <2>1. blocks \in Seq(Block) /\ current \in Seq(Block) /\ Len(current) <= 1
    BY DEF CfgInv, TypeOK
  <2>2. blocks \o current = All
    <3>1. CASE current = <<>>
      BY <2>1, <3>1 DEF All
    <3>2. CASE current # <<>>
      <4>1. current = <<current[1]>>
        <5>1. \A s \in Seq(Block) : Len(s) \in Nat /\ (Len(s) = 0 => s = <<>>)
          OBVIOUS
        <5>2. \A n \in Nat : n <= 1 /\ n # 0 => n = 1
          OBVIOUS
        <5>3. Len(current) = 1
          BY <2>1, <3>2, <5>1, <5>2, Zenon
        <5> QED
          BY <2>1, <5>3
      <4>2. blocks \o <<current[1]>> = Append(blocks, current[1])
        BY <2>1
      <4> QED
        BY <3>2, <4>1, <4>2 DEF All
    <3> QED
      BY <3>1, <3>2
  <2> QED
    BY <2>2 DEF CfgInv, BlocksTile, Tiled, Placed
<1> QED
  BY <1>1, InitCfg, CfgStep, PTL DEF Spec
-----------------------------------------------------------------------------
(* The walk over the instructions: what the blocks hold, what they leave   *)
(* out, and what is pending for each of them.                              *)

Within(b, i) == b.start <= In(i).addr /\ In(i).addr < b.end

\* Instruction i is the last of block b.
Ends(b, i) == Within(b, i) /\ b.end = EndOf(In(i))

\* Instruction i is behind a hole that follows the end of a block.
Lost(i) ==
    \E h \in 1 .. i - 1 :
        /\ EndsBlock(In(h))
        /\ In(h + 1).addr # EndOf(In(h))
        /\ \A m \in h + 1 .. i : In(m).addr \notin leaders

\* The first p instructions have been put into the blocks of s.
Walked(s, p) ==
    /\ \A k \in 1 .. Len(s) : \E i \in 1 .. p : Ends(s[k], i)
    /\ \A i \in 1 .. p : In(i).addr \in leaders => \E k \in 1 .. Len(s) : s[k].start = In(i).addr
    /\ \A i \in 1 .. p : (\E k \in 1 .. Len(s) : Within(s[k], i)) \/ Lost(i)

\* No block is open after p instructions.
Gap(p) ==
    p = 0 \/ \E h \in 1 .. p :
                /\ EndsBlock(In(h))
                /\ \A m \in h + 1 .. p : In(m).addr \notin leaders
                /\ h < p => In(h + 1).addr # EndOf(In(h))

Opened(b, p) == p \in 1 .. N /\ Ends(b, p) /\ In(p).kind = "plain"

\* What is pending for the closed block b, whose last instruction is i.
Closing(b, i, js, bs) ==
    /\ In(i).kind = "plain" /\ i < N =>
        /\ In(i + 1).addr \in leaders
        /\ \E e \in 1 .. Len(js) : js[e] = [from |-> b.start, to |-> In(i + 1).addr]
    /\ In(i).kind = "jmp" /\ In(i).target # 0 =>
        \E e \in 1 .. Len(js) : js[e] = [from |-> b.start, to |-> In(i).target]
    /\ In(i).kind = "jcc" =>
        \E e \in 1 .. Len(bs) :
            bs[e] = [from |-> b.start, yes |-> In(i).target, no |-> EndOf(In(i))]

\* The pending jumps and branches are those of the closed blocks, one each.
Pending(s, js, bs) ==
    /\ \A k \in 1 .. Len(s), i \in 1 .. N : Ends(s[k], i) => Closing(s[k], i, js, bs)
    /\ \A e \in 1 .. Len(js) : \E k \in 1 .. Len(s), i \in 1 .. N :
            /\ Ends(s[k], i) /\ In(i).kind # "jcc"
            /\ js[e].from = s[k].start /\ js[e].to \in Flow(i)
    /\ \A e \in 1 .. Len(bs) : \E k \in 1 .. Len(s), i \in 1 .. N :
            /\ Ends(s[k], i) /\ In(i).kind = "jcc"
            /\ bs[e] = [from |-> s[k].start, yes |-> In(i).target, no |-> EndOf(In(i))]
    /\ \A d, e \in 1 .. Len(js) : js[d].from = js[e].from => d = e
    /\ \A d, e \in 1 .. Len(bs) : bs[d].from = bs[e].from => d = e

LeadersAre ==
    prog.insns # <<>> /\ pass # "leaders" => leaders = {Entry} \cup Followers \cup Landings

WalkInv ==
    /\ CfgInv /\ LeadersAre
    /\ pass = "leaders" => jumps = <<>> /\ branches = <<>>
    /\ pass = "blocks" =>
        /\ prog.insns # <<>> /\ at <= N + 1
        /\ Walked(All, at - 1)
        /\ current = <<>> => Gap(at - 1)
        /\ current # <<>> => Opened(current[1], at - 1)
    /\ pass \in {"jumps", "branches", "done"} => Walked(blocks, N)
    /\ Pending(blocks, jumps, branches)

-----------------------------------------------------------------------------
(* The edges.                                                              *)

\* The first q jumps and the first r branches have been wired.
Wired(q, r) ==
    /\ \A e \in 1 .. Len(edges) :
        /\ edges[e].from \in 1 .. Len(blocks) /\ edges[e].to \in 1 .. Len(blocks)
        /\ \E i \in 1 .. N : /\ Ends(blocks[edges[e].from], i)
                             /\ blocks[edges[e].to].start \in Flow(i)
        /\ \/ \E d \in 1 .. q : jumps[d].from = blocks[edges[e].from].start
           \/ \E d \in 1 .. r : branches[d].from = blocks[edges[e].from].start
    /\ \A d, e \in 1 .. Len(edges) :
        d < e /\ edges[d].from = edges[e].from
            => e = d + 1 /\ blocks[edges[d].from].term.kind = "Branch"
    /\ \A d \in 1 .. q, k, m \in 1 .. Len(blocks) :
        jumps[d].from = blocks[k].start /\ jumps[d].to = blocks[m].start => HasEdge(k, m)
    /\ \A d \in 1 .. r, k, m, n \in 1 .. Len(blocks) :
        /\ branches[d].from = blocks[k].start
        /\ branches[d].yes = blocks[m].start /\ branches[d].no = blocks[n].start
        => HasEdge(k, m) /\ HasEdge(k, n)

EdgeInv ==
    /\ WalkInv
    /\ pass \in {"leaders", "blocks"} => edges = <<>>
    /\ pass = "jumps" => at <= Len(jumps) + 1 /\ Wired(at - 1, 0)
    /\ pass = "branches" => at <= Len(branches) + 1 /\ Wired(Len(jumps), at - 1)
    /\ pass = "done" => Wired(Len(jumps), Len(branches))

LEMMA EndsOnce ==
    ASSUME WellFormed(prog), NEW b, NEW i \in 1 .. N, NEW j \in 1 .. N, Ends(b, i), Ends(b, j)
    PROVE  i = j
<1>1. /\ \A k \in 1 .. N : /\ In(k).addr \in Nat /\ EndOf(In(k)) \in Nat
                           /\ In(k).addr < EndOf(In(k))
      /\ \A k, m \in 1 .. N : k < m => EndOf(In(k)) <= In(m).addr
  BY InsnFacts DEF N
<1>2. EndOf(In(i)) = EndOf(In(j))
  BY DEF Ends
<1>3. i < j \/ j < i \/ i = j
  BY InsnFacts DEF N
<1>4. CASE i < j
  BY <1>1, <1>2, <1>4
<1>5. CASE j < i
  BY <1>1, <1>2, <1>5
<1> QED
  BY <1>3, <1>4, <1>5

LEMMA AlikeEnds ==
    ASSUME NEW b, NEW c, Alike(b, c), NEW i
    PROVE  (Within(b, i) <=> Within(c, i)) /\ (Ends(b, i) <=> Ends(c, i))
BY DEF Alike, Within, Ends

LEMMA AlikeWalked ==
    ASSUME NEW s, NEW t, Len(s) = Len(t), \A k \in 1 .. Len(s) : Alike(s[k], t[k]),
           NEW p, Walked(s, p)
    PROVE  Walked(t, p)
<1>1. \A k \in 1 .. Len(t) : \E i \in 1 .. p : Ends(t[k], i)
  BY AlikeEnds DEF Walked
<1>2. \A i \in 1 .. p : In(i).addr \in leaders => \E k \in 1 .. Len(t) : t[k].start = In(i).addr
  BY DEF Walked, Alike
<1>3. \A i \in 1 .. p : (\E k \in 1 .. Len(t) : Within(t[k], i)) \/ Lost(i)
  BY AlikeEnds DEF Walked
<1> QED
  BY <1>1, <1>2, <1>3 DEF Walked

LEMMA AlikePending ==
    ASSUME NEW s, NEW t, Len(s) = Len(t), \A k \in 1 .. Len(s) : Alike(s[k], t[k]),
           NEW js, NEW bs, Pending(s, js, bs)
    PROVE  Pending(t, js, bs)
<1>1. \A k \in 1 .. Len(t) : t[k].start = s[k].start
  BY DEF Alike
<1>2. \A k \in 1 .. Len(t), i \in 1 .. N : Ends(t[k], i) => Ends(s[k], i)
  BY AlikeEnds
<1>3. \A k \in 1 .. Len(s), i \in 1 .. N : Ends(s[k], i) => Ends(t[k], i)
  BY AlikeEnds
<1>4. \A k \in 1 .. Len(t), i \in 1 .. N : Ends(t[k], i) => Closing(t[k], i, js, bs)
  <2> TAKE k \in 1 .. Len(t), i \in 1 .. N
  <2> HAVE Ends(t[k], i)
  <2>1. Closing(s[k], i, js, bs)
    BY <1>2 DEF Pending
  <2> QED
    BY <1>1, <2>1 DEF Closing
<1>5. \A e \in 1 .. Len(js) : \E k \in 1 .. Len(t), i \in 1 .. N :
            /\ Ends(t[k], i) /\ In(i).kind # "jcc"
            /\ js[e].from = t[k].start /\ js[e].to \in Flow(i)
  <2> TAKE e \in 1 .. Len(js)
  <2>1. PICK k \in 1 .. Len(s), i \in 1 .. N :
            /\ Ends(s[k], i) /\ In(i).kind # "jcc"
            /\ js[e].from = s[k].start /\ js[e].to \in Flow(i)
    BY DEF Pending
  <2>2. Ends(t[k], i) /\ t[k].start = s[k].start /\ k \in 1 .. Len(t)
    BY <1>1, <1>3, <2>1
  <2> QED
    BY <2>1, <2>2
<1>6. \A e \in 1 .. Len(bs) : \E k \in 1 .. Len(t), i \in 1 .. N :
            /\ Ends(t[k], i) /\ In(i).kind = "jcc"
            /\ bs[e] = [from |-> t[k].start, yes |-> In(i).target, no |-> EndOf(In(i))]
  <2> TAKE e \in 1 .. Len(bs)
  <2>1. PICK k \in 1 .. Len(s), i \in 1 .. N :
            /\ Ends(s[k], i) /\ In(i).kind = "jcc"
            /\ bs[e] = [from |-> s[k].start, yes |-> In(i).target, no |-> EndOf(In(i))]
    BY DEF Pending
  <2>2. Ends(t[k], i) /\ t[k].start = s[k].start /\ k \in 1 .. Len(t)
    BY <1>1, <1>3, <2>1
  <2> QED
    BY <2>1, <2>2
<1> QED
  BY <1>4, <1>5, <1>6 DEF Pending

\* In a layout, blocks start at different addresses.
LEMMA StartsDiffer ==
    ASSUME NEW s \in Seq(Block), Tiled(s), NEW k \in 1 .. Len(s), NEW m \in 1 .. Len(s),
           s[k].start = s[m].start
    PROVE  k = m
<1>1. \A j \in 1 .. Len(s) : s[j].start \in Nat /\ s[j].end \in Nat /\ s[j].start < s[j].end
  BY BlockFacts DEF Tiled, Placed
<1>2. \A i, j \in 1 .. Len(s) : i < j => s[i].end <= s[j].start
  BY DEF Tiled
<1>3. k < m \/ m < k \/ k = m
  OBVIOUS
<1> QED
  BY <1>1, <1>2, <1>3

Added(old, new, S) == new = old \/ \E x \in S : new = Append(old, x)

LEMMA AddedFacts ==
    ASSUME NEW T, NEW old \in Seq(T), NEW new, NEW S, Added(old, new, S)
    PROVE  /\ Len(old) \in Nat /\ Len(new) \in Nat /\ Len(old) <= Len(new)
           /\ \A e \in 1 .. Len(old) : e \in 1 .. Len(new) /\ new[e] = old[e]
           /\ \A e \in 1 .. Len(new) : e \in 1 .. Len(old) \/ (e = Len(old) + 1 /\ new[e] \in S)
<1>1. CASE new = old
  BY <1>1
<1>2. CASE \E x \in S : new = Append(old, x)
  <2>1. PICK x \in S : new = Append(old, x)
    BY <1>2
  <2>2. PICK U : U = T \cup {x}
    OBVIOUS
  <2>3. old \in Seq(U) /\ x \in U /\ Len(old) \in Nat
    BY <2>2
  <2> QED
    BY <2>1, <2>3
<1> QED
  BY <1>1, <1>2 DEF Added

\* A block is closed with what is pending for it.
LEMMA PendingGrows ==
    ASSUME WellFormed(prog), NEW s \in Seq(Block), NEW b \in Block, Tiled(Append(s, b)),
           NEW js \in Seq([from : Nat, to : Nat]), NEW js1,
           NEW bs \in Seq([from : Nat, yes : Nat, no : Nat]), NEW bs1,
           Pending(s, js, bs), NEW i \in 1 .. N, Ends(b, i),
           Added(js, js1, {j \in [from : {b.start}, to : Flow(i)] : In(i).kind # "jcc"}),
           Added(bs, bs1, {[from |-> b.start, yes |-> In(i).target, no |-> EndOf(In(i))]}),
           bs1 # bs => In(i).kind = "jcc",
           Closing(b, i, js1, bs1)
    PROVE  Pending(Append(s, b), js1, bs1)
<1>1. PICK t : t = Append(s, b)
  OBVIOUS
<1>2. /\ Len(s) \in Nat /\ Len(t) = Len(s) + 1 /\ t[Len(t)] = b /\ t \in Seq(Block)
      /\ Len(t) \in 1 .. Len(t)
      /\ \A k \in 1 .. Len(s) : t[k] = s[k] /\ k \in 1 .. Len(t)
      /\ \A k \in 1 .. Len(t) : k \in 1 .. Len(s) \/ k = Len(t)
  BY <1>1
<1>3. PICK F : F = {j \in [from : {b.start}, to : Flow(i)] : In(i).kind # "jcc"}
  OBVIOUS
<1>4. PICK a : a = [from |-> b.start, yes |-> In(i).target, no |-> EndOf(In(i))]
  OBVIOUS
<1>5. /\ Len(js) \in Nat /\ Len(js1) \in Nat /\ Len(js) <= Len(js1)
      /\ \A e \in 1 .. Len(js) : e \in 1 .. Len(js1) /\ js1[e] = js[e]
      /\ \A e \in 1 .. Len(js1) : e \in 1 .. Len(js) \/ (e = Len(js) + 1 /\ js1[e] \in F)
  <2>1. Added(js, js1, F)
    BY <1>3, Zenon
  <2> QED
    BY <2>1, AddedFacts
<1>6. /\ Len(bs) \in Nat /\ Len(bs1) \in Nat /\ Len(bs) <= Len(bs1)
      /\ \A e \in 1 .. Len(bs) : e \in 1 .. Len(bs1) /\ bs1[e] = bs[e]
      /\ \A e \in 1 .. Len(bs1) : e \in 1 .. Len(bs) \/ (e = Len(bs) + 1 /\ bs1[e] \in {a})
  BY <1>4, AddedFacts
<1>7. \A j \in F : j.from = b.start /\ j.to \in Flow(i) /\ In(i).kind # "jcc"
  BY <1>3
<1>8. a.from = b.start
  BY <1>4
<1>9. \A k \in 1 .. Len(s) : s[k].start # b.start
  <2> SUFFICES ASSUME NEW k \in 1 .. Len(s), s[k].start = b.start PROVE FALSE
    OBVIOUS
  <2>1. t[k].start = t[Len(t)].start /\ Tiled(t)
    BY <1>1, <1>2
  <2>2. k = Len(t)
    BY <1>2, <2>1, StartsDiffer
  <2> QED
    BY <1>2, <2>2
<1>10. \A k \in 1 .. Len(t), i1 \in 1 .. N : Ends(t[k], i1) => Closing(t[k], i1, js1, bs1)
  <2> TAKE k \in 1 .. Len(t), i1 \in 1 .. N
  <2> HAVE Ends(t[k], i1)
  <2>1. CASE k \in 1 .. Len(s)
    <3>1. Closing(s[k], i1, js, bs)
      BY <1>2, <2>1 DEF Pending
    <3>2. Closing(s[k], i1, js1, bs1)
      BY <1>5, <1>6, <3>1 DEF Closing
    <3> QED
      BY <1>2, <2>1, <3>2
  <2>2. CASE k = Len(t)
    <3>1. i1 = i
      BY <1>2, <2>2, EndsOnce
    <3> QED
      BY <1>2, <2>2, <3>1
  <2> QED
    BY <1>2, <2>1, <2>2
<1>11. \A e \in 1 .. Len(js1) : \E k \in 1 .. Len(t), i1 \in 1 .. N :
            /\ Ends(t[k], i1) /\ In(i1).kind # "jcc"
            /\ js1[e].from = t[k].start /\ js1[e].to \in Flow(i1)
  <2> TAKE e \in 1 .. Len(js1)
  <2>1. CASE e \in 1 .. Len(js)
    <3>1. PICK k \in 1 .. Len(s), i1 \in 1 .. N :
            /\ Ends(s[k], i1) /\ In(i1).kind # "jcc"
            /\ js[e].from = s[k].start /\ js[e].to \in Flow(i1)
      BY <2>1 DEF Pending
    <3>2. k \in 1 .. Len(t) /\ t[k] = s[k] /\ js1[e] = js[e]
      BY <1>2, <1>5, <2>1
    <3> QED
      BY <3>1, <3>2
  <2>2. CASE js1[e] \in F
    BY <1>2, <1>7, <2>2
  <2> QED
    BY <1>5, <2>1, <2>2
<1>12. \A e \in 1 .. Len(bs1) : \E k \in 1 .. Len(t), i1 \in 1 .. N :
            /\ Ends(t[k], i1) /\ In(i1).kind = "jcc"
            /\ bs1[e] = [from |-> t[k].start, yes |-> In(i1).target, no |-> EndOf(In(i1))]
  <2> TAKE e \in 1 .. Len(bs1)
  <2>1. CASE e \in 1 .. Len(bs)
    <3>1. PICK k \in 1 .. Len(s), i1 \in 1 .. N :
            /\ Ends(s[k], i1) /\ In(i1).kind = "jcc"
            /\ bs[e] = [from |-> s[k].start, yes |-> In(i1).target, no |-> EndOf(In(i1))]
      BY <2>1 DEF Pending
    <3>2. k \in 1 .. Len(t) /\ t[k] = s[k] /\ bs1[e] = bs[e]
      BY <1>2, <1>6, <2>1
    <3> QED
      BY <3>1, <3>2
  <2>2. CASE e = Len(bs) + 1 /\ bs1[e] = a
    <3>1. bs1 # bs
      BY <1>6, <2>2
    <3>2. In(i).kind = "jcc"
      BY <3>1
    <3>3. Len(t) \in 1 .. Len(t) /\ t[Len(t)] = b
      BY <1>2
    <3> QED
      BY <1>4, <2>2, <3>2, <3>3
  <2> QED
    BY <1>6, <2>1, <2>2
<1>13. \A e \in 1 .. Len(js) : js[e].from # b.start
  BY <1>9 DEF Pending
<1>14. \A d, e \in 1 .. Len(js1) : js1[d].from = js1[e].from => d = e
  <2> TAKE d, e \in 1 .. Len(js1)
  <2> HAVE js1[d].from = js1[e].from
  <2>1. CASE d \in 1 .. Len(js) /\ e \in 1 .. Len(js)
    BY <1>5, <2>1 DEF Pending
  <2>2. CASE d \in 1 .. Len(js) /\ e \notin 1 .. Len(js)
    BY <1>5, <1>7, <1>13, <2>2
  <2>3. CASE d \notin 1 .. Len(js) /\ e \in 1 .. Len(js)
    BY <1>5, <1>7, <1>13, <2>3
  <2> QED
    BY <1>5, <2>1, <2>2, <2>3
<1>15. \A e \in 1 .. Len(bs) : bs[e].from # b.start
  <2> TAKE e \in 1 .. Len(bs)
  <2>1. PICK k \in 1 .. Len(s), i1 \in 1 .. N :
            bs[e] = [from |-> s[k].start, yes |-> In(i1).target, no |-> EndOf(In(i1))]
    BY DEF Pending
  <2> QED
    BY <1>9, <2>1
<1>16. \A d, e \in 1 .. Len(bs1) : bs1[d].from = bs1[e].from => d = e
  <2> TAKE d, e \in 1 .. Len(bs1)
  <2> HAVE bs1[d].from = bs1[e].from
  <2>1. CASE d \in 1 .. Len(bs) /\ e \in 1 .. Len(bs)
    BY <1>6, <2>1 DEF Pending
  <2>2. CASE d \in 1 .. Len(bs) /\ e \notin 1 .. Len(bs)
    BY <1>6, <1>8, <1>15, <2>2
  <2>3. CASE d \notin 1 .. Len(bs) /\ e \in 1 .. Len(bs)
    BY <1>6, <1>8, <1>15, <2>3
  <2> QED
    BY <1>6, <2>1, <2>2, <2>3
<1> QED
  BY <1>1, <1>10, <1>11, <1>12, <1>14, <1>16 DEF Pending

\* The blocks of a step are those before it, the last one longer at most,
\* and the one it opens.
LEMMA GrowFacts ==
    ASSUME CfgInv, HasBlock
    PROVE  LET t == Append(Closed, Extended)
           IN  /\ All \in Seq(Block) /\ Len(All) <= Len(t)
               /\ \A k \in 1 .. Len(All) :
                    k \in 1 .. Len(t) /\ t[k].start = All[k].start /\ All[k].end <= t[k].end
               /\ \A k \in 1 .. Len(Closed) : k \in 1 .. Len(All) /\ Alike(All[k], Closed[k])
               /\ Opens => Extended.start = insn.addr
               /\ Extended.start <= insn.addr
<1>1. /\ WellFormed(prog) /\ pass = "blocks" /\ at \in 1 .. Len(prog.insns)
      /\ blocks \in Seq(Block) /\ current \in Seq(Block) /\ Len(current) <= 1 /\ Tiled(All)
  BY DEF CfgInv, TypeOK, HasBlock, InBlocks
<1>2. insn = In(at) /\ insn.addr \in Nat /\ EndOf(insn) \in Nat /\ insn.addr < EndOf(insn)
  BY <1>1, InsnFacts DEF insn, In
<1>3. \A k \in 1 .. Len(All) : All[k].end <= insn.addr
  BY <1>1, <1>2 DEF CfgInv, Begun, Below
<1>4. /\ Closed \in Seq(Block) /\ Extended \in Block /\ Extended.end = EndOf(insn)
  BY StepBlocks
<1>5. PICK t : t = Append(Closed, Extended)
  OBVIOUS
<1>6. /\ Len(Closed) \in Nat /\ Len(t) = Len(Closed) + 1 /\ t[Len(Closed) + 1] = Extended
      /\ \A k \in 1 .. Len(Closed) : t[k] = Closed[k] /\ Closed[k] \in Block
  BY <1>4, <1>5
<1>7. /\ All \in Seq(Block) /\ Len(All) <= Len(t)
      /\ \A k \in 1 .. Len(All) :
            k \in 1 .. Len(t) /\ t[k].start = All[k].start /\ All[k].end <= t[k].end
      /\ \A k \in 1 .. Len(Closed) : k \in 1 .. Len(All) /\ Alike(All[k], Closed[k])
      /\ Opens => Extended.start = insn.addr
      /\ Extended.start <= insn.addr
  <2>1. CASE current = <<>>
    <3>1. Opens /\ All = blocks /\ Closed = blocks
      BY <2>1 DEF HasBlock, All, Closed
    <3>2. Extended.start = insn.addr
      BY <3>1 DEF Extended
    <3>3. \A k \in 1 .. Len(blocks) : blocks[k].start \in Nat /\ blocks[k].end \in Nat
      BY <1>1, BlockFacts
    <3> QED
      BY <1>1, <1>2, <1>6, <3>1, <3>2, <3>3 DEF Alike
  <2>2. CASE current # <<>>
    <3>1. PICK c \in Block : c = current[1]
      BY <1>1, <2>2
    <3>2. PICK l : l = Len(blocks)
      OBVIOUS
    <3>3. /\ All = Append(blocks, c) /\ All \in Seq(Block) /\ l \in Nat
          /\ Len(All) = l + 1 /\ All[l + 1] = c
          /\ \A k \in 1 .. l : All[k] = blocks[k]
      BY <1>1, <2>2, <3>1, <3>2 DEF All
    <3>4. /\ c.start \in Nat /\ c.end \in Nat /\ c.start < c.end /\ c.end <= insn.addr
      <4>1. Placed(c, l + 1)
        BY <1>1, <3>2, <3>3, FrontTiled
      <4>2. l + 1 \in 1 .. Len(All)
        BY <3>3
      <4> QED
        BY <1>3, <3>3, <4>1, <4>2, BlockFacts DEF Placed
    <3>5. \A k \in 1 .. l : blocks[k].start \in Nat /\ blocks[k].end \in Nat
      BY <1>1, <3>2, BlockFacts
    <3>6. CASE Opens
      <4>1. PICK d : d = [c EXCEPT !.term = Term("Jump", <<0>>)]
        OBVIOUS
      <4>2. d \in Block /\ Alike(c, d)
        BY <4>1, BlockFacts, TermFacts
      <4>3. Closed = Append(blocks, d)
        BY <2>2, <3>1, <3>6, <4>1 DEF Closed
      <4>4. Len(Closed) = l + 1 /\ Closed[l + 1] = d /\ \A k \in 1 .. l : Closed[k] = blocks[k]
        BY <1>1, <3>2, <4>2, <4>3
      <4>5. Extended.start = insn.addr
        BY <3>6 DEF Extended
      <4>6. \A k \in 1 .. l + 1 : Alike(All[k], Closed[k])
        BY <3>3, <4>2, <4>4 DEF Alike
      <4>7. \A k \in 1 .. l + 1 : k \in 1 .. Len(t) /\ t[k] = Closed[k] /\ All[k].end \in Nat
        <5>1. \A k \in 1 .. l + 1 : All[k] \in Block
          BY <3>3
        <5> QED
          BY <1>6, <3>3, <4>4, <5>1, BlockFacts
      <4>8. \A k \in 1 .. l + 1 : t[k].start = All[k].start /\ All[k].end <= t[k].end
        BY <4>6, <4>7 DEF Alike
      <4> QED
        BY <1>2, <1>6, <3>3, <4>4, <4>5, <4>6, <4>7, <4>8
    <3>7. CASE ~Opens
      <4>1. Closed = blocks /\ Extended = [c EXCEPT !.end = EndOf(insn)]
        BY <2>2, <3>1, <3>7 DEF Closed, Extended
      <4>2. Extended.start = c.start
        BY <3>1, <4>1 DEF Block
      <4>3. Len(t) = l + 1 /\ t[l + 1] = Extended /\ \A k \in 1 .. l : t[k] = blocks[k]
        BY <1>6, <3>2, <4>1
      <4>4. \A k \in 1 .. l + 1 : k \in 1 .. l \/ k = l + 1
        BY <3>3
      <4>5. \A k \in 1 .. l + 1 : t[k].start = All[k].start /\ All[k].end <= t[k].end
        BY <1>2, <1>4, <3>3, <3>4, <3>5, <4>2, <4>3, <4>4
      <4>6. \A k \in 1 .. Len(Closed) : k \in 1 .. Len(All) /\ Alike(All[k], Closed[k])
        BY <3>2, <3>3, <4>1 DEF Alike
      <4> QED
        BY <1>2, <3>3, <3>4, <3>7, <4>2, <4>3, <4>5, <4>6
    <3> QED
      BY <3>6, <3>7
  <2> QED
    BY <2>1, <2>2
<1> QED
  BY <1>5, <1>7

LEMMA WalkedGrows ==
    ASSUME CfgInv, HasBlock, Walked(All, at - 1)
    PROVE  Walked(Append(Closed, Extended), at) /\ Ends(Extended, at) /\ at \in 1 .. N
<1>1. PICK t : t = Append(Closed, Extended)
  OBVIOUS
<1>2. /\ All \in Seq(Block)
      /\ \A k \in 1 .. Len(All) :
            k \in 1 .. Len(t) /\ t[k].start = All[k].start /\ All[k].end <= t[k].end
      /\ \A k \in 1 .. Len(Closed) : k \in 1 .. Len(All) /\ Alike(All[k], Closed[k])
      /\ Opens => Extended.start = insn.addr
      /\ Extended.start <= insn.addr
  BY <1>1, GrowFacts
<1>3. /\ Closed \in Seq(Block) /\ Extended \in Block /\ Extended.end = EndOf(insn)
      /\ insn = In(at) /\ at \in 1 .. N /\ N \in Nat /\ WellFormed(prog)
  BY StepBlocks, InsnFacts DEF CfgInv, TypeOK, N
<1>4. \A i \in 1 .. N : In(i).addr \in Nat /\ In(i).addr < EndOf(In(i)) /\ EndOf(In(i)) \in Nat
  BY <1>3, InsnFacts DEF N
<1>5. /\ Len(Closed) \in Nat /\ Len(t) = Len(Closed) + 1 /\ t[Len(Closed) + 1] = Extended
      /\ t \in Seq(Block)
      /\ \A k \in 1 .. Len(Closed) : t[k] = Closed[k]
      /\ \A k \in 1 .. Len(t) : k \in 1 .. Len(Closed) \/ k = Len(t)
      /\ Len(t) \in 1 .. Len(t)
  BY <1>1, <1>3
<1>6. \A i \in 1 .. at - 1 : i \in 1 .. at /\ i \in 1 .. N
  BY <1>3
<1>7. \A i \in 1 .. at : i \in 1 .. at - 1 \/ i = at
  BY <1>3
<1>8. Ends(Extended, at)
  BY <1>2, <1>3, <1>4 DEF Ends, Within
<1>9. \A k \in 1 .. Len(t) : \E i \in 1 .. at : Ends(t[k], i)
  <2> TAKE k \in 1 .. Len(t)
  <2>1. CASE k \in 1 .. Len(Closed)
    <3>1. PICK i \in 1 .. at - 1 : Ends(All[k], i)
      BY <1>2, <2>1 DEF Walked
    <3>2. Ends(Closed[k], i)
      BY <1>2, <2>1, <3>1, AlikeEnds
    <3> QED
      BY <1>5, <1>6, <2>1, <3>2
  <2>2. CASE k = Len(t)
    <3>1. at \in 1 .. at
      BY <1>3
    <3> QED
      BY <1>5, <1>8, <2>2, <3>1
  <2> QED
    BY <1>5, <2>1, <2>2
<1>10. \A i \in 1 .. at : In(i).addr \in leaders => \E k \in 1 .. Len(t) : t[k].start = In(i).addr
  <2> TAKE i \in 1 .. at
  <2> HAVE In(i).addr \in leaders
  <2>1. CASE i \in 1 .. at - 1
    <3>1. PICK k \in 1 .. Len(All) : All[k].start = In(i).addr
      BY <2>1 DEF Walked
    <3> QED
      BY <1>2, <3>1
  <2>2. CASE i = at
    <3>1. Opens
      BY <1>3, <2>2 DEF Opens
    <3> QED
      BY <1>2, <1>3, <1>5, <2>2, <3>1
  <2> QED
    BY <1>7, <2>1, <2>2
<1>11. \A i \in 1 .. at : (\E k \in 1 .. Len(t) : Within(t[k], i)) \/ Lost(i)
  <2> TAKE i \in 1 .. at
  <2>1. CASE i \in 1 .. at - 1
    <3>1. CASE Lost(i)
      BY <3>1
    <3>2. CASE \E k \in 1 .. Len(All) : Within(All[k], i)
      <4>1. PICK k \in 1 .. Len(All) : Within(All[k], i)
        BY <3>2
      <4>2. All[k] \in Block /\ t[k] \in Block
        BY <1>2, <1>5
      <4>3. Within(t[k], i)
        BY <1>2, <1>4, <1>6, <2>1, <4>1, <4>2, BlockFacts DEF Within
      <4> QED
        BY <1>2, <4>3
    <3> QED
      BY <2>1, <3>1, <3>2 DEF Walked
  <2>2. CASE i = at
    BY <1>5, <1>8, <2>2 DEF Ends
  <2> QED
    BY <1>7, <2>1, <2>2
<1>12. Walked(t, at)
  BY <1>9, <1>10, <1>11 DEF Walked
<1> QED
  BY <1>1, <1>3, <1>8, <1>12

\* A leader closes the block before it, with its fall-through.
LEMMA ClosedPending ==
    ASSUME WalkInv, HasBlock
    PROVE  Pending(Closed, FallThroughs, branches)
<1>1. /\ WellFormed(prog) /\ pass = "blocks" /\ at \in 1 .. N /\ insn = In(at)
      /\ blocks \in Seq(Block) /\ current \in Seq(Block) /\ Tiled(All)
      /\ jumps \in Seq([from : Nat, to : Nat])
      /\ branches \in Seq([from : Nat, yes : Nat, no : Nat])
      /\ Pending(blocks, jumps, branches)
      /\ current # <<>> => Opened(current[1], at - 1)
  BY StepBlocks DEF WalkInv, CfgInv, TypeOK, HasBlock, InBlocks, N
<1>2. CASE ~(Opens /\ current # <<>>)
  BY <1>1, <1>2 DEF Closed, FallThroughs
<1>3. CASE Opens /\ current # <<>>
  <2>1. PICK c \in Block : c = current[1]
    BY <1>1, <1>3
  <2>2. PICK d : d = [c EXCEPT !.term = Term("Jump", <<0>>)]
    OBVIOUS
  <2>3. d \in Block /\ Alike(c, d)
    BY <2>2, BlockFacts, TermFacts
  <2>4. PICK j : j = [from |-> c.start, to |-> insn.addr]
    OBVIOUS
  <2>5. /\ All = Append(blocks, c) /\ Closed = Append(blocks, d)
        /\ FallThroughs = Append(jumps, j)
    BY <1>3, <2>1, <2>2, <2>4 DEF All, Closed, FallThroughs
  <2>6. PICK i : i = at - 1
    OBVIOUS
  <2>7. /\ i \in 1 .. N /\ Ends(c, i) /\ In(i).kind = "plain" /\ i < N /\ i + 1 = at
        /\ In(i + 1).addr = insn.addr /\ In(i + 1).addr \in leaders
    BY <1>1, <1>3, <2>1, <2>6, InsnFacts DEF Opened, Opens, N
  <2>8. insn.addr \in Flow(i) /\ insn.addr \in Nat
    BY <1>1, <2>7, InsnFacts DEF Flow, N
  <2>9. /\ j \in [from : {c.start}, to : Flow(i)] /\ j \in [from : Nat, to : Nat]
    BY <2>4, <2>8, BlockFacts
  <2>10. Added(jumps, Append(jumps, j), {x \in [from : {c.start}, to : Flow(i)] : In(i).kind # "jcc"})
    <3>1. j \in {x \in [from : {c.start}, to : Flow(i)] : In(i).kind # "jcc"}
      BY <2>7, <2>9
    <3> QED
      BY <3>1, Zenon DEF Added
  <2>11. Added(branches, branches, {[from |-> c.start, yes |-> In(i).target, no |-> EndOf(In(i))]})
    BY DEF Added
  <2>12. Closing(c, i, Append(jumps, j), branches)
    <3>1. /\ Len(jumps) + 1 \in 1 .. Len(Append(jumps, j))
          /\ Append(jumps, j)[Len(jumps) + 1] = j
      BY <1>1, <2>9
    <3> QED
      BY <2>4, <2>7, <3>1 DEF Closing
  <2>13. Pending(Append(blocks, c), Append(jumps, j), branches)
    BY <1>1, <2>5, <2>7, <2>10, <2>11, <2>12, PendingGrows
  <2>14. /\ Len(Append(blocks, c)) = Len(Append(blocks, d))
         /\ \A k \in 1 .. Len(Append(blocks, c)) :
                Alike(Append(blocks, c)[k], Append(blocks, d)[k])
    BY <1>1, <2>3 DEF Alike
  <2>15. Pending(Append(blocks, d), Append(jumps, j), branches)
    BY <2>13, <2>14, AlikePending
  <2> QED
    BY <2>5, <2>15
<1> QED
  BY <1>2, <1>3

\* What has been walked and what is pending depend on the function and its
\* leaders, which stay, and on the blocks.
LEMMA WalkedNext ==
    ASSUME UNCHANGED <<prog, leaders>>, Walked(All', at' - 1)
    PROVE  Walked(All, at - 1)'
<1>1. \A i : In(i)' = In(i)
  BY DEF In
<1>2. \A i : Lost(i)' <=> Lost(i)
  BY DEF Lost, In
<1>3. \A b, i : (Within(b, i)' <=> Within(b, i)) /\ (Ends(b, i)' <=> Ends(b, i))
  BY DEF Within, Ends, In
<1> QED
  BY <1>1, <1>2, <1>3 DEF Walked, Ends, Within, In

LEMMA WalkedAllNext ==
    ASSUME UNCHANGED <<prog, leaders>>, Walked(blocks', N)
    PROVE  Walked(blocks, N)'
<1>1. \A i : Lost(i)' <=> Lost(i)
  BY DEF Lost, In
<1> QED
  BY <1>1 DEF Walked, Ends, Within, In, N

LEMMA GapNext ==
    ASSUME UNCHANGED <<prog, leaders>>, Gap(at' - 1)
    PROVE  Gap(at - 1)'
BY DEF Gap, In

LEMMA OpenedNext ==
    ASSUME UNCHANGED <<prog, leaders>>, Opened(current'[1], at' - 1)
    PROVE  Opened(current[1], at - 1)'
BY DEF Opened, Ends, Within, In, N

LEMMA PendingNext ==
    ASSUME UNCHANGED <<prog, leaders>>, Pending(blocks', jumps', branches')
    PROVE  Pending(blocks, jumps, branches)'
<1>1. \A i : Flow(i)' = Flow(i)
  BY DEF Flow, In, N
<1>2. N' = N /\ (\A i : In(i)' = In(i)) /\ \A b, i : Ends(b, i)' <=> Ends(b, i)
  BY DEF N, In, Ends, Within
<1>4. PICK s, js, bs : s = blocks' /\ js = jumps' /\ bs = branches'
  OBVIOUS
<1>5. Pending(s, js, bs)
  BY <1>4, Zenon
<1>7. \A e \in 1 .. Len(js) : \E k \in 1 .. Len(s), i \in 1 .. N' :
            /\ Ends(s[k], i)' /\ In(i)'.kind # "jcc"
            /\ js[e].from = s[k].start /\ js[e].to \in Flow(i)'
  BY <1>1, <1>2, <1>5 DEF Pending
<1>8. \A e \in 1 .. Len(bs) : \E k \in 1 .. Len(s), i \in 1 .. N' :
            /\ Ends(s[k], i)' /\ In(i)'.kind = "jcc"
            /\ bs[e] = [from |-> s[k].start, yes |-> In(i)'.target, no |-> EndOf(In(i)')]
  BY <1>2, <1>5 DEF Pending
<1>9. /\ \A d, e \in 1 .. Len(js) : js[d].from = js[e].from => d = e
      /\ \A d, e \in 1 .. Len(bs) : bs[d].from = bs[e].from => d = e
  BY <1>5 DEF Pending
<1>10. (\A k \in 1 .. Len(blocks), i \in 1 .. N :
            Ends(blocks[k], i) => Closing(blocks[k], i, jumps, branches))'
  <2> SUFFICES ASSUME NEW k \in 1 .. Len(blocks'), NEW i \in 1 .. N', Ends(blocks[k], i)'
               PROVE  Closing(blocks[k], i, jumps, branches)'
    OBVIOUS
  <2>1. Ends(s[k], i)
    BY <1>4 DEF Ends, Within, In
  <2>2. Closing(s[k], i, js, bs)
    BY <1>2, <1>4, <1>5, <2>1 DEF Pending
  <2>3. (In(i).kind = "plain" /\ i < N =>
            /\ In(i + 1).addr \in leaders
            /\ \E e \in 1 .. Len(jumps) :
                jumps[e] = [from |-> blocks[k].start, to |-> In(i + 1).addr])'
    BY <1>4, <2>2 DEF Closing, In, N
  <2>4. (In(i).kind = "jmp" /\ In(i).target # 0 =>
            \E e \in 1 .. Len(jumps) :
                jumps[e] = [from |-> blocks[k].start, to |-> In(i).target])'
    BY <1>4, <2>2 DEF Closing, In
  <2>5. (In(i).kind = "jcc" =>
            \E e \in 1 .. Len(branches) :
                branches[e] = [from |-> blocks[k].start, yes |-> In(i).target,
                               no |-> EndOf(In(i))])'
    BY <1>4, <2>2 DEF Closing, In
  <2> QED
    BY <2>3, <2>4, <2>5 DEF Closing
<1>11. (\A e \in 1 .. Len(jumps) : \E k \in 1 .. Len(blocks), i \in 1 .. N :
            /\ Ends(blocks[k], i) /\ In(i).kind # "jcc"
            /\ jumps[e].from = blocks[k].start /\ jumps[e].to \in Flow(i))'
  BY <1>4, <1>7 DEF Ends, Within, In, N
<1>12. (\A e \in 1 .. Len(branches) : \E k \in 1 .. Len(blocks), i \in 1 .. N :
            /\ Ends(blocks[k], i) /\ In(i).kind = "jcc"
            /\ branches[e] = [from |-> blocks[k].start, yes |-> In(i).target, no |-> EndOf(In(i))])'
  BY <1>4, <1>8 DEF Ends, Within, In, N
<1> QED
  BY <1>4, <1>9, <1>10, <1>11, <1>12 DEF Pending

LEMMA LeadersNext ==
    ASSUME UNCHANGED <<prog, leaders>>, LeadersAre, pass # "leaders"
    PROVE  LeadersAre'
BY DEF LeadersAre, Entry, Followers, Landings

LEMMA InsnWalk ==
    ASSUME WalkInv, HasBlock, Step, CfgInv',
           \/ /\ current' = <<Extended>> /\ blocks' = Closed /\ insn.kind = "plain"
              /\ jumps' = FallThroughs /\ branches' = branches
           \/ /\ current' = <<>> /\ EndsBlock(insn)
              /\ \E t \in Terms : blocks' = Append(Closed, [Extended EXCEPT !.term = t])
              /\ Added(FallThroughs, jumps',
                    {j \in [from : {Extended.start}, to : Flow(at)] : In(at).kind # "jcc"})
              /\ Added(branches, branches',
                    {[from |-> Extended.start, yes |-> In(at).target, no |-> EndOf(In(at))]})
              /\ branches' # branches => In(at).kind = "jcc"
              /\ Closing(Extended, at, jumps', branches')
    PROVE  WalkInv'
<1>1. /\ Closed \in Seq(Block) /\ Extended \in Block
      /\ Tiled(Append(Closed, Extended))
      /\ insn = In(at) /\ at \in 1 .. N
      /\ CfgInv /\ WellFormed(prog) /\ N \in Nat
      /\ branches \in Seq([from : Nat, yes : Nat, no : Nat])
  BY StepBlocks, InsnFacts DEF WalkInv, CfgInv, TypeOK, N
<1>2. /\ pass = "blocks" /\ pass' = "blocks" /\ prog' = prog /\ leaders' = leaders
      /\ at' = at + 1 /\ at' - 1 = at /\ at' <= N + 1
  BY <1>1 DEF HasBlock, InBlocks, Step
<1>3. PICK b \in Block : /\ Alike(Extended, b)
                        /\ \/ current' = <<b>> /\ blocks' = Closed
                           \/ current' = <<>> /\ blocks' = Append(Closed, b)
  <2>1. CASE current' = <<Extended>> /\ blocks' = Closed
    BY <1>1, <2>1 DEF Alike
  <2>2. ASSUME current' = <<>>, NEW t \in Terms,
               blocks' = Append(Closed, [Extended EXCEPT !.term = t])
        PROVE  \E b \in Block : Alike(Extended, b) /\ current' = <<>> /\ blocks' = Append(Closed, b)
    BY <1>1, <2>2, BlockFacts
  <2> QED
    BY <2>1, <2>2
<1>4. All' = Append(Closed, b)
  <2>1. <<b>> # <<>> /\ <<b>>[1] = b
    OBVIOUS
  <2>2. CASE current' = <<b>> /\ blocks' = Closed
    BY <2>1, <2>2 DEF All
  <2>3. CASE current' = <<>> /\ blocks' = Append(Closed, b)
    BY <2>3 DEF All
  <2> QED
    BY <1>3, <2>2, <2>3
<1>5. /\ Len(Append(Closed, Extended)) = Len(Append(Closed, b))
      /\ \A k \in 1 .. Len(Append(Closed, Extended)) :
            Alike(Append(Closed, Extended)[k], Append(Closed, b)[k])
  BY <1>1, <1>3 DEF Alike
<1>6. Walked(Append(Closed, Extended), at) /\ Ends(Extended, at)
  BY <1>1, <1>2, WalkedGrows DEF WalkInv
<1>7. Walked(All, at - 1)'
  BY <1>2, <1>4, <1>5, <1>6, AlikeWalked, WalkedNext
<1>8. Pending(Closed, FallThroughs, branches) /\ FallThroughs \in Seq([from : Nat, to : Nat])
  BY <1>1, ClosedPending, PendingFacts
<1>9. Pending(blocks, jumps, branches)'
  <2>1. CASE blocks' = Closed /\ jumps' = FallThroughs /\ branches' = branches
    BY <1>2, <1>8, <2>1, PendingNext
  <2>2. ASSUME blocks' = Append(Closed, b),
               Added(FallThroughs, jumps',
                    {j \in [from : {Extended.start}, to : Flow(at)] : In(at).kind # "jcc"}),
               Added(branches, branches',
                    {[from |-> Extended.start, yes |-> In(at).target, no |-> EndOf(In(at))]}),
               branches' # branches => In(at).kind = "jcc",
               Closing(Extended, at, jumps', branches')
        PROVE  Pending(blocks, jumps, branches)'
    <3>1. PICK js, bs : js = jumps' /\ bs = branches'
      OBVIOUS
    <3>2. /\ Added(FallThroughs, js,
                    {j \in [from : {Extended.start}, to : Flow(at)] : In(at).kind # "jcc"})
          /\ Added(branches, bs,
                    {[from |-> Extended.start, yes |-> In(at).target, no |-> EndOf(In(at))]})
          /\ bs # branches => In(at).kind = "jcc"
          /\ Closing(Extended, at, js, bs)
      BY <2>2, <3>1, Zenon
    <3>3. Pending(Append(Closed, Extended), js, bs)
      BY <1>1, <1>6, <1>8, <3>2, PendingGrows
    <3>4. Pending(Append(Closed, b), js, bs)
      BY <1>5, <3>3, AlikePending
    <3> QED
      BY <1>2, <2>2, <3>1, <3>4, PendingNext
  <2> QED
    <3>1. current' = <<Extended>> => current' # <<>>
      OBVIOUS
    <3>2. current' = <<b>> => current' # <<>>
      OBVIOUS
    <3> QED
      BY <1>3, <2>1, <2>2, <3>1, <3>2
<1>10. (current = <<>>)' => Gap(at - 1)'
  <2> SUFFICES ASSUME current' = <<>> PROVE Gap(at - 1)'
    OBVIOUS
  <2>1. EndsBlock(In(at))
    <3>1. current' # <<Extended>>
      OBVIOUS
    <3> QED
      BY <1>1, <3>1
  <2>2. Gap(at)
    BY <1>1, <2>1 DEF Gap
  <2> QED
    BY <1>2, <2>2, GapNext
<1>11. (current # <<>>)' => Opened(current[1], at - 1)'
  <2> SUFFICES ASSUME current' # <<>> PROVE Opened(current[1], at - 1)'
    OBVIOUS
  <2>1. current' = <<Extended>> /\ insn.kind = "plain"
    OBVIOUS
  <2>2. Opened(Extended, at)
    BY <1>1, <1>6, <2>1 DEF Opened
  <2> QED
    BY <1>2, <2>1, <2>2, OpenedNext
<1>12. (prog.insns # <<>>)' /\ (at <= N + 1)'
  BY <1>2 DEF WalkInv, N
<1>13. LeadersAre'
  BY <1>2, LeadersNext DEF WalkInv
<1> QED
  BY <1>2, <1>7, <1>9, <1>10, <1>11, <1>12, <1>13 DEF WalkInv

LEMMA PlainWalk == WalkInv /\ CfgInv' /\ PlainInsn => WalkInv'
BY InsnWalk DEF PlainInsn

\* Nothing more is pending than the fall-through of the block before.
LEMMA ExitWalk == WalkInv /\ CfgInv' /\ ExitInsn => WalkInv'
<1> SUFFICES ASSUME WalkInv, CfgInv', ExitInsn PROVE WalkInv'
  OBVIOUS
<1>1. HasBlock /\ Step /\ insn = In(at)
  BY DEF ExitInsn, insn, In
<1>2. In(at).kind = "ret" \/ (In(at).kind = "jmp" /\ In(at).target = 0)
  BY <1>1 DEF ExitInsn
<1>3. /\ current' = <<>> /\ EndsBlock(insn) /\ jumps' = FallThroughs /\ branches' = branches
      /\ \E t \in Terms : blocks' = Append(Closed, [Extended EXCEPT !.term = t])
  BY <1>1, <1>2, TermFacts DEF ExitInsn, Close, EndsBlock
<1>4. Closing(Extended, at, jumps', branches')
  BY <1>2 DEF Closing
<1>5. /\ Added(FallThroughs, jumps',
              {j \in [from : {Extended.start}, to : Flow(at)] : In(at).kind # "jcc"})
      /\ Added(branches, branches',
              {[from |-> Extended.start, yes |-> In(at).target, no |-> EndOf(In(at))]})
  BY <1>3, Zenon DEF Added
<1> QED
  BY <1>1, <1>3, <1>4, <1>5, InsnWalk

LEMMA JumpWalk == WalkInv /\ CfgInv' /\ JumpInsn => WalkInv'
<1> SUFFICES ASSUME WalkInv, CfgInv', JumpInsn PROVE WalkInv'
  OBVIOUS
<1>1. HasBlock /\ Step /\ insn = In(at)
  BY DEF JumpInsn, insn, In
<1>2. In(at).kind = "jmp" /\ In(at).target # 0
  BY <1>1 DEF JumpInsn
<1>3. PICK j : j = [from |-> Extended.start, to |-> In(at).target]
  OBVIOUS
<1>4. /\ current' = <<>> /\ EndsBlock(insn) /\ jumps' = Append(FallThroughs, j)
      /\ branches' = branches
      /\ \E t \in Terms : blocks' = Append(Closed, [Extended EXCEPT !.term = t])
  <2>1. Term("Jump", <<0>>) \in Terms
    BY TermFacts
  <2> QED
    BY <1>1, <1>2, <1>3, <2>1 DEF JumpInsn, Close, EndsBlock
<1>5. /\ Extended.start \in Nat /\ In(at).target \in Nat
      /\ FallThroughs \in Seq([from : Nat, to : Nat])
  <2>1. Extended \in Block /\ at \in 1 .. Len(prog.insns) /\ WellFormed(prog) /\ CfgInv
    BY <1>1, StepBlocks DEF WalkInv, CfgInv, TypeOK
  <2> QED
    BY <1>1, <2>1, BlockFacts, InsnFacts, PendingFacts DEF Insn
<1>6. Closing(Extended, at, jumps', branches')
  <2>1. /\ Len(FallThroughs) + 1 \in 1 .. Len(Append(FallThroughs, j))
        /\ Append(FallThroughs, j)[Len(FallThroughs) + 1] = j
    BY <1>3, <1>5
  <2> QED
    BY <1>2, <1>3, <1>4, <2>1 DEF Closing
<1>7. j \in {x \in [from : {Extended.start}, to : Flow(at)] : In(at).kind # "jcc"}
  BY <1>2, <1>3 DEF Flow
<1>8. /\ Added(FallThroughs, jumps',
              {x \in [from : {Extended.start}, to : Flow(at)] : In(at).kind # "jcc"})
      /\ Added(branches, branches',
              {[from |-> Extended.start, yes |-> In(at).target, no |-> EndOf(In(at))]})
  BY <1>4, <1>7, Zenon DEF Added
<1> QED
  BY <1>1, <1>4, <1>6, <1>8, InsnWalk

LEMMA BranchWalk == WalkInv /\ CfgInv' /\ BranchInsn => WalkInv'
<1> SUFFICES ASSUME WalkInv, CfgInv', BranchInsn PROVE WalkInv'
  OBVIOUS
<1>1. HasBlock /\ Step /\ insn = In(at)
  BY DEF BranchInsn, insn, In
<1>2. In(at).kind = "jcc"
  BY <1>1 DEF BranchInsn
<1>3. PICK a : a = [from |-> Extended.start, yes |-> In(at).target, no |-> EndOf(In(at))]
  OBVIOUS
<1>4. /\ current' = <<>> /\ EndsBlock(insn) /\ jumps' = FallThroughs
      /\ branches' = Append(branches, a)
      /\ \E t \in Terms : blocks' = Append(Closed, [Extended EXCEPT !.term = t])
  <2>1. Term("Branch", <<0, 0>>) \in Terms
    BY TermFacts
  <2> QED
    BY <1>1, <1>2, <1>3, <2>1 DEF BranchInsn, Close, EndsBlock
<1>5. branches \in Seq([from : Nat, yes : Nat, no : Nat]) /\ a \in [from : Nat, yes : Nat, no : Nat]
  <2>1. Extended \in Block /\ at \in 1 .. Len(prog.insns) /\ WellFormed(prog)
    BY <1>1, StepBlocks DEF WalkInv, CfgInv, TypeOK
  <2>2. Extended.start \in Nat /\ In(at).target \in Nat /\ EndOf(In(at)) \in Nat
    BY <2>1, BlockFacts, InsnFacts DEF Insn
  <2> QED
    BY <1>3, <2>2 DEF WalkInv, CfgInv, TypeOK
<1>6. Closing(Extended, at, jumps', branches')
  <2>1. /\ Len(branches) + 1 \in 1 .. Len(Append(branches, a))
        /\ Append(branches, a)[Len(branches) + 1] = a
    BY <1>5
  <2> QED
    BY <1>2, <1>3, <1>4, <2>1 DEF Closing
<1>7. /\ Added(FallThroughs, jumps',
              {x \in [from : {Extended.start}, to : Flow(at)] : In(at).kind # "jcc"})
      /\ Added(branches, branches',
              {[from |-> Extended.start, yes |-> In(at).target, no |-> EndOf(In(at))]})
  <2>1. a \in {[from |-> Extended.start, yes |-> In(at).target, no |-> EndOf(In(at))]}
    BY <1>3
  <2> QED
    BY <1>4, <2>1, Zenon DEF Added
<1> QED
  BY <1>1, <1>2, <1>4, <1>6, <1>7, InsnWalk

\* What a block's end is followed by, if it is there, is a leader.
LEMMA FollowerLeads ==
    ASSUME WellFormed(prog), LeadersAre, pass # "leaders", NEW h \in 1 .. N, NEW j \in 1 .. N,
           EndsBlock(In(h)), In(j).addr = EndOf(In(h))
    PROVE  In(j).addr \in leaders
<1>1. In(j).addr < prog.end
  BY DEF WellFormed, In, N
<1>2. prog.insns # <<>>
  BY DEF N
<1>3. leaders = {Entry} \cup Followers \cup Landings
  BY <1>2 DEF LeadersAre
<1>4. EndOf(In(h)) \in Followers
  BY <1>1 DEF Followers, In, N
<1> QED
  BY <1>3, <1>4

LEMMA SkipWalk == WalkInv /\ CfgInv' /\ SkipInsn => WalkInv'
<1> SUFFICES ASSUME WalkInv, CfgInv', SkipInsn PROVE WalkInv'
  OBVIOUS
<1>1. /\ pass = "blocks" /\ pass' = "blocks" /\ at \in 1 .. N /\ at' = at + 1
      /\ insn = In(at) /\ In(at).addr \notin leaders /\ current = <<>> /\ N \in Nat
      /\ WellFormed(prog)
      /\ UNCHANGED <<prog, leaders, current, blocks, nextId, jumps, branches, edges>>
  BY InsnFacts DEF SkipInsn, InBlocks, Opens, WalkInv, CfgInv, TypeOK, N, insn, In
<1>2. at' - 1 = at /\ at' <= N + 1 /\ N' = N
  BY <1>1 DEF N
<1>3. Walked(All, at - 1) /\ Gap(at - 1) /\ LeadersAre /\ Pending(blocks, jumps, branches)
      /\ prog.insns # <<>>
  BY <1>1 DEF WalkInv
<1>4. at # 1
  <2>1. Entry \in leaders /\ (at = 1 => In(at).addr = Entry)
    BY <1>1, <1>3 DEF LeadersAre, Entry, In
  <2> QED
    BY <1>1, <2>1
<1>5. PICK h \in 1 .. at - 1 :
            /\ EndsBlock(In(h))
            /\ \A m \in h + 1 .. at - 1 : In(m).addr \notin leaders
            /\ h < at - 1 => In(h + 1).addr # EndOf(In(h))
  BY <1>1, <1>3, <1>4 DEF Gap
<1>6. \A m \in h + 1 .. at : In(m).addr \notin leaders
  <2>1. \A m \in h + 1 .. at : m \in h + 1 .. at - 1 \/ m = at
    BY <1>1
  <2> QED
    BY <1>1, <1>5, <2>1
<1>7. In(h + 1).addr # EndOf(In(h))
  <2>1. CASE h < at - 1
    BY <1>5, <2>1
  <2>2. CASE h = at - 1
    <3>1. h + 1 = at /\ h \in 1 .. N
      BY <1>1, <2>2
    <3> QED
      BY <1>1, <1>3, <1>5, <3>1, FollowerLeads
  <2> QED
    BY <1>1, <2>1, <2>2
<1>8. Lost(at)
  BY <1>5, <1>6, <1>7 DEF Lost
<1>9. Gap(at)
  <2>1. h \in 1 .. at
    BY <1>1
  <2> QED
    BY <1>5, <1>6, <1>7, <2>1 DEF Gap
<1>10. Walked(All, at)
  <2>1. \A i \in 1 .. at : i \in 1 .. at - 1 \/ i = at
    BY <1>1
  <2>2. \A i \in 1 .. at - 1 : i \in 1 .. at
    BY <1>1
  <2>3. \A k \in 1 .. Len(All) : \E i \in 1 .. at : Ends(All[k], i)
    BY <1>3, <2>2 DEF Walked
  <2>4. \A i \in 1 .. at : In(i).addr \in leaders =>
            \E k \in 1 .. Len(All) : All[k].start = In(i).addr
    BY <1>1, <1>3, <2>1 DEF Walked
  <2>5. \A i \in 1 .. at : (\E k \in 1 .. Len(All) : Within(All[k], i)) \/ Lost(i)
    BY <1>3, <1>8, <2>1 DEF Walked
  <2> QED
    BY <2>3, <2>4, <2>5 DEF Walked
<1>11. All' = All
  BY <1>1 DEF All
<1>12. Walked(All, at - 1)' /\ Gap(at - 1)' /\ Pending(blocks, jumps, branches)' /\ LeadersAre'
  BY <1>1, <1>2, <1>3, <1>9, <1>10, <1>11, WalkedNext, GapNext, PendingNext, LeadersNext
<1> QED
  BY <1>1, <1>2, <1>3, <1>12 DEF WalkInv

LEMMA NothingPending == Pending(<<>>, <<>>, <<>>) /\ Walked(<<>>, 0)
<1>1. Len(<<>>) = 0 /\ \A x : x \notin 1 .. 0
  OBVIOUS
<1> QED
  BY <1>1 DEF Pending, Walked

LEMMA WalkStart == Init => WalkInv
<1> SUFFICES ASSUME Init PROVE WalkInv
  OBVIOUS
<1>1. CfgInv
  BY InitCfg
<1>2. blocks = <<>> /\ jumps = <<>> /\ branches = <<>> /\ pass = "leaders"
  BY DEF Init
<1>3. Pending(blocks, jumps, branches)
  BY <1>2, NothingPending
<1> QED
  BY <1>1, <1>2, <1>3 DEF WalkInv, LeadersAre

LEMMA EmptyFunctionWalk == WalkInv /\ CfgInv' /\ EmptyFunction => WalkInv'
<1> SUFFICES ASSUME WalkInv, CfgInv', EmptyFunction PROVE WalkInv'
  OBVIOUS
<1>1. /\ pass = "leaders" /\ pass' = "done" /\ prog.insns = <<>>
      /\ UNCHANGED <<prog, at, leaders, current, blocks, nextId, jumps, branches, edges>>
      /\ blocks = <<>>
  BY DEF EmptyFunction, WalkInv, CfgInv, Unbegun
<1>2. N = 0
  BY <1>1 DEF N
<1>3. Walked(blocks', N)
  BY <1>1, <1>2, NothingPending
<1>4. Walked(blocks, N)' /\ Pending(blocks, jumps, branches)'
  BY <1>1, <1>3, WalkedAllNext, PendingNext DEF WalkInv
<1>5. LeadersAre'
  BY <1>1 DEF LeadersAre
<1> QED
  BY <1>1, <1>4, <1>5 DEF WalkInv

LEMMA FindLeadersWalk == WalkInv /\ CfgInv' /\ FindLeaders => WalkInv'
<1> SUFFICES ASSUME WalkInv, CfgInv', FindLeaders PROVE WalkInv'
  OBVIOUS
<1>1. /\ pass = "leaders" /\ pass' = "blocks" /\ at = 1 /\ at' = 1 /\ prog' = prog
      /\ blocks = <<>> /\ current = <<>> /\ jumps = <<>> /\ branches = <<>>
      /\ UNCHANGED <<current, blocks, nextId, jumps, branches, edges>>
      /\ prog.insns # <<>> /\ N \in Nat
      /\ leaders' = {Entry} \cup Followers \cup Landings
  BY InsnFacts DEF FindLeaders, WalkInv, CfgInv, Unbegun, TypeOK, N
<1>2. All' = <<>> /\ at' - 1 = 0
  BY <1>1 DEF All
<1>3. LeadersAre'
  BY <1>1 DEF LeadersAre, Entry, Followers, Landings
<1>4. Len(<<>>) = 0 /\ \A x : x \notin 1 .. 0
  OBVIOUS
<1>5. Walked(All, at - 1)'
  BY <1>2, <1>4 DEF Walked
<1>6. Gap(at - 1)'
  BY <1>2 DEF Gap
<1>7. Pending(blocks, jumps, branches)'
  BY <1>1, <1>4 DEF Pending
<1>8. (at <= N + 1)' /\ (prog.insns # <<>>)'
  BY <1>1 DEF N
<1> QED
  BY <1>1, <1>3, <1>5, <1>6, <1>7, <1>8 DEF WalkInv

LEMMA EndBlocksWalk == WalkInv /\ CfgInv' /\ EndBlocks => WalkInv'
<1> SUFFICES ASSUME WalkInv, CfgInv', EndBlocks PROVE WalkInv'
  OBVIOUS
<1>1. /\ pass = "blocks" /\ pass' = "jumps" /\ at' = 1 /\ current' = <<>> /\ at - 1 = N
      /\ UNCHANGED <<prog, leaders, nextId, jumps, branches, edges>>
      /\ blocks \in Seq(Block) /\ current \in Seq(Block) /\ Len(current) <= 1
      /\ Tiled(All) /\ WellFormed(prog) /\ N \in Nat
      /\ jumps \in Seq([from : Nat, to : Nat])
      /\ branches \in Seq([from : Nat, yes : Nat, no : Nat])
      /\ Walked(All, N) /\ Pending(blocks, jumps, branches)
      /\ current # <<>> => Opened(current[1], N)
  <2>1. pass = "blocks" /\ at > Len(prog.insns) /\ CfgInv
    BY DEF EndBlocks, WalkInv
  <2>2. N \in Nat /\ at \in Nat /\ at <= N + 1 /\ WellFormed(prog)
    BY <2>1, InsnFacts DEF WalkInv, CfgInv, TypeOK, N
  <2>3. at - 1 = N
    BY <2>1, <2>2 DEF N
  <2> QED
    BY <2>1, <2>2, <2>3 DEF EndBlocks, WalkInv, CfgInv, TypeOK
<1>2. /\ Len(blocks') = Len(All) /\ \A k \in 1 .. Len(All) : Alike(All[k], blocks'[k])
      /\ Pending(blocks', jumps, branches)
  <2>1. CASE current = <<>>
    <3>1. All = blocks /\ blocks' = blocks
      BY <2>1 DEF All, EndBlocks
    <3> QED
      BY <1>1, <3>1 DEF Alike
  <2>2. CASE current # <<>>
    <3>1. PICK c, d : /\ c = current[1] /\ d = [c EXCEPT !.term = Term("Return", <<>>)]
                      /\ All = Append(blocks, c) /\ blocks' = Append(blocks, d)
      BY <2>2 DEF All, EndBlocks
    <3>2. c \in Block
      BY <1>1, <2>2, <3>1
    <3>3. d \in Block /\ Alike(c, d)
      BY <3>1, <3>2, BlockFacts, TermFacts
    <3>4. Len(Append(blocks, c)) = Len(Append(blocks, d))
      BY <1>1, <3>2, <3>3
    <3>5. \A k \in 1 .. Len(Append(blocks, c)) :
            Alike(Append(blocks, c)[k], Append(blocks, d)[k])
      BY <1>1, <3>2, <3>3 DEF Alike
    <3>6. N \in 1 .. N /\ Ends(c, N) /\ In(N).kind = "plain"
      BY <1>1, <2>2, <3>1 DEF Opened
    <3>7. Closing(c, N, jumps, branches)
      BY <1>1, <3>6 DEF Closing
    <3>8. /\ Added(jumps, jumps, {x \in [from : {c.start}, to : Flow(N)] : In(N).kind # "jcc"})
          /\ Added(branches, branches,
                   {[from |-> c.start, yes |-> In(N).target, no |-> EndOf(In(N))]})
      BY Zenon DEF Added
    <3>9. Pending(Append(blocks, c), jumps, branches)
      BY <1>1, <3>1, <3>2, <3>6, <3>7, <3>8, PendingGrows
    <3>10. Pending(Append(blocks, d), jumps, branches)
      BY <3>4, <3>5, <3>9, AlikePending
    <3> QED
      BY <3>1, <3>4, <3>5, <3>10
  <2> QED
    BY <2>1, <2>2
<1>3. Walked(blocks', N)
  BY <1>1, <1>2, AlikeWalked
<1>4. Walked(blocks, N)'
  BY <1>1, <1>3, WalkedAllNext
<1>5. Pending(blocks, jumps, branches)'
  BY <1>1, <1>2, PendingNext
<1>6. LeadersAre'
  BY <1>1, LeadersNext DEF WalkInv
<1> QED
  BY <1>1, <1>4, <1>5, <1>6 DEF WalkInv

\* The wiring changes terminators only.
LEMMA WiringWalk ==
    ASSUME WalkInv, CfgInv', pass \in {"jumps", "branches", "done"},
           pass' \in {"jumps", "branches", "done"},
           UNCHANGED <<prog, leaders, jumps, branches>>,
           Len(blocks') = Len(blocks), \A k \in 1 .. Len(blocks) : Alike(blocks[k], blocks'[k])
    PROVE  WalkInv'
<1>1. Walked(blocks', N) /\ Pending(blocks', jumps, branches)
  BY AlikeWalked, AlikePending DEF WalkInv
<1>2. Walked(blocks, N)' /\ Pending(blocks, jumps, branches)'
  BY <1>1, WalkedAllNext, PendingNext
<1>3. LeadersAre'
  BY LeadersNext DEF WalkInv
<1> QED
  BY <1>2, <1>3 DEF WalkInv

LEMMA PatchAlike ==
    ASSUME CfgInv,
           \/ blocks' = blocks
           \/ \E a \in Starts, t \in Terms : blocks' = Patch(a, t)
    PROVE  Len(blocks') = Len(blocks) /\ \A k \in 1 .. Len(blocks) : Alike(blocks[k], blocks'[k])
<1>1. blocks \in Seq(Block)
  BY DEF CfgInv, TypeOK
<1>2. CASE blocks' = blocks
  BY <1>2 DEF Alike
<1>3. CASE \E a \in Starts, t \in Terms : blocks' = Patch(a, t)
  BY <1>1, <1>3, PatchFacts
<1> QED
  BY <1>2, <1>3

LEMMA TwoNew ==
    ASSUME NEW l \in Nat, NEW l1 \in Nat, l <= l1, l1 <= l + 2,
           NEW d \in 1 .. l1, NEW e \in 1 .. l1, d < e
    PROVE  /\ e \in 1 .. l => d \in 1 .. l
           /\ d \notin 1 .. l => e = d + 1 /\ l1 = l + 2 /\ d \in l + 1 .. l1
OBVIOUS

\* One step of the wiring: the entries from q and r on are wired up to q1
\* and r1, by edges that leave a block no edge has left.
Wiring(q, r, q1, r1) ==
    /\ q \in Nat /\ q1 \in Nat /\ q <= q1 /\ r \in Nat /\ r1 \in Nat /\ r <= r1
    /\ UNCHANGED <<prog, leaders, jumps, branches>>
    /\ Len(blocks') = Len(blocks) /\ \A k \in 1 .. Len(blocks) : Alike(blocks[k], blocks'[k])
    /\ edges' \in Seq([from : Nat, to : Nat])
    /\ Len(edges) <= Len(edges') /\ Len(edges') <= Len(edges) + 2
    /\ \A e \in 1 .. Len(edges) : edges'[e] = edges[e]
    /\ \A e \in Len(edges) + 1 .. Len(edges') :
        /\ edges'[e].from \in 1 .. Len(blocks) /\ edges'[e].to \in 1 .. Len(blocks)
        /\ \E i \in 1 .. N : /\ Ends(blocks[edges'[e].from], i)
                             /\ blocks[edges'[e].to].start \in Flow(i)
        /\ \/ \E d \in 1 .. q1 : jumps[d].from = blocks[edges'[e].from].start
           \/ \E d \in 1 .. r1 : branches[d].from = blocks[edges'[e].from].start
        /\ \A d \in 1 .. Len(edges) : edges[d].from # edges'[e].from
        /\ Len(edges') = Len(edges) + 2 => blocks'[edges'[e].from].term.kind = "Branch"
    /\ \A e \in 1 .. Len(edges) : blocks'[edges[e].from].term = blocks[edges[e].from].term
    /\ \A d \in q + 1 .. q1, k, m \in 1 .. Len(blocks) :
        jumps[d].from = blocks[k].start /\ jumps[d].to = blocks[m].start => HasEdge(k, m)'
    /\ \A d \in r + 1 .. r1, k, m, n \in 1 .. Len(blocks) :
        /\ branches[d].from = blocks[k].start
        /\ branches[d].yes = blocks[m].start /\ branches[d].no = blocks[n].start
        => HasEdge(k, m)' /\ HasEdge(k, n)'

LEMMA WiredGrows ==
    ASSUME CfgInv, NEW q, NEW r, Wired(q, r), NEW q1, NEW r1, Wiring(q, r, q1, r1)
    PROVE  Wired(q1, r1)'
<1> USE DEF Wiring
<1>1. Len(edges) \in Nat /\ Len(edges') \in Nat
  BY DEF CfgInv, TypeOK
<1>2. /\ \A e \in 1 .. Len(edges') : e \in 1 .. Len(edges) \/ e \in Len(edges) + 1 .. Len(edges')
      /\ \A e \in 1 .. Len(edges) : e \in 1 .. Len(edges')
      /\ \A d \in 1 .. q1 : d \in 1 .. q \/ d \in q + 1 .. q1
      /\ \A d \in 1 .. r1 : d \in 1 .. r \/ d \in r + 1 .. r1
      /\ \A d \in 1 .. q : d \in 1 .. q1
      /\ \A d \in 1 .. r : d \in 1 .. r1
  BY <1>1
<1>3. /\ N' = N /\ \A i : Flow(i)' = Flow(i)
      /\ \A b, i : Ends(b, i)' <=> Ends(b, i)
  BY DEF Ends, Within, In, N, Flow
<1>4. \A k \in 1 .. Len(blocks) :
        /\ blocks'[k].start = blocks[k].start
        /\ \A i : Ends(blocks'[k], i) <=> Ends(blocks[k], i)
  BY AlikeEnds DEF Alike
<1>5. \A e \in 1 .. Len(edges') :
        /\ edges'[e].from \in 1 .. Len(blocks) /\ edges'[e].to \in 1 .. Len(blocks)
        /\ \E i \in 1 .. N : /\ Ends(blocks[edges'[e].from], i)
                             /\ blocks[edges'[e].to].start \in Flow(i)
        /\ \/ \E d \in 1 .. q1 : jumps[d].from = blocks[edges'[e].from].start
           \/ \E d \in 1 .. r1 : branches[d].from = blocks[edges'[e].from].start
  <2> TAKE e \in 1 .. Len(edges')
  <2>1. CASE e \in 1 .. Len(edges)
    <3>1. /\ edges'[e] = edges[e]
          /\ edges[e].from \in 1 .. Len(blocks) /\ edges[e].to \in 1 .. Len(blocks)
          /\ \E i \in 1 .. N : /\ Ends(blocks[edges[e].from], i)
                               /\ blocks[edges[e].to].start \in Flow(i)
          /\ \/ \E d \in 1 .. q : jumps[d].from = blocks[edges[e].from].start
             \/ \E d \in 1 .. r : branches[d].from = blocks[edges[e].from].start
      BY <2>1 DEF Wired
    <3> QED
      BY <1>2, <3>1
  <2>2. CASE e \in Len(edges) + 1 .. Len(edges')
    BY <2>2
  <2> QED
    BY <1>2, <2>1, <2>2
<1>6. (\A e \in 1 .. Len(edges) :
        /\ edges[e].from \in 1 .. Len(blocks) /\ edges[e].to \in 1 .. Len(blocks)
        /\ \E i \in 1 .. N : /\ Ends(blocks[edges[e].from], i)
                             /\ blocks[edges[e].to].start \in Flow(i)
        /\ \/ \E d \in 1 .. q1 : jumps[d].from = blocks[edges[e].from].start
           \/ \E d \in 1 .. r1 : branches[d].from = blocks[edges[e].from].start)'
  <2> SUFFICES ASSUME NEW e \in 1 .. Len(edges')
               PROVE  /\ edges'[e].from \in 1 .. Len(blocks') /\ edges'[e].to \in 1 .. Len(blocks')
                      /\ \E i \in 1 .. N' : /\ Ends(blocks[edges[e].from], i)'
                                            /\ blocks'[edges'[e].to].start \in Flow(i)'
                      /\ \/ \E d \in 1 .. q1 : jumps'[d].from = blocks'[edges'[e].from].start
                         \/ \E d \in 1 .. r1 : branches'[d].from = blocks'[edges'[e].from].start
    OBVIOUS
  <2>1. PICK k, m : k = edges'[e].from /\ m = edges'[e].to
    OBVIOUS
  <2>2. k \in 1 .. Len(blocks) /\ m \in 1 .. Len(blocks)
    BY <1>5, <2>1
  <2>3. PICK i \in 1 .. N : Ends(blocks[k], i) /\ blocks[m].start \in Flow(i)
    BY <1>5, <2>1
  <2>4. Ends(blocks[edges[e].from], i)'
    <3>1. Ends(blocks'[k], i)
      BY <1>4, <2>2, <2>3
    <3> QED
      BY <2>1, <3>1 DEF Ends, Within, In
  <2>5. blocks'[edges'[e].to].start \in Flow(i)' /\ i \in 1 .. N'
    BY <1>3, <1>4, <2>1, <2>2, <2>3
  <2>6. \/ \E d \in 1 .. q1 : jumps'[d].from = blocks'[edges'[e].from].start
        \/ \E d \in 1 .. r1 : branches'[d].from = blocks'[edges'[e].from].start
    <3>1. blocks'[edges'[e].from].start = blocks[edges'[e].from].start
      BY <1>4, <2>1, <2>2
    <3>2. jumps' = jumps /\ branches' = branches
      OBVIOUS
    <3> QED
      BY <1>5, <3>1, <3>2, Zenon
  <2> QED
    BY <2>1, <2>2, <2>4, <2>5, <2>6
<1>7. (\A d, e \in 1 .. Len(edges) :
        d < e /\ edges[d].from = edges[e].from
            => e = d + 1 /\ blocks[edges[d].from].term.kind = "Branch")'
  <2> SUFFICES ASSUME NEW d \in 1 .. Len(edges'), NEW e \in 1 .. Len(edges'), d < e,
                      edges'[d].from = edges'[e].from
               PROVE  e = d + 1 /\ blocks'[edges'[d].from].term.kind = "Branch"
    OBVIOUS
  <2>1. CASE e \in 1 .. Len(edges)
    <3>1. d \in 1 .. Len(edges) /\ edges'[d] = edges[d] /\ edges'[e] = edges[e]
      <4>1. d \in 1 .. Len(edges)
        BY <1>1, <2>1, TwoNew
      <4> QED
        BY <2>1, <4>1, Zenon
    <3>2. e = d + 1 /\ blocks[edges[d].from].term.kind = "Branch"
      BY <2>1, <3>1 DEF Wired
    <3> QED
      BY <3>1, <3>2
  <2>2. CASE e \in Len(edges) + 1 .. Len(edges')
    <3>1. d \notin 1 .. Len(edges)
      BY <2>2, Zenon
    <3>2. /\ e = d + 1 /\ Len(edges') = Len(edges) + 2
          /\ d \in Len(edges) + 1 .. Len(edges')
      BY <1>1, <3>1, TwoNew
    <3> QED
      BY <3>2, Zenon
  <2> QED
    BY <1>2, <2>1, <2>2
<1>8. \A k, m : HasEdge(k, m) => HasEdge(k, m)'
  BY <1>2 DEF HasEdge
<1>9. (\A d \in 1 .. q1, k, m \in 1 .. Len(blocks) :
        jumps[d].from = blocks[k].start /\ jumps[d].to = blocks[m].start => HasEdge(k, m))'
  <2> SUFFICES ASSUME NEW d \in 1 .. q1, NEW k \in 1 .. Len(blocks'), NEW m \in 1 .. Len(blocks'),
                      jumps'[d].from = blocks'[k].start, jumps'[d].to = blocks'[m].start
               PROVE  HasEdge(k, m)'
    OBVIOUS
  <2>1. jumps[d].from = blocks[k].start /\ jumps[d].to = blocks[m].start
    BY <1>4
  <2>2. CASE d \in 1 .. q
    BY <1>8, <2>1, <2>2 DEF Wired
  <2>3. CASE d \in q + 1 .. q1
    BY <2>1, <2>3
  <2> QED
    BY <1>2, <2>2, <2>3
<1>10. (\A d \in 1 .. r1, k, m, n \in 1 .. Len(blocks) :
        /\ branches[d].from = blocks[k].start
        /\ branches[d].yes = blocks[m].start /\ branches[d].no = blocks[n].start
        => HasEdge(k, m) /\ HasEdge(k, n))'
  <2> SUFFICES ASSUME NEW d \in 1 .. r1, NEW k \in 1 .. Len(blocks'), NEW m \in 1 .. Len(blocks'),
                      NEW n \in 1 .. Len(blocks'),
                      branches'[d].from = blocks'[k].start, branches'[d].yes = blocks'[m].start,
                      branches'[d].no = blocks'[n].start
               PROVE  HasEdge(k, m)' /\ HasEdge(k, n)'
    OBVIOUS
  <2>1. /\ branches[d].from = blocks[k].start /\ branches[d].yes = blocks[m].start
        /\ branches[d].no = blocks[n].start
    BY <1>4
  <2>2. CASE d \in 1 .. r
    BY <1>8, <2>1, <2>2 DEF Wired
  <2>3. CASE d \in r + 1 .. r1
    BY <2>1, <2>3
  <2> QED
    BY <1>2, <2>2, <2>3
<1> QED
  BY <1>6, <1>7, <1>9, <1>10 DEF Wired

LEMMA PatchAt ==
    ASSUME blocks \in Seq(Block), Tiled(blocks), NEW k \in 1 .. Len(blocks), NEW t \in Terms,
           NEW a, a = blocks[k].start
    PROVE  /\ a \in Starts /\ NodeAt(a) = k
           /\ Patch(a, t)[k].term = t
           /\ \A j \in 1 .. Len(blocks) : j # k => Patch(a, t)[j] = blocks[j]
<1>1. a \in Starts
  BY DEF Starts
<1>2. NodeAt(a) = k
  <2>1. \E j \in 1 .. Len(blocks) : blocks[j].start = a
    OBVIOUS
  <2>2. NodeAt(a) \in 1 .. Len(blocks) /\ blocks[NodeAt(a)].start = a
    BY <2>1, Zenon DEF NodeAt
  <2> QED
    BY <2>2, StartsDiffer
<1>3. PICK d : d = [blocks[k] EXCEPT !.term = t]
  OBVIOUS
<1>4. Patch(a, t) = [blocks EXCEPT ![k] = d]
  BY <1>2, <1>3 DEF Patch
<1>5. blocks[k] \in Block
  OBVIOUS
<1>6. d.term = t
  BY <1>3, <1>5 DEF Block
<1> QED
  BY <1>1, <1>2, <1>4, <1>6

LEMMA WireJumpCases ==
    ASSUME WalkInv, WireJump
    PROVE  /\ pass = "jumps" /\ pass' = "jumps" /\ at \in 1 .. Len(jumps) /\ at' = at + 1
           /\ Len(jumps) \in Nat
           /\ UNCHANGED <<prog, leaders, current, nextId, jumps, branches>>
           /\ \/ /\ blocks' = blocks /\ edges' = edges
                 /\ ~({jumps[at].from, jumps[at].to} \subseteq Starts)
              \/ \E k, m \in 1 .. Len(blocks), t \in Terms :
                    /\ jumps[at].from = blocks[k].start /\ jumps[at].to = blocks[m].start
                    /\ blocks' = Patch(jumps[at].from, t)
                    /\ edges' = Append(edges, [from |-> k, to |-> m])
<1>1. /\ pass = "jumps" /\ pass' = "jumps" /\ at \in Nat \ {0} /\ at <= Len(jumps) /\ at' = at + 1
      /\ jumps \in Seq([from : Nat, to : Nat]) /\ blocks \in Seq(Block)
      /\ UNCHANGED <<prog, leaders, current, nextId, jumps, branches>>
  BY DEF WireJump, WalkInv, CfgInv, TypeOK
<1>2. PICK j : j = jumps[at]
  OBVIOUS
<1>3. CASE {j.from, j.to} \subseteq Starts
  <2>1. PICK k, m : k = NodeAt(j.from) /\ m = NodeAt(j.to)
    OBVIOUS
  <2>2. /\ k \in 1 .. Len(blocks) /\ blocks[k].start = j.from
        /\ m \in 1 .. Len(blocks) /\ blocks[m].start = j.to
    <3>1. (\E i \in 1 .. Len(blocks) : blocks[i].start = j.from)
          /\ \E i \in 1 .. Len(blocks) : blocks[i].start = j.to
      BY <1>3 DEF Starts
    <3> QED
      BY <2>1, <3>1, Zenon DEF NodeAt
  <2>3. Term("Jump", <<IdAt(j.to)>>) \in Terms
    BY <1>1, <1>3, PatchFacts, TermFacts
  <2>4. /\ blocks' = Patch(j.from, Term("Jump", <<IdAt(j.to)>>))
        /\ edges' = Append(edges, [from |-> k, to |-> m])
    BY <1>2, <1>3, <2>1, Zenon DEF WireJump
  <2>5. \E k1, m1 \in 1 .. Len(blocks), t \in Terms :
                    /\ j.from = blocks[k1].start /\ j.to = blocks[m1].start
                    /\ blocks' = Patch(j.from, t)
                    /\ edges' = Append(edges, [from |-> k1, to |-> m1])
    BY <2>2, <2>3, <2>4
  <2> QED
    BY <1>1, <1>2, <2>5
<1>4. CASE ~({j.from, j.to} \subseteq Starts)
  <2>1. blocks' = blocks /\ edges' = edges
    BY <1>2, <1>4 DEF WireJump
  <2> QED
    BY <1>1, <1>2, <1>4, <2>1
<1> QED
  BY <1>3, <1>4

LEMMA WireBranchCases ==
    ASSUME WalkInv, WireBranch
    PROVE  /\ pass = "branches" /\ pass' = "branches"
           /\ at \in 1 .. Len(branches) /\ at' = at + 1 /\ Len(branches) \in Nat
           /\ UNCHANGED <<prog, leaders, current, nextId, jumps, branches>>
           /\ \/ /\ blocks' = blocks /\ edges' = edges
                 /\ ~({branches[at].from, branches[at].yes, branches[at].no} \subseteq Starts)
              \/ \E k, m, n \in 1 .. Len(blocks), t \in Terms :
                    /\ branches[at].from = blocks[k].start
                    /\ branches[at].yes = blocks[m].start /\ branches[at].no = blocks[n].start
                    /\ t.kind = "Branch"
                    /\ blocks' = Patch(branches[at].from, t)
                    /\ edges' = edges \o <<[from |-> k, to |-> m], [from |-> k, to |-> n]>>
<1>1. /\ pass = "branches" /\ pass' = "branches"
      /\ at \in Nat \ {0} /\ at <= Len(branches) /\ at' = at + 1
      /\ branches \in Seq([from : Nat, yes : Nat, no : Nat]) /\ blocks \in Seq(Block)
      /\ UNCHANGED <<prog, leaders, current, nextId, jumps, branches>>
  BY DEF WireBranch, WalkInv, CfgInv, TypeOK
<1>2. PICK b : b = branches[at]
  OBVIOUS
<1>3. CASE {b.from, b.yes, b.no} \subseteq Starts
  <2>1. PICK k, m, n : k = NodeAt(b.from) /\ m = NodeAt(b.yes) /\ n = NodeAt(b.no)
    OBVIOUS
  <2>2. /\ k \in 1 .. Len(blocks) /\ blocks[k].start = b.from
        /\ m \in 1 .. Len(blocks) /\ blocks[m].start = b.yes
        /\ n \in 1 .. Len(blocks) /\ blocks[n].start = b.no
    <3>1. /\ \E i \in 1 .. Len(blocks) : blocks[i].start = b.from
          /\ \E i \in 1 .. Len(blocks) : blocks[i].start = b.yes
          /\ \E i \in 1 .. Len(blocks) : blocks[i].start = b.no
      BY <1>3 DEF Starts
    <3> QED
      BY <2>1, <3>1, Zenon DEF NodeAt
  <2>3. PICK t : t = Term("Branch", <<IdAt(b.yes), IdAt(b.no)>>)
    OBVIOUS
  <2>4. t \in Terms /\ t.kind = "Branch"
    <3>1. IdAt(b.yes) \in Nat /\ IdAt(b.no) \in Nat
      BY <1>1, <1>3, PatchFacts, TermFacts
    <3> QED
      BY <2>3, <3>1, TermFacts DEF Term
  <2>5. /\ blocks' = Patch(b.from, t)
        /\ edges' = edges \o <<[from |-> k, to |-> m], [from |-> k, to |-> n]>>
    BY <1>2, <1>3, <2>1, <2>3, Zenon DEF WireBranch
  <2>6. \E k1, m1, n1 \in 1 .. Len(blocks), t1 \in Terms :
            /\ b.from = blocks[k1].start /\ b.yes = blocks[m1].start /\ b.no = blocks[n1].start
            /\ t1.kind = "Branch"
            /\ blocks' = Patch(b.from, t1)
            /\ edges' = edges \o <<[from |-> k1, to |-> m1], [from |-> k1, to |-> n1]>>
    BY <2>2, <2>4, <2>5
  <2>7. \E k1, m1, n1 \in 1 .. Len(blocks), t1 \in Terms :
            /\ branches[at].from = blocks[k1].start
            /\ branches[at].yes = blocks[m1].start /\ branches[at].no = blocks[n1].start
            /\ t1.kind = "Branch"
            /\ blocks' = Patch(branches[at].from, t1)
            /\ edges' = edges \o <<[from |-> k1, to |-> m1], [from |-> k1, to |-> n1]>>
    BY <1>2, <2>6, Zenon
  <2>8. at \in 1 .. Len(branches) /\ Len(branches) \in Nat
    BY <1>1
  <2> QED
    BY <1>1, <2>7, <2>8, Zenon
<1>4. CASE ~({b.from, b.yes, b.no} \subseteq Starts)
  <2>1. blocks' = blocks /\ edges' = edges
    BY <1>2, <1>4 DEF WireBranch
  <2> QED
    BY <1>1, <1>2, <1>4, <2>1
<1> QED
  BY <1>3, <1>4

\* No edge added yet leaves the block of an entry that is still pending.
LEMMA JumpIsFresh ==
    ASSUME WalkInv, NEW q \in Nat, q < Len(jumps), Wired(q, 0),
           NEW k \in 1 .. Len(blocks), jumps[q + 1].from = blocks[k].start
    PROVE  \A e \in 1 .. Len(edges) : edges[e].from # k
<1> SUFFICES ASSUME NEW e \in 1 .. Len(edges), edges[e].from = k PROVE FALSE
  OBVIOUS
<1>1. jumps \in Seq([from : Nat, to : Nat]) /\ Len(jumps) \in Nat
  BY DEF WalkInv, CfgInv, TypeOK
<1>2. \A d : d \notin 1 .. 0
  OBVIOUS
<1>3. PICK d \in 1 .. q : jumps[d].from = blocks[k].start
  BY <1>2 DEF Wired
<1>4. d \in 1 .. Len(jumps) /\ q + 1 \in 1 .. Len(jumps) /\ d # q + 1
  BY <1>1
<1> QED
  BY <1>3, <1>4 DEF WalkInv, Pending

LEMMA BlocksAlone ==
    ASSUME WalkInv, pass \in {"jumps", "branches", "done"}
    PROVE  blocks \in Seq(Block) /\ Tiled(blocks) /\ WellFormed(prog) /\ N \in Nat
<1>1. current = <<>> /\ CfgInv
  BY DEF WalkInv, CfgInv, Ended
<1>2. All = blocks
  BY <1>1 DEF All
<1> QED
  BY <1>1, <1>2, InsnFacts DEF CfgInv, TypeOK, N

LEMMA BranchIsFresh ==
    ASSUME WalkInv, pass \in {"jumps", "branches", "done"},
           NEW r \in Nat, r < Len(branches), Wired(Len(jumps), r),
           NEW k \in 1 .. Len(blocks), branches[r + 1].from = blocks[k].start
    PROVE  \A e \in 1 .. Len(edges) : edges[e].from # k
<1> SUFFICES ASSUME NEW e \in 1 .. Len(edges), edges[e].from = k PROVE FALSE
  OBVIOUS
<1>1. /\ branches \in Seq([from : Nat, yes : Nat, no : Nat]) /\ Len(branches) \in Nat
      /\ Pending(blocks, jumps, branches)
  BY DEF WalkInv, CfgInv, TypeOK
<1>2. blocks \in Seq(Block) /\ Tiled(blocks) /\ WellFormed(prog)
  BY BlocksAlone
<1>3. r + 1 \in 1 .. Len(branches)
  BY <1>1
<1>4. CASE \E d \in 1 .. r : branches[d].from = blocks[k].start
  <2>1. PICK d \in 1 .. r : branches[d].from = blocks[k].start
    BY <1>4
  <2>2. d \in 1 .. Len(branches) /\ d # r + 1
    BY <1>1
  <2> QED
    BY <1>1, <1>3, <2>1, <2>2 DEF Pending
<1>5. CASE \E d \in 1 .. Len(jumps) : jumps[d].from = blocks[k].start
  <2>1. PICK d \in 1 .. Len(jumps) : jumps[d].from = blocks[k].start
    BY <1>5
  <2>2. PICK k1 \in 1 .. Len(blocks), i1 \in 1 .. N :
            Ends(blocks[k1], i1) /\ In(i1).kind # "jcc" /\ jumps[d].from = blocks[k1].start
    BY <1>1 DEF Pending
  <2>3. PICK k2 \in 1 .. Len(blocks), i2 \in 1 .. N :
            /\ Ends(blocks[k2], i2) /\ In(i2).kind = "jcc"
            /\ branches[r + 1] = [from |-> blocks[k2].start, yes |-> In(i2).target,
                                  no |-> EndOf(In(i2))]
    BY <1>1, <1>3 DEF Pending
  <2>4. branches[r + 1].from = blocks[k2].start
    BY <2>3
  <2>5. k1 = k /\ k2 = k
    BY <1>2, <2>1, <2>2, <2>4, StartsDiffer
  <2>6. i1 = i2
    BY <1>2, <2>2, <2>3, <2>5, EndsOnce
  <2> QED
    BY <2>2, <2>3, <2>6
<1> QED
  BY <1>4, <1>5 DEF Wired

LEMMA WireJumpWires ==
    ASSUME WalkInv, CfgInv', WireJump, Wired(at - 1, 0)
    PROVE  \A q1 \in {at} : Wired(q1, 0)'
<1> SUFFICES ASSUME NEW q1, q1 = at PROVE Wired(q1, 0)'
  OBVIOUS
<1>1. /\ pass = "jumps" /\ at \in 1 .. Len(jumps) /\ Len(jumps) \in Nat
      /\ UNCHANGED <<prog, leaders, jumps, branches>>
  BY WireJumpCases
<1>2. /\ blocks \in Seq(Block) /\ Tiled(blocks) /\ CfgInv /\ edges \in Seq([from : Nat, to : Nat])
      /\ Pending(blocks, jumps, branches) /\ Len(blocks) \in Nat
  BY <1>1, BlocksAlone DEF WalkInv, CfgInv, TypeOK
<1>3. PICK q : q = at - 1
  OBVIOUS
<1>4. q \in Nat /\ q1 \in Nat /\ q <= q1 /\ q + 1 = q1 /\ q < Len(jumps) /\ Wired(q, 0)
      /\ \A d : d \in q + 1 .. q1 <=> d = at
  BY <1>1, <1>3
<1>5. \A d : d \notin 0 + 1 .. 0
  OBVIOUS
<1>6. CASE blocks' = blocks /\ edges' = edges /\ ~({jumps[at].from, jumps[at].to} \subseteq Starts)
  <2>1. \A d \in q + 1 .. q1, k, m \in 1 .. Len(blocks) :
            jumps[d].from = blocks[k].start /\ jumps[d].to = blocks[m].start => HasEdge(k, m)'
    BY <1>4, <1>6 DEF Starts
  <2>2. /\ Len(blocks') = Len(blocks) /\ \A k \in 1 .. Len(blocks) : Alike(blocks[k], blocks'[k])
    BY <1>6 DEF Alike
  <2>3. /\ edges' \in Seq([from : Nat, to : Nat]) /\ Len(edges) <= Len(edges')
        /\ Len(edges') <= Len(edges) + 2
        /\ \A e : e \notin Len(edges) + 1 .. Len(edges')
    BY <1>2, <1>6
  <2>4. Wiring(q, 0, q1, 0)
    BY <1>1, <1>4, <1>5, <1>6, <2>1, <2>2, <2>3 DEF Wiring
  <2> QED
    BY <1>2, <1>4, <2>4, WiredGrows
<1>7. ASSUME NEW k \in 1 .. Len(blocks), NEW m \in 1 .. Len(blocks), NEW t \in Terms,
             jumps[at].from = blocks[k].start, jumps[at].to = blocks[m].start,
             blocks' = Patch(jumps[at].from, t),
             edges' = Append(edges, [from |-> k, to |-> m])
      PROVE  Wired(q1, 0)'
  <2>1. \A e \in 1 .. Len(edges) : edges[e].from # k
    BY <1>4, <1>7, JumpIsFresh
  <2>2. /\ Len(blocks') = Len(blocks) /\ \A j \in 1 .. Len(blocks) : Alike(blocks[j], blocks'[j])
        /\ \A j \in 1 .. Len(blocks) : j # k => blocks'[j] = blocks[j]
    <3>1. jumps[at].from \in Starts
      BY <1>2, <1>7, PatchAt
    <3> QED
      BY <1>2, <1>7, <3>1, PatchAt, PatchFacts
  <2>3. PICK l, x : l = Len(edges) /\ x = [from |-> k, to |-> m]
    OBVIOUS
  <2>4. x \in [from : Nat, to : Nat] /\ x.from = k /\ x.to = m /\ l \in Nat
    BY <1>2, <2>3
  <2>5. /\ edges' \in Seq([from : Nat, to : Nat]) /\ Len(edges') = l + 1
        /\ \A e \in 1 .. l : edges'[e] = edges[e]
        /\ edges'[l + 1] = x
    BY <1>2, <1>7, <2>3, <2>4
  <2>6. \E i \in 1 .. N : Ends(blocks[k], i) /\ blocks[m].start \in Flow(i)
    <3>1. PICK k1 \in 1 .. Len(blocks), i \in 1 .. N :
            /\ Ends(blocks[k1], i) /\ jumps[at].from = blocks[k1].start
            /\ jumps[at].to \in Flow(i)
      BY <1>1, <1>2 DEF Pending
    <3>2. k1 = k
      BY <1>2, <1>7, <3>1, StartsDiffer
    <3> QED
      BY <1>7, <3>1, <3>2
  <2>7. \A e : e \in Len(edges) + 1 .. Len(edges') <=> e = l + 1
    BY <2>3, <2>4, <2>5
  <2>8. HasEdge(k, m)'
    <3>1. l + 1 \in 1 .. Len(edges')
      BY <2>4, <2>5
    <3> QED
      BY <2>3, <2>5, <3>1 DEF HasEdge
  <2>9. \A d \in q + 1 .. q1, k1, m1 \in 1 .. Len(blocks) :
            jumps[d].from = blocks[k1].start /\ jumps[d].to = blocks[m1].start => HasEdge(k1, m1)'
    <3> TAKE d \in q + 1 .. q1, k1, m1 \in 1 .. Len(blocks)
    <3> HAVE jumps[d].from = blocks[k1].start /\ jumps[d].to = blocks[m1].start
    <3>1. d = at
      BY <1>4
    <3>2. k1 = k /\ m1 = m
      BY <1>2, <1>7, <3>1, StartsDiffer
    <3> QED
      BY <2>8, <3>2
  <2>10. \A e \in Len(edges) + 1 .. Len(edges') :
                /\ edges'[e].from \in 1 .. Len(blocks) /\ edges'[e].to \in 1 .. Len(blocks)
                /\ \E i \in 1 .. N : /\ Ends(blocks[edges'[e].from], i)
                                     /\ blocks[edges'[e].to].start \in Flow(i)
                /\ \/ \E d \in 1 .. q1 : jumps[d].from = blocks[edges'[e].from].start
                   \/ \E d \in 1 .. 0 : branches[d].from = blocks[edges'[e].from].start
                /\ \A d \in 1 .. Len(edges) : edges[d].from # edges'[e].from
                /\ Len(edges') = Len(edges) + 2 =>
                        blocks'[edges'[e].from].term.kind = "Branch"
    <3> TAKE e \in Len(edges) + 1 .. Len(edges')
    <3>1. edges'[e].from = k /\ edges'[e].to = m
      BY <2>4, <2>5, <2>7
    <3>2. Len(edges') # Len(edges) + 2
      BY <2>3, <2>4, <2>5
    <3>3. at \in 1 .. q1 /\ jumps[at].from = blocks[k].start
      BY <1>1, <1>7
    <3> QED
      BY <2>1, <2>6, <3>1, <3>2, <3>3
  <2>11. \A e \in 1 .. Len(edges) : blocks'[edges[e].from].term = blocks[edges[e].from].term
    BY <1>4, <2>1, <2>2 DEF Wired
  <2>12. Len(edges) <= Len(edges') /\ Len(edges') <= Len(edges) + 2
         /\ \A e \in 1 .. Len(edges) : edges'[e] = edges[e]
    BY <2>3, <2>4, <2>5
  <2>13. Wiring(q, 0, q1, 0)
    BY <1>1, <1>4, <1>5, <2>2, <2>5, <2>9, <2>10, <2>11, <2>12 DEF Wiring
  <2> QED
    BY <1>2, <1>4, <2>13, WiredGrows
<1> QED
  BY <1>6, <1>7, WireJumpCases

LEMMA WireBranchWires ==
    ASSUME WalkInv, CfgInv', WireBranch, Wired(Len(jumps), at - 1)
    PROVE  \A q \in {Len(jumps)}, r1 \in {at} : Wired(q, r1)'
<1> SUFFICES ASSUME NEW q, q = Len(jumps), NEW r1, r1 = at PROVE Wired(q, r1)'
  OBVIOUS
<1>1. /\ pass = "branches" /\ at \in 1 .. Len(branches) /\ Len(branches) \in Nat
      /\ UNCHANGED <<prog, leaders, jumps, branches>>
  BY WireBranchCases
<1>2. /\ blocks \in Seq(Block) /\ Tiled(blocks) /\ CfgInv /\ edges \in Seq([from : Nat, to : Nat])
      /\ Pending(blocks, jumps, branches) /\ Len(blocks) \in Nat /\ WellFormed(prog)
      /\ Len(jumps) \in Nat
  BY <1>1, BlocksAlone DEF WalkInv, CfgInv, TypeOK
<1>3. PICK r : r = at - 1
  OBVIOUS
<1>4. r \in Nat /\ r1 \in Nat /\ r <= r1 /\ r + 1 = r1 /\ r < Len(branches) /\ Wired(q, r)
      /\ q \in Nat /\ \A d : d \in r + 1 .. r1 <=> d = at
  BY <1>1, <1>2, <1>3
<1>5. \A d : d \notin q + 1 .. q
  BY <1>4
<1>6. CASE /\ blocks' = blocks /\ edges' = edges
           /\ ~({branches[at].from, branches[at].yes, branches[at].no} \subseteq Starts)
  <2>1. \A d \in r + 1 .. r1, k, m, n \in 1 .. Len(blocks) :
            /\ branches[d].from = blocks[k].start
            /\ branches[d].yes = blocks[m].start /\ branches[d].no = blocks[n].start
            => HasEdge(k, m)' /\ HasEdge(k, n)'
    BY <1>4, <1>6 DEF Starts
  <2>2. /\ Len(blocks') = Len(blocks) /\ \A k \in 1 .. Len(blocks) : Alike(blocks[k], blocks'[k])
    BY <1>6 DEF Alike
  <2>3. /\ edges' \in Seq([from : Nat, to : Nat]) /\ Len(edges) <= Len(edges')
        /\ Len(edges') <= Len(edges) + 2
        /\ \A e : e \notin Len(edges) + 1 .. Len(edges')
    BY <1>2, <1>6
  <2>4. Wiring(q, r, q, r1)
    BY <1>1, <1>4, <1>5, <1>6, <2>1, <2>2, <2>3 DEF Wiring
  <2> QED
    BY <1>2, <1>4, <2>4, WiredGrows
<1>7. ASSUME NEW k \in 1 .. Len(blocks), NEW m \in 1 .. Len(blocks), NEW n \in 1 .. Len(blocks),
             NEW t \in Terms,
             branches[at].from = blocks[k].start,
             branches[at].yes = blocks[m].start, branches[at].no = blocks[n].start,
             t.kind = "Branch",
             blocks' = Patch(branches[at].from, t),
             edges' = edges \o <<[from |-> k, to |-> m], [from |-> k, to |-> n]>>
      PROVE  Wired(q, r1)'
  <2>1. \A e \in 1 .. Len(edges) : edges[e].from # k
    BY <1>1, <1>4, <1>7, BranchIsFresh
  <2>2. /\ Len(blocks') = Len(blocks) /\ \A j \in 1 .. Len(blocks) : Alike(blocks[j], blocks'[j])
        /\ \A j \in 1 .. Len(blocks) : j # k => blocks'[j] = blocks[j]
        /\ blocks'[k].term.kind = "Branch"
    <3>1. branches[at].from \in Starts
      BY <1>2, <1>7, PatchAt
    <3> QED
      BY <1>2, <1>7, <3>1, PatchAt, PatchFacts
  <2>3. PICK l, x, y : l = Len(edges) /\ x = [from |-> k, to |-> m] /\ y = [from |-> k, to |-> n]
    OBVIOUS
  <2>4. /\ x \in [from : Nat, to : Nat] /\ x.from = k /\ x.to = m /\ l \in Nat
        /\ y \in [from : Nat, to : Nat] /\ y.from = k /\ y.to = n
    BY <1>2, <2>3
  <2>5. /\ edges' \in Seq([from : Nat, to : Nat]) /\ Len(edges') = l + 2
        /\ \A e \in 1 .. l : edges'[e] = edges[e]
        /\ edges'[l + 1] = x /\ edges'[l + 2] = y
    <3>1. /\ <<x, y>> \in Seq([from : Nat, to : Nat]) /\ Len(<<x, y>>) = 2
          /\ <<x, y>>[1] = x /\ <<x, y>>[2] = y
      BY <2>4
    <3>2. edges' = edges \o <<x, y>>
      BY <1>7, <2>3
    <3> QED
      BY <1>2, <2>3, <2>4, <3>1, <3>2
  <2>6. \E i \in 1 .. N :
            Ends(blocks[k], i) /\ blocks[m].start \in Flow(i) /\ blocks[n].start \in Flow(i)
    <3>1. PICK k1 \in 1 .. Len(blocks), i \in 1 .. N :
            /\ Ends(blocks[k1], i) /\ In(i).kind = "jcc"
            /\ branches[at] = [from |-> blocks[k1].start, yes |-> In(i).target,
                               no |-> EndOf(In(i))]
      BY <1>1, <1>2 DEF Pending
    <3>2. /\ branches[at].from = blocks[k1].start /\ branches[at].yes = In(i).target
          /\ branches[at].no = EndOf(In(i))
      BY <3>1
    <3>3. k1 = k
      BY <1>2, <1>7, <3>2, StartsDiffer
    <3>4. In(i).target \in Flow(i) /\ EndOf(In(i)) \in Flow(i)
      BY <3>1 DEF Flow
    <3> QED
      BY <1>7, <3>1, <3>2, <3>3, <3>4
  <2>7. \A e \in Len(edges) + 1 .. Len(edges') : e = l + 1 \/ e = l + 2
    BY <2>3, <2>4, <2>5
  <2>8. HasEdge(k, m)' /\ HasEdge(k, n)'
    <3>1. l + 1 \in 1 .. Len(edges') /\ l + 2 \in 1 .. Len(edges')
      BY <2>4, <2>5
    <3> QED
      BY <2>3, <2>5, <3>1 DEF HasEdge
  <2>9. \A d \in r + 1 .. r1, k1, m1, n1 \in 1 .. Len(blocks) :
            /\ branches[d].from = blocks[k1].start
            /\ branches[d].yes = blocks[m1].start /\ branches[d].no = blocks[n1].start
            => HasEdge(k1, m1)' /\ HasEdge(k1, n1)'
    <3> TAKE d \in r + 1 .. r1, k1, m1, n1 \in 1 .. Len(blocks)
    <3> HAVE /\ branches[d].from = blocks[k1].start
             /\ branches[d].yes = blocks[m1].start /\ branches[d].no = blocks[n1].start
    <3>1. d = at
      BY <1>4
    <3>2. k1 = k /\ m1 = m /\ n1 = n
      BY <1>2, <1>7, <3>1, StartsDiffer
    <3> QED
      BY <2>8, <3>2
  <2>10. \A e \in Len(edges) + 1 .. Len(edges') :
                /\ edges'[e].from \in 1 .. Len(blocks) /\ edges'[e].to \in 1 .. Len(blocks)
                /\ \E i \in 1 .. N : /\ Ends(blocks[edges'[e].from], i)
                                     /\ blocks[edges'[e].to].start \in Flow(i)
                /\ \/ \E d \in 1 .. q : jumps[d].from = blocks[edges'[e].from].start
                   \/ \E d \in 1 .. r1 : branches[d].from = blocks[edges'[e].from].start
                /\ \A d \in 1 .. Len(edges) : edges[d].from # edges'[e].from
                /\ Len(edges') = Len(edges) + 2 =>
                        blocks'[edges'[e].from].term.kind = "Branch"
    <3> TAKE e \in Len(edges) + 1 .. Len(edges')
    <3>1. edges'[e].from = k /\ edges'[e].to \in {m, n}
      BY <2>4, <2>5, <2>7
    <3>2. at \in 1 .. r1 /\ branches[at].from = blocks[k].start
      BY <1>1, <1>7
    <3> QED
      BY <2>1, <2>2, <2>6, <3>1, <3>2
  <2>11. \A e \in 1 .. Len(edges) : blocks'[edges[e].from].term = blocks[edges[e].from].term
    BY <1>4, <2>1, <2>2 DEF Wired
  <2>12. Len(edges) <= Len(edges') /\ Len(edges') <= Len(edges) + 2
         /\ \A e \in 1 .. Len(edges) : edges'[e] = edges[e]
    BY <2>3, <2>4, <2>5
  <2>13. q <= q /\ \A d \in q + 1 .. q, k1, m1 \in 1 .. Len(blocks) :
            jumps[d].from = blocks[k1].start /\ jumps[d].to = blocks[m1].start => HasEdge(k1, m1)'
    BY <1>4, <1>5
  <2>14. Wiring(q, r, q, r1)
    BY <1>1, <1>4, <2>2, <2>5, <2>9, <2>10, <2>11, <2>12, <2>13, Zenon DEF Wiring
  <2> QED
    BY <1>2, <1>4, <2>14, WiredGrows
<1> QED
  BY <1>6, <1>7, WireBranchCases

LEMMA WiredStays ==
    ASSUME UNCHANGED <<prog, blocks, edges, jumps, branches>>, NEW q, NEW r, Wired(q, r)
    PROVE  Wired(q, r)'
<1>1. \A k, m : HasEdge(k, m)' <=> HasEdge(k, m)
  BY DEF HasEdge
<1>2. N' = N /\ \A i : Flow(i)' = Flow(i)
  BY DEF N, Flow, In
<1>3. (\A e \in 1 .. Len(edges) :
        /\ edges[e].from \in 1 .. Len(blocks) /\ edges[e].to \in 1 .. Len(blocks)
        /\ \E i \in 1 .. N : /\ Ends(blocks[edges[e].from], i)
                             /\ blocks[edges[e].to].start \in Flow(i)
        /\ \/ \E d \in 1 .. q : jumps[d].from = blocks[edges[e].from].start
           \/ \E d \in 1 .. r : branches[d].from = blocks[edges[e].from].start)'
  BY <1>2 DEF Wired, Ends, Within, In
<1>4. (\A d, e \in 1 .. Len(edges) :
        d < e /\ edges[d].from = edges[e].from
            => e = d + 1 /\ blocks[edges[d].from].term.kind = "Branch")'
  <2>1. edges' = edges /\ blocks' = blocks
    OBVIOUS
  <2> QED
    BY <2>1, Zenon DEF Wired
<1>5. (\A d \in 1 .. q, k, m \in 1 .. Len(blocks) :
        jumps[d].from = blocks[k].start /\ jumps[d].to = blocks[m].start => HasEdge(k, m))'
  <2>1. jumps' = jumps /\ blocks' = blocks
    OBVIOUS
  <2> QED
    BY <1>1, <2>1, Zenon DEF Wired
<1>6. (\A d \in 1 .. r, k, m, n \in 1 .. Len(blocks) :
        /\ branches[d].from = blocks[k].start
        /\ branches[d].yes = blocks[m].start /\ branches[d].no = blocks[n].start
        => HasEdge(k, m) /\ HasEdge(k, n))'
  <2> SUFFICES ASSUME NEW d \in 1 .. r, NEW k \in 1 .. Len(blocks'), NEW m \in 1 .. Len(blocks'),
                      NEW n \in 1 .. Len(blocks'),
                      branches'[d].from = blocks'[k].start, branches'[d].yes = blocks'[m].start,
                      branches'[d].no = blocks'[n].start
               PROVE  HasEdge(k, m)' /\ HasEdge(k, n)'
    OBVIOUS
  <2>1. HasEdge(k, m) /\ HasEdge(k, n)
    BY DEF Wired
  <2> QED
    BY <1>1, <2>1
<1> QED
  BY <1>3, <1>4, <1>5, <1>6 DEF Wired

LEMMA EdgeStart == Init => EdgeInv
<1> SUFFICES ASSUME Init PROVE EdgeInv
  OBVIOUS
<1> QED
  BY WalkStart DEF EdgeInv, Init

LEMMA IdleWalk == WalkInv /\ CfgInv' /\ UNCHANGED vars => WalkInv'
<1> SUFFICES ASSUME WalkInv, CfgInv', UNCHANGED vars PROVE WalkInv'
  OBVIOUS
<1>1. UNCHANGED <<prog, pass, at, leaders, current, blocks, nextId, jumps, branches, edges>>
  BY DEF vars
<1>2. All' = All /\ N' = N
  BY <1>1 DEF All, N
<1>3. LeadersAre'
  BY <1>1 DEF WalkInv, LeadersAre, Entry, Followers, Landings
<1>4. Pending(blocks, jumps, branches)'
  BY <1>1, PendingNext DEF WalkInv
<1>5. pass = "blocks" => Walked(All, at - 1)'
  BY <1>1, <1>2, WalkedNext DEF WalkInv
<1>6. pass = "blocks" /\ current = <<>> => Gap(at - 1)'
  BY <1>1, GapNext DEF WalkInv
<1>7. pass = "blocks" /\ current # <<>> => Opened(current[1], at - 1)'
  BY <1>1, OpenedNext DEF WalkInv
<1>8. pass \in {"jumps", "branches", "done"} => Walked(blocks, N)'
  BY <1>1, WalkedAllNext DEF WalkInv
<1> QED
  BY <1>1, <1>2, <1>3, <1>4, <1>5, <1>6, <1>7, <1>8 DEF WalkInv

LEMMA WalkStep == WalkInv /\ [Next]_vars => WalkInv'
<1> SUFFICES ASSUME WalkInv, [Next]_vars PROVE WalkInv'
  OBVIOUS
<1>1. CfgInv'
  BY CfgStep DEF WalkInv
<1>2. CASE EmptyFunction \/ FindLeaders \/ EndBlocks
  BY <1>1, <1>2, EmptyFunctionWalk, FindLeadersWalk, EndBlocksWalk
<1>3. CASE SkipInsn \/ PlainInsn \/ ExitInsn \/ JumpInsn \/ BranchInsn
  BY <1>1, <1>3, SkipWalk, PlainWalk, ExitWalk, JumpWalk, BranchWalk
<1>4. CASE WireJump
  <2>1. /\ pass = "jumps" /\ pass' = "jumps" /\ UNCHANGED <<prog, leaders, jumps, branches>>
        /\ \/ blocks' = blocks
           \/ \E k \in 1 .. Len(blocks), t \in Terms : blocks' = Patch(blocks[k].start, t)
    <3>1. /\ pass = "jumps" /\ pass' = "jumps" /\ UNCHANGED <<prog, leaders, jumps, branches>>
          /\ \/ blocks' = blocks
             \/ \E k \in 1 .. Len(blocks), t \in Terms :
                    jumps[at].from = blocks[k].start /\ blocks' = Patch(jumps[at].from, t)
      BY <1>4, WireJumpCases
    <3> QED
      BY <3>1
  <2>2. blocks' = blocks \/ \E a \in Starts, t \in Terms : blocks' = Patch(a, t)
    BY <2>1 DEF Starts
  <2>3. Len(blocks') = Len(blocks) /\ \A k \in 1 .. Len(blocks) : Alike(blocks[k], blocks'[k])
    BY <2>2, PatchAlike DEF WalkInv
  <2> QED
    BY <1>1, <2>1, <2>3, WiringWalk
<1>5. CASE WireBranch
  <2>1. /\ pass = "branches" /\ pass' = "branches" /\ UNCHANGED <<prog, leaders, jumps, branches>>
        /\ \/ blocks' = blocks
           \/ \E k \in 1 .. Len(blocks), t \in Terms : blocks' = Patch(blocks[k].start, t)
    <3>1. /\ pass = "branches" /\ pass' = "branches"
          /\ UNCHANGED <<prog, leaders, jumps, branches>>
          /\ \/ blocks' = blocks
             \/ \E k \in 1 .. Len(blocks), t \in Terms :
                    branches[at].from = blocks[k].start /\ blocks' = Patch(branches[at].from, t)
      BY <1>5, WireBranchCases
    <3> QED
      BY <3>1
  <2>2. blocks' = blocks \/ \E a \in Starts, t \in Terms : blocks' = Patch(a, t)
    BY <2>1 DEF Starts
  <2>3. Len(blocks') = Len(blocks) /\ \A k \in 1 .. Len(blocks) : Alike(blocks[k], blocks'[k])
    BY <2>2, PatchAlike DEF WalkInv
  <2> QED
    BY <1>1, <2>1, <2>3, WiringWalk
<1>6. CASE EndJumps \/ EndBranches
  <2>1. /\ pass \in {"jumps", "branches", "done"} /\ pass' \in {"jumps", "branches", "done"}
        /\ UNCHANGED <<prog, leaders, blocks, jumps, branches>>
    BY <1>6 DEF EndJumps, EndBranches
  <2>2. Len(blocks') = Len(blocks) /\ \A k \in 1 .. Len(blocks) : Alike(blocks[k], blocks'[k])
    BY <2>1 DEF Alike
  <2> QED
    BY <1>1, <2>1, <2>2, WiringWalk
<1>7. CASE UNCHANGED vars
  BY <1>1, <1>7, IdleWalk
<1> QED
  BY <1>2, <1>3, <1>4, <1>5, <1>6, <1>7 DEF Next, Returned

\* With no jump and no branch and no edge, everything has been wired.
LEMMA NothingWired ==
    ASSUME NEW q, NEW r, q = 0, r = 0, edges' = <<>>
    PROVE  Wired(q, r)'
<1>1. Len(edges') = 0 /\ \A x : x \notin 1 .. 0
  OBVIOUS
<1> QED
  BY <1>1 DEF Wired

LEMMA EdgeStep == EdgeInv /\ [Next]_vars => EdgeInv'
<1> SUFFICES ASSUME EdgeInv, [Next]_vars PROVE EdgeInv'
  OBVIOUS
<1>1. WalkInv /\ WalkInv' /\ CfgInv'
  BY WalkStep, CfgStep DEF EdgeInv, WalkInv
<1>2. Len(jumps) \in Nat /\ Len(branches) \in Nat /\ at \in Nat \ {0}
  BY <1>1 DEF WalkInv, CfgInv, TypeOK
<1>3. CASE EmptyFunction
  <2>1. pass' = "done" /\ edges' = <<>> /\ jumps' = <<>> /\ branches' = <<>>
    BY <1>1, <1>3 DEF EmptyFunction, EdgeInv, WalkInv
  <2>2. PICK q, r : q = Len(jumps') /\ r = Len(branches')
    OBVIOUS
  <2>3. q = 0 /\ r = 0
    BY <2>1, <2>2
  <2>4. Wired(q, r)'
    BY <2>1, <2>3, NothingWired
  <2> QED
    BY <1>1, <2>1, <2>2, <2>4 DEF EdgeInv, Wired
<1>4. CASE \/ FindLeaders \/ SkipInsn \/ PlainInsn \/ ExitInsn \/ JumpInsn \/ BranchInsn
  <2>1. pass' = "blocks" /\ edges' = <<>>
    BY <1>4 DEF FindLeaders, SkipInsn, PlainInsn, ExitInsn, JumpInsn, BranchInsn, HasBlock,
                InBlocks, Step, EdgeInv
  <2> QED
    BY <1>1, <2>1 DEF EdgeInv
<1>5. CASE EndBlocks
  <2>1. pass' = "jumps" /\ edges' = <<>> /\ at' = 1 /\ jumps' = jumps
    BY <1>5 DEF EndBlocks, EdgeInv
  <2>2. PICK q, r : q = 0 /\ r = 0
    OBVIOUS
  <2>3. Wired(q, r)'
    BY <2>1, <2>2, NothingWired
  <2>4. at' - 1 = q /\ r = 0 /\ at' <= Len(jumps') + 1
    BY <1>2, <2>1, <2>2
  <2> QED
    BY <1>1, <2>1, <2>3, <2>4 DEF EdgeInv, Wired
<1>6. CASE WireJump
  <2>1. /\ pass = "jumps" /\ pass' = "jumps" /\ at \in 1 .. Len(jumps) /\ at' = at + 1
        /\ jumps' = jumps
    BY <1>1, <1>6, WireJumpCases
  <2>2. Wired(at - 1, 0)
    BY <2>1 DEF EdgeInv
  <2>3. PICK q : q = at
    OBVIOUS
  <2>4. Wired(q, 0)'
    BY <1>1, <1>6, <2>2, <2>3, WireJumpWires
  <2>5. at' - 1 = q /\ at' <= Len(jumps') + 1
    BY <1>2, <2>1, <2>3
  <2> QED
    BY <1>1, <2>1, <2>4, <2>5 DEF EdgeInv, Wired
<1>7. CASE EndJumps
  <2>1. /\ pass = "jumps" /\ pass' = "branches" /\ at' = 1 /\ at > Len(jumps)
        /\ UNCHANGED <<prog, blocks, edges, jumps, branches>>
    BY <1>7 DEF EndJumps
  <2>2. PICK q, r : q = Len(jumps) /\ r = 0
    OBVIOUS
  <2>3. at <= Len(jumps) + 1 /\ Wired(at - 1, 0)
    BY <2>1 DEF EdgeInv
  <2>4. at - 1 = q
    BY <1>2, <2>1, <2>2, <2>3
  <2>5. Wired(q, r)'
    BY <2>1, <2>2, <2>3, <2>4, WiredStays
  <2>6. at' - 1 = r /\ Len(jumps') = q /\ at' <= Len(branches') + 1
    BY <1>2, <2>1, <2>2
  <2> QED
    BY <1>1, <2>1, <2>5, <2>6 DEF EdgeInv, Wired
<1>8. CASE WireBranch
  <2>1. /\ pass = "branches" /\ pass' = "branches" /\ at \in 1 .. Len(branches) /\ at' = at + 1
        /\ jumps' = jumps /\ branches' = branches
    BY <1>1, <1>8, WireBranchCases
  <2>2. Wired(Len(jumps), at - 1)
    BY <2>1 DEF EdgeInv
  <2>3. PICK q, r : q = Len(jumps) /\ r = at
    OBVIOUS
  <2>4. Wired(q, r)'
    BY <1>1, <1>8, <2>2, <2>3, WireBranchWires
  <2>5. Len(jumps') = q /\ at' - 1 = r /\ at' <= Len(branches') + 1
    BY <1>2, <2>1, <2>3
  <2> QED
    BY <1>1, <2>1, <2>4, <2>5 DEF EdgeInv, Wired
<1>9. CASE EndBranches
  <2>1. /\ pass = "branches" /\ pass' = "done" /\ at > Len(branches)
        /\ UNCHANGED <<prog, blocks, edges, jumps, branches>>
    BY <1>9 DEF EndBranches
  <2>2. PICK q, r : q = Len(jumps) /\ r = Len(branches)
    OBVIOUS
  <2>3. at <= Len(branches) + 1 /\ Wired(Len(jumps), at - 1)
    BY <2>1 DEF EdgeInv
  <2>4. at - 1 = r
    BY <1>2, <2>1, <2>2, <2>3
  <2>5. Wired(q, r)'
    BY <2>1, <2>2, <2>3, <2>4, WiredStays
  <2>6. Len(jumps') = q /\ Len(branches') = r
    BY <2>1, <2>2
  <2> QED
    BY <1>1, <2>1, <2>5, <2>6 DEF EdgeInv, Wired
<1>10. CASE UNCHANGED vars
  <2>1. UNCHANGED <<prog, pass, at, leaders, current, blocks, nextId, jumps, branches, edges>>
    BY <1>10 DEF vars
  <2>2. PICK p, q, r : p = at - 1 /\ q = Len(jumps) /\ r = Len(branches)
    OBVIOUS
  <2>3. /\ pass = "jumps" => Wired(p, 0)'
        /\ pass = "branches" => Wired(q, p)'
        /\ pass = "done" => Wired(q, r)'
    BY <2>1, <2>2, WiredStays DEF EdgeInv
  <2>4. p = at' - 1 /\ q = Len(jumps') /\ r = Len(branches')
    BY <2>1, <2>2
  <2>5. /\ pass' \in {"leaders", "blocks"} => edges' = <<>>
        /\ pass' = "jumps" => at' <= Len(jumps') + 1
        /\ pass' = "branches" => at' <= Len(branches') + 1
    BY <2>1 DEF EdgeInv
  <2>6. pass = "jumps" => Wired(at - 1, 0)'
    BY <2>3, <2>4 DEF Wired
  <2>7. pass = "branches" => Wired(Len(jumps), at - 1)'
    BY <2>3, <2>4 DEF Wired
  <2>8. pass = "done" => Wired(Len(jumps), Len(branches))'
    BY <2>3, <2>4 DEF Wired
  <2> QED
    BY <1>1, <2>1, <2>5, <2>6, <2>7, <2>8 DEF EdgeInv
<1> QED
  BY <1>3, <1>4, <1>5, <1>6, <1>7, <1>8, <1>9, <1>10 DEF Next, Returned

(***************************************************************************)
(* Whatever the holes of the function, build_cfg leaves an instruction out *)
(* of its blocks only behind a hole that follows the end of a block, up to *)
(* the next leader: no other code is lost.                                 *)
(***************************************************************************)
THEOREM HolesAloneLoseCode == Spec => []OnlyHolesLoseCode
<1>1. WalkInv => OnlyHolesLoseCode
  <2> SUFFICES ASSUME WalkInv, pass \in {"jumps", "branches", "done"},
                      NEW i \in 1 .. N, ~Covered(i)
               PROVE  Lost(i)
    BY DEF OnlyHolesLoseCode, Lost
  <2>1. (\E k \in 1 .. Len(blocks) : Within(blocks[k], i)) \/ Lost(i)
    BY DEF WalkInv, Walked
  <2> QED
    BY <2>1 DEF Covered, Inside, Within
<1> QED
  BY <1>1, WalkStart, WalkStep, PTL DEF Spec

\* The last instruction of a block is the one that ends it.
LEMMA LastEnds ==
    ASSUME WellFormed(prog), blocks \in Seq(Block),
           NEW k \in 1 .. Len(blocks), NEW i \in 1 .. N, Ends(blocks[k], i)
    PROVE  IsLast(k, i) /\ \A j \in 1 .. N : IsLast(k, j) => j = i
<1>1. /\ N \in Nat
      /\ \A j \in 1 .. N : /\ In(j).addr \in Nat /\ EndOf(In(j)) \in Nat
                           /\ In(j).addr < EndOf(In(j))
      /\ \A j, m \in 1 .. N : j < m => EndOf(In(j)) <= In(m).addr
  BY InsnFacts DEF N
<1>2. PICK b : b = blocks[k]
  OBVIOUS
<1>3. b.start <= In(i).addr /\ In(i).addr < b.end /\ b.end = EndOf(In(i)) /\ b.start \in Nat
  <2>1. b \in Block
    BY <1>2
  <2>2. b.start \in Nat
    BY <2>1 DEF Block
  <2> QED
    BY <1>2, <2>2 DEF Ends, Within
<1>4. \A j : Inside(k, j) <=> b.start <= In(j).addr /\ In(j).addr < b.end
  BY <1>2 DEF Inside
<1>5. IsLast(k, i)
  <2>1. ASSUME i < N, Inside(k, i + 1) PROVE FALSE
    <3>1. i + 1 \in 1 .. N /\ i < i + 1
      BY <1>1, <2>1
    <3>2. EndOf(In(i)) <= In(i + 1).addr /\ In(i + 1).addr < EndOf(In(i))
      BY <1>1, <1>3, <1>4, <2>1, <3>1
    <3> QED
      BY <1>1, <3>1, <3>2
  <2> QED
    BY <1>3, <1>4, <2>1 DEF IsLast
<1>6. ASSUME NEW j \in 1 .. N, IsLast(k, j) PROVE j = i
  <2>1. Inside(k, j) /\ ~(j < N /\ Inside(k, j + 1))
    BY <1>6 DEF IsLast
  <2>2. CASE i < j
    <3>1. EndOf(In(i)) <= In(j).addr /\ In(j).addr < EndOf(In(i))
      BY <1>1, <1>3, <1>4, <2>1, <2>2
    <3> QED
      BY <1>1, <3>1
  <2>3. CASE j < i
    <3>1. j < N /\ j + 1 \in 1 .. N /\ (j + 1 < i \/ j + 1 = i) /\ j < j + 1
      BY <1>1, <2>3
    <3>2. In(j).addr < In(j + 1).addr
      <4>1. EndOf(In(j)) <= In(j + 1).addr /\ In(j).addr < EndOf(In(j))
        BY <1>1, <3>1
      <4> QED
        BY <1>1, <3>1, <4>1
    <3>3. In(j + 1).addr < b.end
      <4>1. CASE j + 1 = i
        BY <1>3, <4>1
      <4>2. CASE j + 1 < i
        <5>1. EndOf(In(j + 1)) <= In(i).addr /\ In(j + 1).addr < EndOf(In(j + 1))
          BY <1>1, <3>1, <4>2
        <5> QED
          BY <1>1, <1>3, <3>1, <5>1
      <4> QED
        BY <3>1, <4>1, <4>2
    <3>4. b.start <= In(j).addr
      BY <1>4, <2>1
    <3>5. b.start <= In(j + 1).addr
      BY <1>1, <1>3, <3>1, <3>2, <3>4
    <3> QED
      BY <1>4, <2>1, <3>1, <3>3, <3>5
  <2> QED
    BY <1>1, <2>2, <2>3
<1> QED
  BY <1>5, <1>6

(***************************************************************************)
(* Every edge build_cfg adds is a flow from the last instruction of its    *)
(* block to the start of a block, and a block has a second edge, added     *)
(* just behind the first, only if it ends in a branch.                     *)
(***************************************************************************)
THEOREM TheEdgesAreFlow == Spec => []EdgesAreFlow
<1>1. EdgeInv => EdgesAreFlow
  <2> SUFFICES ASSUME EdgeInv PROVE EdgesAreFlow
    OBVIOUS
  <2>1. CASE edges = <<>>
    BY <2>1 DEF EdgesAreFlow
  <2>2. CASE pass \in {"jumps", "branches", "done"}
    <3>1. blocks \in Seq(Block) /\ WellFormed(prog)
      BY <2>2, BlocksAlone DEF EdgeInv
    <3>2. PICK q, r : Wired(q, r)
      BY <2>2 DEF EdgeInv
    <3>3. \A e \in 1 .. Len(edges) :
            \E i \in 1 .. N : IsLast(edges[e].from, i) /\ blocks[edges[e].to].start \in Flow(i)
      <4> TAKE e \in 1 .. Len(edges)
      <4>1. PICK k : k = edges[e].from
        OBVIOUS
      <4>2. PICK i \in 1 .. N : Ends(blocks[k], i) /\ blocks[edges[e].to].start \in Flow(i)
        BY <3>2, <4>1 DEF Wired
      <4>3. k \in 1 .. Len(blocks)
        BY <3>2, <4>1 DEF Wired
      <4> QED
        BY <3>1, <4>1, <4>2, <4>3, LastEnds
    <3> QED
      BY <3>2, <3>3 DEF Wired, EdgesAreFlow
  <2>3. pass \in {"leaders", "blocks", "jumps", "branches", "done"}
    BY DEF EdgeInv, WalkInv, CfgInv, TypeOK
  <2> QED
    BY <2>1, <2>2, <2>3 DEF EdgeInv
<1> QED
  BY <1>1, EdgeStart, EdgeStep, PTL DEF Spec

\* An arm of an instruction that ends a block leads to a block, if there is
\* an instruction there.
LEMMA ArmLeads ==
    ASSUME WalkInv, pass = "done", NEW i \in 1 .. N, EndsBlock(In(i)), NEW a,
           a = In(i).target \/ a = EndOf(In(i)), Present(a)
    PROVE  a # 0 /\ \E m \in 1 .. Len(blocks) : blocks[m].start = a
<1>1. WellFormed(prog) /\ LeadersAre /\ Walked(blocks, N)
  BY DEF WalkInv, CfgInv, TypeOK
<1>2. PICK j \in 1 .. N : In(j).addr = a
  BY DEF Present
<1>3. In(j).addr \in leaders
  <2>1. CASE a = EndOf(In(i))
    BY <1>1, <1>2, <2>1, FollowerLeads
  <2>2. CASE a = In(i).target
    <3>1. a < prog.end
      BY <1>1, <1>2 DEF WellFormed, In, N
    <3>2. a >= Entry
      <4>1. /\ 1 \in 1 .. N /\ (1 < j \/ j = 1) /\ Entry = In(1).addr
            /\ In(1).addr \in Nat /\ EndOf(In(1)) \in Nat /\ a \in Nat
            /\ In(1).addr < EndOf(In(1))
        BY <1>1, <1>2, InsnFacts DEF N, Entry, In
      <4>2. 1 < j => EndOf(In(1)) <= a
        BY <1>1, <1>2, <4>1, InsnFacts DEF N
      <4> QED
        BY <1>2, <4>1, <4>2
    <3>3. a \in Landings
      BY <2>2, <3>1, <3>2 DEF Landings, In, N
    <3>4. prog.insns # <<>>
      BY DEF N
    <3> QED
      BY <1>1, <1>2, <3>3, <3>4 DEF LeadersAre
  <2> QED
    BY <2>1, <2>2
<1>4. a # 0
  BY <1>1, <1>2, InsnFacts DEF N, Insn
<1> QED
  BY <1>1, <1>2, <1>3, <1>4 DEF Walked

(***************************************************************************)
(* Where the instructions of two blocks follow each other, build_cfg's     *)
(* graph has the edge.  The one exception is a conditional branch with an  *)
(* arm outside the blocks, which loses both edges.                         *)
(***************************************************************************)
THEOREM TheFlowIsKept == Spec => []FlowKept
<1>1. EdgeInv => FlowKept
  <2> SUFFICES ASSUME EdgeInv, pass = "done", NEW k \in 1 .. Len(blocks), NEW i \in 1 .. N,
                      IsLast(k, i), In(i).kind = "jcc" => \A a \in Flow(i) : Present(a),
                      NEW a \in Flow(i), Present(a)
               PROVE  \E m \in 1 .. Len(blocks) : blocks[m].start = a /\ HasEdge(k, m)
    BY DEF FlowKept
  <2>1. /\ WalkInv /\ Wired(Len(jumps), Len(branches))
        /\ blocks \in Seq(Block) /\ WellFormed(prog)
        /\ Walked(blocks, N) /\ Pending(blocks, jumps, branches)
    BY BlocksAlone DEF EdgeInv, WalkInv
  <2>2. Ends(blocks[k], i)
    <3>1. PICK j \in 1 .. N : Ends(blocks[k], j)
      BY <2>1 DEF Walked
    <3>2. i = j
      BY <2>1, <3>1, LastEnds
    <3> QED
      BY <3>1, <3>2
  <2>3. Closing(blocks[k], i, jumps, branches)
    BY <2>1, <2>2 DEF Pending
  <2>4. CASE In(i).kind = "plain"
    <3>1. i < N /\ a = In(i + 1).addr
      BY <2>4 DEF Flow
    <3>2. PICK e \in 1 .. Len(jumps) : jumps[e] = [from |-> blocks[k].start, to |-> a]
      BY <2>3, <2>4, <3>1 DEF Closing
    <3>3. PICK m \in 1 .. Len(blocks) : blocks[m].start = a
      <4>1. i + 1 \in 1 .. N
        BY <2>1, <3>1, InsnFacts DEF N
      <4>2. In(i + 1).addr \in leaders
        BY <2>3, <2>4, <3>1 DEF Closing
      <4> QED
        BY <2>1, <3>1, <4>1, <4>2 DEF Walked
    <3>4. jumps[e].from = blocks[k].start /\ jumps[e].to = blocks[m].start
      BY <3>2, <3>3
    <3> QED
      BY <2>1, <3>3, <3>4 DEF Wired
  <2>5. CASE In(i).kind = "jmp"
    <3>1. a = In(i).target /\ EndsBlock(In(i))
      BY <2>5 DEF Flow, EndsBlock
    <3>2. a # 0 /\ \E m \in 1 .. Len(blocks) : blocks[m].start = a
      BY <2>1, <3>1, ArmLeads
    <3>3. PICK m \in 1 .. Len(blocks) : blocks[m].start = a
      BY <3>2
    <3>4. PICK e \in 1 .. Len(jumps) : jumps[e] = [from |-> blocks[k].start, to |-> a]
      BY <2>3, <2>5, <3>1, <3>2 DEF Closing
    <3>5. jumps[e].from = blocks[k].start /\ jumps[e].to = blocks[m].start
      BY <3>3, <3>4
    <3> QED
      BY <2>1, <3>3, <3>5 DEF Wired
  <2>6. CASE In(i).kind = "jcc"
    <3>1. PICK y, n : y = In(i).target /\ n = EndOf(In(i))
      OBVIOUS
    <3>2. Flow(i) = {y, n} /\ EndsBlock(In(i)) /\ Present(y) /\ Present(n)
      BY <2>6, <3>1 DEF Flow, EndsBlock
    <3>3. PICK p \in 1 .. Len(blocks), o \in 1 .. Len(blocks) :
            blocks[p].start = y /\ blocks[o].start = n
      BY <2>1, <3>1, <3>2, ArmLeads
    <3>4. PICK e \in 1 .. Len(branches) :
            branches[e] = [from |-> blocks[k].start, yes |-> y, no |-> n]
      BY <2>3, <2>6, <3>1 DEF Closing
    <3>5. /\ branches[e].from = blocks[k].start /\ branches[e].yes = blocks[p].start
          /\ branches[e].no = blocks[o].start
      BY <3>3, <3>4
    <3>6. HasEdge(k, p) /\ HasEdge(k, o)
      BY <2>1, <3>5 DEF Wired
    <3> QED
      BY <3>2, <3>3, <3>6
  <2>7. In(i).kind \in {"plain", "ret", "jmp", "jcc"}
    BY <2>1, InsnFacts DEF N, Insn
  <2>8. In(i).kind # "ret"
    BY DEF Flow
  <2> QED
    BY <2>4, <2>5, <2>6, <2>7, <2>8
<1> QED
  BY <1>1, EdgeStart, EdgeStep, PTL DEF Spec
=============================================================================
