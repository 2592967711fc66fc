------------------------------ MODULE Emission ------------------------------
(***************************************************************************)
(* emit_node of crates/rustdec-codegen/src/c.rs: the tree of Structurer as *)
(* lines of text.  A block is one line, whatever its statements are, and   *)
(* one more when it returns.                                               *)
(***************************************************************************)
EXTENDS StructurerProperties, SequencesExt

VARIABLES
    wordy,  \* blocks with the word "return" in a statement, in a callee's name say
    next,   \* index of the next node of the tree; 0 before the first
    text    \* out, as lines [says, of]

emitVars == <<wordy, next, text>>

Line(says, n) == [says |-> says, of |-> n]

EmitInit == Init /\ wordy = {} /\ next = 0 /\ text = <<>>

-----------------------------------------------------------------------------
BlockText(n) ==
    <<Line("block", n)>> \o
        IF graph[n].kind = "Return" THEN <<Line("return", n)>> ELSE <<>>

BlockTexts(s) == [i \in 1 .. Len(s) |-> BlockText(s[i])]

\* added.contains("return"): the text is searched, not the tree.
SaysReturn(t) ==
    \E i \in 1 .. Len(t) : \/ t[i].says = "return"
                           \/ t[i].says = "block" /\ t[i].of \in wordy

\* Mutation: a block that jumps ends a sequence as well.
StopsAtJump(parts) ==
    {i \in 1 .. Len(parts) : \/ SaysReturn(parts[i])
                             \/ Len(parts[i]) = 1 /\ i < Len(parts)}

Stops(parts) == {i \in 1 .. Len(parts) : SaysReturn(parts[i])}

\* A sequence ends after the first part with a return in it.
SeqText(parts) ==
    LET last == CHOOSE i \in Stops(parts) : \A j \in Stops(parts) : i <= j
    IN  FlattenSeq(IF Stops(parts) = {} THEN parts ELSE SubSeq(parts, 1, last))

\* The branching block is the first of the arm taken; an else arm that prints
\* nothing is left out.
IfText(t) ==
    LET else == SeqText(BlockTexts(t.other))
    IN  <<Line("if", t.head)>>
            \o SeqText(BlockTexts(<<t.head>> \o t.body))
            \o (IF else = <<>> THEN <<>> ELSE <<Line("else", t.head)>> \o else)
            \o <<Line("close", t.head)>>

LoopText(t) ==
    LET end == IF t.end = "" THEN <<>> ELSE <<<<Line(t.end, t.head)>>>>
    IN  <<Line("while", t.head)>>
            \o SeqText(BlockTexts(<<t.head>> \o t.body) \o end)
            \o <<Line("close", t.head)>>

NodeText(t) ==
    CASE t.kind = "Block"  -> BlockText(t.head)
      [] t.kind = "IfElse" -> IfText(t)
      [] t.kind = "Loop"   -> LoopText(t)

-----------------------------------------------------------------------------
\* The statements have their text; one block at most has the word in it.
StartEmission ==
    /\ pass = "done" /\ next = 0
    /\ wordy' \in {{}} \cup {{n} : n \in Blocks(graph)}
    /\ next' = 1
    /\ UNCHANGED <<vars, text>>

EmitNode ==
    /\ next \in 1 .. Len(tree)
    /\ text' = text \o NodeText(tree[next])
    /\ next' = IF SaysReturn(NodeText(tree[next])) THEN Len(tree) + 1 ELSE next + 1
    /\ UNCHANGED <<vars, wordy>>

Emitted == next > Len(tree)

EmitNext ==
    \/ Next /\ UNCHANGED emitVars
    \/ StartEmission
    \/ EmitNode

EmitSpec == EmitInit /\ [][EmitNext]_<<vars, emitVars>>

-----------------------------------------------------------------------------
(* What of a function the text must have.                                  *)

Printed == {text[i].of : i \in {j \in 1 .. Len(text) : text[j].says = "block"}}

\* The positions behind i of the arms of the block at i.
Ahead(i) == {j \in i + 1 .. Len(order) : order[j] \in {graph[order[i]].arms[a] : a \in 1 .. 2}}

\* One exit, the last block of the order, and what a branch leads to is right
\* behind it.
Simple ==
    /\ wordy = {}
    /\ \A i \in 1 .. Len(order) :
        /\ graph[order[i]].kind = "Return" => i = Len(order)
        /\ graph[order[i]].kind = "Branch" => Ahead(i) \in {{}, {i + 1}, {i + 1, i + 2}}

\* A function with one exit, whose arms are where the structurer looks for
\* them, is printed with every block: searching the text for a return cuts
\* nothing of it, in arms, in loops or at the outermost level (c.rs:328-341).
OneExitIsWhole ==
    next > 0 /\ Emitted /\ Simple => Printed = Blocks(graph)

\* A function in which control can reach every block.
Finished == pass = "done" /\ Reachable(graph) = Blocks(graph)

\* c.rs:333-334: a sequence is left after a node that emitted a return, as
\* "any subsequent nodes in this Seq are unreachable".  An if that returns in
\* one arm cuts code that control reaches past it.
NothingLiveIsCut ==
    next > 0 /\ Emitted /\ Finished /\ wordy = {} =>
        \A n \in Blocks(graph) : Times(n) >= 1 => n \in Printed
=============================================================================
