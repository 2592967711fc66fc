------------------------------- MODULE LiftIR -------------------------------
(***************************************************************************)
(* The statements of crates/rustdec-ir/src/lib.rs as the lifter makes and  *)
(* reads them.  Types and widths are left out; a call keeps its target.    *)
(***************************************************************************)
EXTENDS Integers, SequencesExt, FiniteSetsExt

V(id)  == [var |-> TRUE, n |-> id]
C(val) == [var |-> FALSE, n |-> val]

\* The target of a call: the address n, or the value val of an indirect one.
ToAddress(kind, n) == [kind |-> kind, n |-> n, val |-> C(0)]

Through(v) == [kind |-> "Indirect", n |-> 0, val |-> v]

NoTarget == ToAddress("None", 0)

Assign(lhs, op, args) ==
    [kind |-> "Assign", lhs |-> lhs, op |-> op, args |-> args, target |-> NoTarget]

CallTo(lhs, target, args) ==
    [kind |-> "Assign", lhs |-> lhs, op |-> "Call", args |-> args, target |-> target]

Store(ptr, val) ==
    [kind |-> "Store", lhs |-> 0, op |-> "Store", args |-> <<ptr, val>>, target |-> NoTarget]

Nop == [kind |-> "Nop", lhs |-> 0, op |-> "Nop", args |-> <<>>, target |-> NoTarget]

IsAssign(s) == s.kind = "Assign"
IsOp(s, ops) == IsAssign(s) /\ s.op \in ops
IsLoad(s)   == IsOp(s, {"Load"})
IsStore(s)  == s.kind = "Store"

\* BinOp.  Not stands for the exclusive or with all ones.
Arithmetic == {"Add", "Sub", "Eq", "Mul", "And", "Not", "UDiv", "URem"}

VarsOf(args) == {args[i].n : i \in {j \in 1 .. Len(args) : args[j].var}}

\* collect_reads_stmt: the target of an indirect call is not among them.
Reads(s) == VarsOf(s.args)

\* The value of a terminator: what Return returns.  The condition of a branch
\* is a constant.
Term(kind, val, to) == [kind |-> kind, val |-> val, to |-> to]

TermReads(t) == IF t.kind = "Return" THEN VarsOf(<<t.val>>) ELSE {}

-----------------------------------------------------------------------------
(* Stack slots.                                                            *)

\* frame.rs slot_ptr_val: the id that stands for the slot at an offset.
SlotId(offset) == 10000 + offset + 4096

IsSlot(id) == id >= 10000 /\ id < 20000
=============================================================================
