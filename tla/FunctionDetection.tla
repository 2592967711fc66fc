------------------------- MODULE FunctionDetection -------------------------
(***************************************************************************)
(* The start of analyse (crates/rustdec-analysis/src/lib.rs) and           *)
(* detect_functions (functions.rs): the code sections become one list of   *)
(* instructions, and header, symbols and calls give the entry points.      *)
(*                                                                         *)
(* An instruction is its address, its size, what it does ("call", "leave"  *)
(* for the jumps, branches and exits that end a block, or "other") and its *)
(* operand ("imm", "mem", "reg" or "none", with the number written in it). *)
(***************************************************************************)
EXTENDS Naturals, Sequences, FiniteSets

CONSTANTS
    Objects,   \* the loaded files
    MinTarget  \* 0x1000: smaller numbers are no code addresses

Insn == [addr : Nat, size : Nat \ {0}, does : {"call", "leave", "other"},
         mode : {"imm", "mem", "reg", "none"}, val : Nat]

\* A code section: its bytes in memory and what of them decodes.
Section == [va : Nat, size : Nat, insns : Seq(Insn)]

\* A name is a text and, for "sub_" with an address, the address (0 in others).
Name == STRING \X Nat

SubName(a) == <<"sub", a>>

Symbol == [addr : Nat, name : Name, kind : {"Function", "Import", "Object"}]

\* entry is 0 when the header has none; strings are the addresses of literals.
Object == [entry : Nat, sections : Seq(Section), strings : SUBSET Nat,
           dwarf : Seq(Symbol), symbols : Seq(Symbol)]

\* Disassembly goes through the bytes of a section once, from its start.
LinearSweep(s) == \A i, j \in 1 .. Len(s) : i < j => s[i].addr + s[i].size <= s[j].addr

ASSUME ObjectAssumption ==
    /\ Objects \subseteq Object /\ MinTarget \in Nat
    /\ \A o \in Objects : \A k \in 1 .. Len(o.sections) : LinearSweep(o.sections[k].insns)

VARIABLES
    obj,        \* the BinaryObject
    stage,      \* what analyse is about to do
    at,         \* index of the next section, symbol or instruction
    insns,      \* all_insns
    globalEnd,  \* the greatest end of a section's last instruction
    funcs       \* the map address -> name

detectVars == <<obj, stage, at, insns, globalEnd, funcs>>

DetectInit ==
    /\ obj \in Objects
    /\ stage = "disassemble"
    /\ at = 1
    /\ insns = <<>>
    /\ globalEnd = 0
    /\ funcs = [a \in {} |-> SubName(a)]

EndOf(i) == i.addr + i.size

-----------------------------------------------------------------------------
(* Disassembly of the code sections, one after the other.                  *)

DisassembleSection ==
    /\ stage = "disassemble" /\ at <= Len(obj.sections)
    /\ LET new == obj.sections[at].insns
           end == IF new = <<>> THEN 0 ELSE EndOf(new[Len(new)])
       IN  /\ insns' = insns \o new
           /\ globalEnd' = IF end > globalEnd THEN end ELSE globalEnd
    /\ at' = at + 1
    /\ UNCHANGED <<obj, stage, funcs>>

\* NoCodeSection.
FindNoCode ==
    /\ stage = "disassemble" /\ at > Len(obj.sections) /\ insns = <<>>
    /\ stage' = "failed"
    /\ UNCHANGED <<obj, at, insns, globalEnd, funcs>>

\* What a stable sort by address puts before the j-th instruction.
Before(j) == {k \in 1 .. Len(insns) : \/ insns[k].addr < insns[j].addr
                                      \/ insns[k].addr = insns[j].addr /\ k < j}

Sorted ==
    [i \in 1 .. Len(insns) |->
        insns[CHOOSE j \in 1 .. Len(insns) : Cardinality(Before(j)) = i - 1]]

SortInsns ==
    /\ stage = "disassemble" /\ at > Len(obj.sections) /\ insns # <<>>
    /\ insns' = Sorted
    /\ stage' = "entry"
    /\ UNCHANGED <<obj, at, globalEnd, funcs>>

-----------------------------------------------------------------------------
(* detect_functions.                                                       *)

\* BTreeMap::insert.
Inserted(a, name) ==
    [b \in DOMAIN funcs \cup {a} |-> IF b = a THEN name ELSE funcs[b]]

\* entry(a).or_insert.
EntryOr(a, name) ==
    [b \in DOMAIN funcs \cup {a} |-> IF b \in DOMAIN funcs THEN funcs[b] ELSE name]

AddEntryPoint ==
    /\ stage = "entry"
    /\ funcs' = IF obj.entry # 0 THEN Inserted(obj.entry, <<"entry", 0>>) ELSE funcs
    /\ stage' = "symbols"
    /\ at' = 1
    /\ UNCHANGED <<obj, insns, globalEnd>>

SymbolIn(s) == Inserted(s.addr, s.name)

ReadSymbol ==
    /\ stage = "symbols" /\ at <= Len(obj.symbols)
    /\ LET s == obj.symbols[at]
       IN  funcs' = IF s.kind = "Function" /\ s.addr # 0 THEN SymbolIn(s) ELSE funcs
    /\ at' = at + 1
    /\ UNCHANGED <<obj, stage, insns, globalEnd>>

SymbolsRead ==
    /\ stage = "symbols" /\ at > Len(obj.symbols)
    /\ stage' = "calls"
    /\ at' = 1
    /\ UNCHANGED <<obj, insns, globalEnd, funcs>>

InCode(a) == \E s \in {obj.sections[k] : k \in 1 .. Len(obj.sections)} :
                s.va <= a /\ a < s.va + s.size

\* branch_target finds a number in "*0x2fe2(%rip)" as well.
HasTarget(i) == i.mode \in {"imm", "mem"} /\ i.val >= MinTarget

Called(a) == EntryOr(a, SubName(a))

ScanCall ==
    /\ stage = "calls" /\ at <= Len(insns)
    /\ LET i == insns[at]
       IN  funcs' = IF i.does = "call" /\ HasTarget(i) /\ InCode(i.val)
                    THEN Called(i.val) ELSE funcs
    /\ at' = at + 1
    /\ UNCHANGED <<obj, stage, insns, globalEnd>>

\* The fourth stage looks for "jmp" with a "[": capstone is set to AT&T syntax
\* (crates/rustdec-disasm/src/lib.rs:119), which writes no brackets.
ScanJumps ==
    /\ stage = "calls" /\ at > Len(insns)
    /\ stage' = "ranges"
    /\ UNCHANGED <<obj, at, insns, globalEnd, funcs>>

DetectNext ==
    \/ DisassembleSection \/ FindNoCode \/ SortInsns
    \/ AddEntryPoint \/ ReadSymbol \/ SymbolsRead \/ ScanCall \/ ScanJumps
=============================================================================
