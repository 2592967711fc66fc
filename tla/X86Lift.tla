------------------------------ MODULE X86Lift ------------------------------
(***************************************************************************)
(* crates/rustdec-lift/src/x86.rs and the first loop of lift_function      *)
(* (lib.rs): block by block, each instruction becomes statements.  Every   *)
(* block starts with ids of its own for the registers.                     *)
(*                                                                         *)
(* A definition called a mutation models a bug the code does not have: the *)
(* checker must find a property violated when it takes the place of the    *)
(* definition that follows it.                                             *)
(***************************************************************************)
EXTENDS LiftIR

CONSTANTS
    Programs,   \* functions: a sequence of blocks [insns, end, to]
    AbiRegs,    \* the registers seeded, in the order of seed_abi_regs
    Alias,      \* the 64-bit register of each 32-bit name
    ArgRegs,    \* those that carry arguments, in order
    SysRegs     \* those a system call reads, in order

Registers == ToSet(AbiRegs)

RegNames == Registers \cup DOMAIN Alias

\* to_64bit_name
Wide(r) == IF r \in DOMAIN Alias THEN Alias[r] ELSE r

Narrow(r) == r # Wide(r)

\* An instruction; a source "imm" is the number in val, "mem" is in memory.  A
\* memory operand is base + index * scale + disp; with rip as its base, val is
\* the address it comes to.
Insn == [op : {"mov", "movsx", "store", "load", "lea", "add", "sub", "cmp", "imul", "test",
               "zero", "addmem", "inc", "dec", "neg", "not", "div", "xchg", "push", "pop",
               "leave", "call", "syscall", "nop", "opaque"},
         dst : RegNames, src : RegNames \cup {"imm", "mem"}, 
         base : RegNames \cup {"none", "rip"}, index : RegNames \cup {"none"}, scale : {1, 2, 4, 8},
         disp : Int, val : Int, indirect : BOOLEAN]

\* A block as build_cfg makes it: where it goes to, arm by arm.
Block == [insns : Seq(Insn), end : {"Jump", "Branch", "Return", "Unreachable"}, to : Seq(Nat \ {0})]

ASSUME LiftAssumption ==
    /\ AbiRegs \in Seq(STRING)
    /\ \A p \in Programs :
        /\ p \in Seq(Block)
        /\ \A b \in 1 .. Len(p) :
            /\ ToSet(p[b].to) \subseteq 1 .. Len(p)
            /\ p[b].end = "Branch" => Len(p[b].to) = 2

\* seed_abi_regs names all registers of 64 bits, each once, to_64bit_name one of
\* them.
ASSUME RegisterAssumption ==
    /\ \A i, j \in 1 .. Len(AbiRegs) : AbiRegs[i] = AbiRegs[j] => i = j
    /\ Alias \in [DOMAIN Alias -> Registers]
    /\ {"rax", "rbp", "rsp"} \subseteq Registers
    /\ ArgRegs \in Seq(Registers) /\ SysRegs \in Seq(Registers)

VARIABLES
    prog,       \* the function lifted
    blocks,     \* its blocks, as far as they are lifted: [stmts, term]
    names,      \* reg_names: the register of each seed id
    nextId,     \* next_var_id
    regs,       \* RegisterTable of the block under way
    pc          \* the instructions of it lifted; -1: none under way

liftVars == <<prog, blocks, names, nextId, regs, pc>>

LiftInit ==
    /\ prog \in Programs
    /\ blocks = <<>>
    /\ names = <<>>
    /\ nextId = 0
    /\ regs = <<>>
    /\ pc = -1

at == Len(blocks)

Code == prog[at].insns

SeedAt(i) == nextId + i - 1

\* seed_abi_regs: one fresh id for each register, whatever it is called.
SeedBlock ==
    /\ pc = -1 /\ at < Len(prog)
    /\ blocks' = Append(blocks, [stmts |-> <<>>, term |-> Term("Unreachable", C(0), <<>>)])
    /\ regs' = [r \in RegNames |-> SeedAt(CHOOSE i \in 1 .. Len(AbiRegs) : AbiRegs[i] = Wide(r))]
    /\ names' = [id \in DOMAIN names \cup {SeedAt(i) : i \in 1 .. Len(AbiRegs)} |->
                    IF id \in DOMAIN names THEN names[id] ELSE AbiRegs[id - nextId + 1]]
    /\ nextId' = nextId + Len(AbiRegs)
    /\ pc' = 0
    /\ UNCHANGED prog

insn == Code[pc + 1]

R(r) == V(regs[r])

\* Mutation: the last id is given out again.
LiftedShort(stmts, set, fresh) ==
    /\ blocks' = [blocks EXCEPT ![at] = [stmts |-> @.stmts \o stmts, term |-> @.term]]
    /\ regs' = [r \in DOMAIN regs |-> IF r \in DOMAIN set THEN set[r] ELSE regs[r]]
    /\ nextId' = nextId + Max({fresh - 1, 0})
    /\ pc' = pc + 1
    /\ UNCHANGED <<prog, names>>

\* The statements, the registers they set and the number of fresh ids.
Lifted(stmts, set, fresh) ==
    /\ blocks' = [blocks EXCEPT ![at] = [stmts |-> @.stmts \o stmts, term |-> @.term]]
    /\ regs' = [r \in DOMAIN regs |-> IF r \in DOMAIN set THEN set[r] ELSE regs[r]]
    /\ nextId' = nextId + fresh
    /\ pc' = pc + 1
    /\ UNCHANGED <<prog, names>>

Ready(ops) == pc >= 0 /\ pc < Len(Code) /\ insn.op \in ops

\* reg_name_to_placeholder_id: no id is ever seeded for rip.
RipId == 916

Base ==
    CASE insn.base = "none" -> C(0)
      [] insn.base = "rip" -> V(RipId)
      [] OTHER -> R(insn.base)

\* One more statement, under the next id, and what stands for the last one.
Then(stmts, op, args) == Append(stmts, Assign(nextId + Len(stmts), op, args))

LastOr(stmts, v) == IF stmts = <<>> THEN v ELSE V(nextId + Len(stmts) - 1)

\* emit_addr: the index, the displacement and the cast to a pointer.
Scaled == IF insn.scale = 1 THEN <<>> ELSE Then(<<>>, "Mul", <<R(insn.index), C(insn.scale)>>)

Indexed ==
    IF insn.index = "none" THEN <<>> ELSE Then(Scaled, "Add", <<Base, LastOr(Scaled, R(insn.index))>>)

Displaced ==
    IF insn.disp = 0 THEN Indexed
    ELSE Then(Indexed, IF insn.disp < 0 THEN "Sub" ELSE "Add",
              <<LastOr(Indexed, Base), C(IF insn.disp < 0 THEN -insn.disp ELSE insn.disp)>>)

Address == Then(Displaced, "Cast", <<LastOr(Displaced, Base)>>)

Pointer == nextId + Len(Address) - 1

One(r, id) == [x \in {r} |-> id]

\* Two registers; the first id if they are the same.
Both(r, id, q, other) == [x \in {r, q} |-> IF x = r THEN id ELSE other]

\* The id of a memory operand where no load can be emitted.
NoLoad == 9999

\* operand_to_val: a number, a register, or what is in memory, not loaded.
Operand ==
    CASE insn.src = "imm" -> C(insn.val)
      [] insn.src = "mem" -> V(NoLoad)
      [] OTHER -> R(insn.src)

\* Mutation: only the name in the instruction is set.
MovedAlone(before, value, id) ==
    Lifted(Append(before, value), One(insn.dst, id), id + 1 - nextId)

\* lift_mov, its second half: a 32-bit destination is also extended into the
\* 64-bit register, under an id of its own.
Moved(before, value, id) ==
    IF Narrow(insn.dst)
    THEN Lifted(before \o <<value, Assign(id + 1, "Cast", <<V(id)>>)>>,
                Both(insn.dst, id, Wide(insn.dst), id + 1), id + 2 - nextId)
    ELSE Lifted(Append(before, value), One(insn.dst, id), id + 1 - nextId)

LiftMov ==
    /\ Ready({"mov"})
    /\ LET same == Narrow(insn.dst) = Narrow(insn.src)
       IN  Moved(<<>>, Assign(nextId, IF same THEN "Value" ELSE "Cast", <<Operand>>), nextId)

\* Sign extension is a cast, of whatever the source is.
LiftMovsx ==
    /\ Ready({"movsx"})
    /\ Moved(<<>>, Assign(nextId, "Cast", <<Operand>>), nextId)

LiftStore ==
    /\ Ready({"store"})
    /\ Lifted(Append(Address, Store(V(Pointer), Operand)), <<>>, Len(Address))

LiftLoad ==
    /\ Ready({"load"})
    /\ Moved(Address, Assign(Pointer + 1, "Load", <<V(Pointer)>>), Pointer + 1)

\* An address from rip is known.
LiftLeaRip ==
    /\ Ready({"lea"}) /\ insn.base = "rip"
    /\ Lifted(<<Assign(nextId, "Value", <<C(insn.val)>>)>>, One(insn.dst, nextId), 1)

LiftLea ==
    /\ Ready({"lea"}) /\ insn.base # "rip"
    /\ Lifted(Append(Address, Assign(Pointer + 1, "Cast", <<V(Pointer)>>)),
              One(insn.dst, Pointer + 1), Len(Address) + 1)

BinOp == [add |-> "Add", sub |-> "Sub", cmp |-> "Sub", imul |-> "Mul", test |-> "And",
          inc |-> "Add", dec |-> "Sub"]

\* The zero flag is a value of its own.  The result goes under the name the
\* instruction has for the register, and no other; cmp and test keep none.
LiftBinop ==
    /\ Ready({"add", "sub", "cmp", "imul", "test"})
    /\ Lifted(<<Assign(nextId, BinOp[insn.op], <<R(insn.dst), Operand>>),
                Assign(nextId + 1, "Eq", <<V(nextId), C(0)>>)>>,
              IF insn.op \in {"cmp", "test"} THEN <<>> ELSE One(insn.dst, nextId), 2)

\* inc, dec, neg and not set no flag.
LiftUnary ==
    /\ Ready({"inc", "dec", "neg", "not"})
    /\ LET dst == R(insn.dst)
       IN  Lifted(<<CASE insn.op = "neg" -> Assign(nextId, "Sub", <<C(0), dst>>)
                      [] insn.op = "not" -> Assign(nextId, "Not", <<dst>>)
                      [] OTHER -> Assign(nextId, BinOp[insn.op], <<dst, C(1)>>)>>,
                  One(insn.dst, nextId), 1)

\* The dividend is rax alone.
LiftDiv ==
    /\ Ready({"div"})
    /\ Lifted(<<Assign(nextId, "UDiv", <<R("rax"), Operand>>),
                Assign(nextId + 1, "URem", <<R("rax"), Operand>>)>>,
              Both("rax", nextId, "rdx", nextId + 1), 2)

\* Both operands are taken for pointers, and neither is set.
LiftXchg ==
    /\ Ready({"xchg"})
    /\ Lifted(<<Assign(nextId, "Value", <<Operand>>),
                Store(Operand, R(insn.dst)), Store(R(insn.dst), V(nextId))>>, <<>>, 1)

\* xor of a register with itself.
LiftZero ==
    /\ Ready({"zero"})
    /\ Lifted(<<Assign(nextId, "Value", <<C(0)>>)>>, One(insn.dst, nextId), 1)

\* add or sub to memory: neither a load nor a store.
LiftBinopMem ==
    /\ Ready({"addmem"})
    /\ Lifted(<<Assign(nextId, "Add", <<V(NoLoad), Operand>>),
                Assign(nextId + 1, "Eq", <<V(nextId), C(0)>>)>>, <<>>, 2)

LiftPush ==
    /\ Ready({"push"})
    /\ Lifted(<<Assign(nextId, "Sub", <<R("rsp"), C(8)>>), Store(V(nextId), Operand)>>,
              One("rsp", nextId), 1)

\* The stack pointer is read again after the destination is set.
PoppedRsp(r, id) == IF r = "rsp" THEN V(id) ELSE R("rsp")

LiftPop ==
    /\ Ready({"pop"})
    /\ Lifted(<<Assign(nextId, "Load", <<R("rsp")>>),
                Assign(nextId + 1, "Add", <<PoppedRsp(insn.dst, nextId), C(8)>>)>>,
              Both("rsp", nextId + 1, insn.dst, nextId), 2)

LiftLeave ==
    /\ Ready({"leave"})
    /\ Lifted(<<Assign(nextId, "Value", <<R("rbp")>>),
                Assign(nextId + 1, "Load", <<V(nextId)>>),
                Assign(nextId + 2, "Add", <<V(nextId), C(8)>>)>>,
              Both("rbp", nextId + 1, "rsp", nextId + 2), 3)

Target == IF insn.indirect THEN Through(Operand) ELSE ToAddress("Direct", insn.val)

LiftCall ==
    /\ Ready({"call"})
    /\ Lifted(<<CallTo(nextId, Target, [i \in 1 .. Len(ArgRegs) |-> R(ArgRegs[i])])>>,
              One("rax", nextId), 1)

ToKernel == ToAddress("Syscall", 0)

LiftSyscall ==
    /\ Ready({"syscall"})
    /\ Lifted(<<CallTo(nextId, ToKernel, [i \in 1 .. Len(SysRegs) |-> R(SysRegs[i])])>>,
              One("rax", nextId), 1)

LiftNop == Ready({"nop"}) /\ Lifted(<<Nop>>, <<>>, 0)

\* String instructions and all the lifter does not know: a text nobody reads.
LiftOpaque == Ready({"opaque"}) /\ Lifted(<<Assign(nextId, "Opaque", <<>>)>>, <<>>, 1)

\* The block is done; Return returns what rax has.
EndBlock ==
    /\ pc >= 0 /\ pc = Len(Code)
    /\ LET end == prog[at].end
           term == Term(end, IF end = "Return" THEN R("rax") ELSE C(0), prog[at].to)
       IN  blocks' = [blocks EXCEPT ![at] = [stmts |-> @.stmts, term |-> term]]
    /\ pc' = -1
    /\ UNCHANGED <<prog, names, nextId, regs>>

LiftNext ==
    \/ SeedBlock \/ LiftMov \/ LiftMovsx \/ LiftStore \/ LiftLoad \/ LiftLeaRip \/ LiftLea
    \/ LiftBinop \/ LiftUnary \/ LiftDiv \/ LiftXchg \/ LiftZero \/ LiftBinopMem
    \/ LiftPush \/ LiftPop \/ LiftLeave \/ LiftCall \/ LiftSyscall
    \/ LiftNop \/ LiftOpaque \/ EndBlock
=============================================================================
