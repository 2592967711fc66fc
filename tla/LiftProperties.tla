--------------------------- MODULE LiftProperties ---------------------------
(***************************************************************************)
(* What lift_function must keep on the way, with the meaning of statements *)
(* and of instructions as terms.                                           *)
(***************************************************************************)
EXTENDS LiftPasses

Stages == {"lift", "dead1", "constants", "frame", "spills", "flatten", "dead2", "canary",
           "patch", "dead3", "arguments", "done"}

Ids == 0 .. nextId - 1

(***************************************************************************)
(* Static single assignment: an id is assigned by at most one statement of *)
(* the whole function, and the id a register starts a block with by none.  *)
(***************************************************************************)
SingleAssignment ==
    \A p \in Positions :
        IsAssign(StmtAt(p)) =>
            /\ StmtAt(p).lhs \in Ids \ DOMAIN names
            /\ \A q \in Positions :
                IsAssign(StmtAt(q)) /\ StmtAt(q).lhs = StmtAt(p).lhs => p = q

-----------------------------------------------------------------------------
(* What statements and instructions do, as terms over what the registers   *)
(* and the memory hold when the block is entered.                          *)

Input(r) == <<"in", r>>
Num(k)   == <<"const", k>>

Sum(op, l, r) ==
    IF l[1] = "const" /\ r[1] = "const" /\ op \in {"Add", "Sub", "Mul"}
    THEN Num(CASE op = "Add" -> l[2] + r[2] [] op = "Sub" -> l[2] - r[2] [] op = "Mul" -> l[2] * r[2])
    ELSE <<op, l, r>>

Complement(t) == IF t[1] = "const" THEN Num(-1 - t[2]) ELSE <<"Not", t>>

\* m.env has the ids computed, m.cells the slots written, m.eff the stores
\* and calls in order, m.ver how often other memory may have changed.
ValueIn(m, v) ==
    CASE ~v.var -> Num(v.n)
      [] v.var /\ v.n \in DOMAIN m.env -> m.env[v.n]
      [] v.var /\ v.n \notin DOMAIN m.env /\ v.n \in DOMAIN names -> Input(names[v.n])
      [] OTHER -> <<"id", v.n>>

Bound(f, x, y) == [z \in DOMAIN f \cup {x} |-> IF z = x THEN y ELSE f[z]]

SlotPtr(s) == s.args[1].var /\ IsSlot(s.args[1].n)

Callee(m, t) ==
    CASE t.kind = "Indirect" -> ValueIn(m, t.val)
      [] t.kind = "Syscall" -> <<"syscall">>
      [] OTHER -> Num(t.n)

StmtDoes(m, s) ==
    LET arg(i) == ValueIn(m, s.args[i])
        set(t) == [m EXCEPT !.env = Bound(@, s.lhs, t)]
    IN  CASE IsOp(s, {"Value", "Cast", "Symbol"}) -> set(arg(1))
          [] IsOp(s, {"Not"}) -> set(Complement(arg(1)))
          [] IsOp(s, Arithmetic \ {"Not"}) -> set(Sum(s.op, arg(1), arg(2)))
          [] IsLoad(s) /\ SlotPtr(s) ->
                set(IF s.args[1].n \in DOMAIN m.cells THEN m.cells[s.args[1].n]
                                                      ELSE <<"cell", s.args[1].n>>)
          [] IsLoad(s) /\ ~SlotPtr(s) -> set(<<"load", arg(1), m.ver>>)
          [] IsOp(s, {"Call"}) ->
                [set(<<"result", m.ver>>) EXCEPT
                    !.eff = Append(@, <<"call", Callee(m, s.target), [i \in 1 .. Len(s.args) |-> arg(i)]>>),
                    !.ver = @ + 1]
          [] IsStore(s) /\ SlotPtr(s) ->
                [m EXCEPT !.cells = Bound(@, s.args[1].n, arg(2)),
                          !.eff = Append(@, <<"slot", s.args[1].n, arg(2)>>)]
          [] IsStore(s) /\ ~SlotPtr(s) ->
                [m EXCEPT !.eff = Append(@, <<"store", arg(1), arg(2)>>), !.ver = @ + 1]
          [] OTHER -> m

StmtsDo(stmts) ==
    FoldLeft(StmtDoes, [env |-> <<>>, cells |-> <<>>, eff |-> <<>>, ver |-> 0], stmts)

\* What is seen of a block from outside: its effects and what it returns.
Meaning(stmts, term) ==
    LET m == StmtsDo(stmts)
    IN  [eff |-> m.eff, returns |-> IF term.kind = "Return" THEN ValueIn(m, term.val) ELSE Num(0)]

\* What instructions do: m.reg has the 64-bit registers.  m.stale are the names
\* that do not follow what was written under another name of the register, and
\* m.known says that nothing was computed with a stale name or an operand in
\* memory that is not loaded, none of it at an address from rip, and that what the lifter has no statements for did not occur.
Held(m, r) == m.reg[Wide(r)]

Given(m, i) ==
    CASE i.src = "imm" -> Num(i.val)
      [] i.src = "mem" -> <<"mem">>
      [] OTHER -> Held(m, i.src)

AddressOf(m, i) ==
    LET base == IF i.base = "none" THEN Num(0) ELSE Held(m, i.base)
        off(t) == CASE i.disp = 0 -> t
                    [] i.disp < 0 -> Sum("Sub", t, Num(-i.disp))
                    [] OTHER -> Sum("Add", t, Num(i.disp))
        times == IF i.scale = 1 THEN Held(m, i.index) ELSE Sum("Mul", Held(m, i.index), Num(i.scale))
    IN  CASE i.base = "rip" -> Num(i.val)
          [] i.base # "rip" /\ i.index = "none" -> off(base)
          [] OTHER -> off(Sum("Add", base, times))

NamesRead(i) ==
    CASE i.op \in {"mov", "movsx"} -> {i.src}
      [] i.op = "store" -> {i.base, i.index, i.src}
      [] i.op = "load" -> {i.base, i.index}
      [] i.op = "lea" -> {i.base, i.index} \ {"rip"}
      [] i.op \in {"add", "sub", "cmp", "imul", "test"} -> {i.dst, i.src}
      [] i.op \in {"inc", "dec", "neg", "not"} -> {i.dst}
      [] i.op = "div" -> {"rax", i.src}
      [] i.op = "push" -> {i.src, "rsp"}
      [] i.op = "pop" -> {"rsp"}
      [] i.op = "leave" -> {"rbp"}
      [] i.op = "call" -> ToSet(ArgRegs) \cup (IF i.indirect THEN {i.src} ELSE {})
      [] i.op = "syscall" -> ToSet(SysRegs)
      [] OTHER -> {}

NamesWritten(i) ==
    CASE i.op \in {"mov", "movsx", "load"} -> {i.dst, Wide(i.dst)}
      [] i.op \in {"lea", "add", "sub", "imul", "inc", "dec", "neg", "not", "zero"} -> {i.dst}
      [] i.op = "div" -> {"rax", "rdx"}
      [] i.op = "push" -> {"rsp"}
      [] i.op = "pop" -> {i.dst, "rsp"}
      [] i.op = "leave" -> {"rbp", "rsp"}
      [] i.op \in {"call", "syscall"} -> {"rax"}
      [] OTHER -> {}

Follows(m, i) ==
    LET written == NamesWritten(i)
        read == NamesRead(i)
    IN  [m EXCEPT !.known = /\ @ /\ i.op \notin {"addmem", "xchg", "opaque"}
                            /\ read \cap m.stale = {} /\ read \cap {"mem", "rip"} = {},
                  !.stale = (@ \ written) \cup
                            {n \in RegNames \ written : \E w \in written : Wide(w) = Wide(n)}]

Effect(m, i) ==
    LET put(r, t) == [m EXCEPT !.reg[Wide(r)] = t]
        write(n, a, t) == [n EXCEPT !.eff = Append(@, <<"store", a, t>>), !.ver = @ + 1]
        pop(n, r) == [n EXCEPT !.reg = [@ EXCEPT !["rsp"] = Sum("Add", n.reg["rsp"], Num(8)),
                                                 ![r] = <<"load", n.reg["rsp"], n.ver>>]]
        call(f, given) ==
            [put("rax", <<"result", m.ver>>) EXCEPT
                !.eff = Append(@, <<"call", f, [a \in 1 .. Len(given) |-> m.reg[given[a]]]>>),
                !.ver = @ + 1]
    IN  CASE i.op \in {"mov", "movsx"} -> put(i.dst, Given(m, i))
          [] i.op = "zero" -> put(i.dst, Num(0))
          [] i.op = "lea" -> put(i.dst, AddressOf(m, i))
          [] i.op = "load" -> put(i.dst, <<"load", AddressOf(m, i), m.ver>>)
          [] i.op = "store" -> write(m, AddressOf(m, i), Given(m, i))
          [] i.op = "add" -> put(i.dst, Sum("Add", Held(m, i.dst), Given(m, i)))
          [] i.op = "sub" -> put(i.dst, Sum("Sub", Held(m, i.dst), Given(m, i)))
          [] i.op = "imul" -> put(i.dst, Sum("Mul", Held(m, i.dst), Given(m, i)))
          [] i.op = "inc" -> put(i.dst, Sum("Add", Held(m, i.dst), Num(1)))
          [] i.op = "dec" -> put(i.dst, Sum("Sub", Held(m, i.dst), Num(1)))
          [] i.op = "neg" -> put(i.dst, Sum("Sub", Num(0), Held(m, i.dst)))
          [] i.op = "not" -> put(i.dst, Complement(Held(m, i.dst)))
          [] i.op = "div" ->
                \* The dividend is rdx and rax together.
                [m EXCEPT !.known = @ /\ m.reg["rdx"] = Num(0),
                          !.reg = [@ EXCEPT !["rax"] = Sum("UDiv", @, Given(m, i)),
                                            !["rdx"] = Sum("URem", m.reg["rax"], Given(m, i))]]
          [] i.op = "push" ->
                LET top == Sum("Sub", m.reg["rsp"], Num(8))
                IN  write(put("rsp", top), top, Given(m, i))
          [] i.op = "pop" -> pop(m, i.dst)
          [] i.op = "leave" -> pop(put("rsp", m.reg["rbp"]), "rbp")
          [] i.op = "call" -> call(IF i.indirect THEN Given(m, i) ELSE Num(i.val), ArgRegs)
          [] i.op = "syscall" -> call(<<"syscall">>, SysRegs)
          [] OTHER -> m

InsnsDo(insns) ==
    FoldLeft(LAMBDA m, i : Follows(Effect(m, i), i),
             [reg |-> [r \in Registers |-> Input(r)], eff |-> <<>>, ver |-> 0,
              stale |-> {}, known |-> TRUE], insns)

-----------------------------------------------------------------------------
(* Lifting.                                                                *)

Done == InsnsDo(SubSeq(Code, 1, pc))

Rendered == StmtsDo(blocks[at].stmts)

(***************************************************************************)
(* x86.rs: after any number of instructions of a block its statements have *)
(* done what the instructions do: the same stores and calls in the same    *)
(* order, and each name that is not stale stands for the register's value. *)
(* No claim once a stale name or a memory operand was computed with, after *)
(* xchg and opaque instructions, or if div has more than rax to divide.    *)
(***************************************************************************)
StatementsDoTheCode ==
    stage = "lift" /\ pc >= 0 /\ Done.known =>
        /\ Rendered.eff = Done.eff
        /\ \A r \in RegNames \ Done.stale : ValueIn(Rendered, R(r)) = Held(Done, r)

-----------------------------------------------------------------------------
(* Dead assignments and constants.                                         *)

DefinedAt(id, b, i) == IsAssign(blocks[b].stmts[i]) /\ blocks[b].stmts[i].lhs = id

\* What control is handed to by an indirect call.
TargetReads(s) == IF s.target.kind = "Indirect" THEN VarsOf(<<s.target.val>>) ELSE {}

\* All a statement depends on; the lifter's own Reads leaves the target out.
DependsOn(s) == Reads(s) \cup TargetReads(s)

\* The ids that block b, and no other, starts with: every block gives each
\* register one.
SeededBefore(id) == {x \in SeedsOf(names[id]) : x < id}

SeedsIn(b) == {id \in DOMAIN names : Cardinality(SeededBefore(id)) = b - 1}

\* And the two ids nothing ever computes, in blocks with an instruction that
\* has an operand in memory where the lifter emits no load, or an address from rip.
Unloaded(b) ==
    IF \E i \in ToSet(prog[b].insns) : i.src = "mem" \/ i.op = "addmem" THEN {NoLoad} ELSE {}

FromRipIn(b) ==
    IF \E i \in ToSet(prog[b].insns) : i.op \in {"load", "store"} /\ i.base = "rip" THEN {RipId} ELSE {}

AtEntry(b) == SeedsIn(b) \cup Unloaded(b) \cup FromRipIn(b)

\* id is there for statement i of block b.
There(id, b, i) == id \in AtEntry(b) \/ \E j \in 1 .. i - 1 : DefinedAt(id, b, j)

(***************************************************************************)
(* lib.rs:341-388: until frame analysis moves statements, what a statement *)
(* or terminator reads its own block starts with, or computes before it: a *)
(* block never looks at another's values, and no round on dead assignments *)
(* drops what is still read.  While blocks are lifted this goes for the    *)
(* targets of indirect calls too; later it does not, see TargetsAreThere.  *)
(***************************************************************************)
ReadsAreDefined ==
    stage \in {"lift", "dead1", "constants", "frame"} =>
        \A b \in DOMAIN blocks :
            LET n == Len(blocks[b].stmts)
                reads(s) == IF stage = "lift" THEN DependsOn(s) ELSE Reads(s)
            IN  /\ \A i \in 1 .. n : \A id \in reads(blocks[b].stmts[i]) : There(id, b, i)
                /\ \A id \in TermReads(blocks[b].term) : There(id, b, n + 1)

(***************************************************************************)
(* lib.rs:341-346: an assignment is dropped only if nothing reads it, what *)
(* computes the target of an indirect call included.  Not so: see README.  *)
(***************************************************************************)
TargetsAreThere ==
    stage \in {"lift", "dead1", "constants", "frame"} =>
        \A b \in DOMAIN blocks : \A i \in 1 .. Len(blocks[b].stmts) :
            \A id \in TargetReads(blocks[b].stmts[i]) : There(id, b, i)

MeaningOf(block) == Meaning(block.stmts, block.term)

(***************************************************************************)
(* resolve_constants: what a block stores, calls and returns is the same   *)
(* with symbols in the place of arithmetic.                                *)
(***************************************************************************)
ConstantsKeepValues ==
    [][ stage = "constants" => \A b \in DOMAIN blocks : MeaningOf(blocks'[b]) = MeaningOf(blocks[b]) ]_vars

-----------------------------------------------------------------------------
(* The frame and its slots.                                                *)

\* Slot x is stored to before it is loaded, in one block.
StoredFirst(x) ==
    \E b \in DOMAIN blocks : \E i, j \in 1 .. Len(blocks[b].stmts) :
        i < j /\ StoresTo(blocks[b].stmts[i], x) /\ Loads(blocks[b].stmts[j], x)

\* Stores to the slots that go away are not part of what is kept.
Apart(m) == [m EXCEPT !.eff = SelectSeq(@, LAMBDA e : ~(e[1] = "slot" /\ e[2] \in DOMAIN stored))]

(***************************************************************************)
(* copy_propagate_slots (lib.rs:557-565): where every slot it takes is     *)
(* stored to before it is loaded, and in the same block, each block keeps  *)
(* its other stores, its calls and what it returns, through chains of      *)
(* copies and cycles of them.                                              *)
(***************************************************************************)
PropagationIsCopy ==
    [][ stage = "flatten" /\ stage' = "dead2" /\ (\A x \in DOMAIN stored : StoredFirst(x)) =>
            \A b \in DOMAIN blocks : MeaningOf(blocks'[b]) = Apart(MeaningOf(blocks[b])) ]_vars

-----------------------------------------------------------------------------
(* The canary, and the end.                                                *)

Goals(b) == ToSet(blocks[b].term.to)

(***************************************************************************)
(* frame.rs, eliminate_canary: terminators and edges tell the same story,  *)
(* but for the blocks that fail.                                           *)
(***************************************************************************)
EdgesFollowTerms ==
    stage # "lift" =>
        \A b \in DOMAIN blocks \ (IF stage \in {"dead3", "arguments", "done"} THEN fails ELSE {}) :
            Goals(b) = {e.to : e \in {x \in edges : x.from = b}}

(***************************************************************************)
(* From the blocks that do not fail control goes on to all it went to, but *)
(* to those that fail.                                                     *)
(***************************************************************************)
OnlyFailsAreCut ==
    stage \in {"patch", "dead3", "arguments", "done"} =>
        \A b \in DOMAIN blocks \ fails : Goals(b) \ fails = ToSet(prog[b].to) \ fails

(***************************************************************************)
(* The passes end: every round of dead assignments drops one, and chains   *)
(* of copies, which may go round in circles, are followed 16 times.        *)
(***************************************************************************)
PassesEnd == <>(stage = "done")
=============================================================================
