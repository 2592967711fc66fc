------------------------------- MODULE CText -------------------------------
(***************************************************************************)
(* The statements of a lifted function as CBackend prints them             *)
(* (crates/rustdec-codegen/src/c.rs): copies are not printed but replaced  *)
(* where they are read, and calls lose arguments.  Types are left out, and *)
(* a value stays a value: how it is spelled is no subject here.            *)
(***************************************************************************)
EXTENDS LiftProperties

\* libc_signatures: how many arguments the functions it knows take; variadic
\* ones are not in it.
CONSTANT Arity

ASSUME ArityAssumption == DOMAIN Arity \subseteq Functions

-----------------------------------------------------------------------------
(* The copy table.                                                         *)

\* Mutation: what is loaded counts as a copy of its address.
CopiesOrLoads == {s \in ToSet(AllStmts) : IsOp(s, {"Value", "Load"})}

Copies == {s \in ToSet(AllStmts) : IsOp(s, {"Value"})}

Assigning(id) == {p \in Positions : IsAssign(StmtAt(p)) /\ StmtAt(p).lhs = id}

CopyTable ==
    [id \in {s.lhs : s \in {c \in Copies : Cardinality(Assigning(c.lhs)) = 1}} |->
        (CHOOSE s \in Copies : s.lhs = id).args[1]]

\* One step along the table.
Hop(table, v) == IF v.var /\ v.n \in DOMAIN table THEN table[v.n] ELSE v

\* flatten_copies: each round looks up what the round before has.
Flattened(table) ==
    FoldLeft(LAMBDA t, k : [id \in DOMAIN t |-> Hop(t, t[id])], table, [k \in 1 .. Rounds |-> k])

\* resolve: a table without a cycle needs no more steps than it has entries.
Root(table, v) ==
    FoldLeft(LAMBDA u, k : Hop(table, u), v, [k \in 1 .. Cardinality(DOMAIN table) |-> k])

\* resolve calls itself without end: the table has a cycle.
Endless(table, v) == LET u == Root(table, v) IN u.var /\ u.n \in DOMAIN table

-----------------------------------------------------------------------------
(* Statements.                                                             *)

ArgsOf(s) ==
    IF s.target.kind = "Named" /\ s.target.n \in DOMAIN Arity
    THEN Min({Arity[s.target.n], Len(s.args)}) ELSE Len(s.args)

\* codegen_reg_names.
IsParameter(id) == id \in DOMAIN names /\ \E i \in 1 .. params : ArgRegs[i] = names[id]

\* written.contains(id): a register the function found as it is gives no argument.
Passed(v) == v.var => v.n \in Written

\* A system call's number is always there.
GivenArgs(s, args) ==
    IF s.target.kind = "Syscall" THEN <<Head(args)>> \o SelectSeq(Tail(args), Passed)
                                 ELSE SelectSeq(SubSeq(args, 1, ArgsOf(s)), Passed)

\* Only an indirect target is a value that can be a copy.
ResolvedCallee(t, table) == IF t.kind = "Indirect" THEN Through(Root(table, t.val)) ELSE t

\* emit_stmt_opt, as a sequence of one statement or none.
Printed(s, table) ==
    LET args == [i \in 1 .. Len(s.args) |-> Root(table, s.args[i])]
    IN  CASE s.kind = "Nop" -> <<>>
          [] IsAssign(s) /\ (s.lhs \in DOMAIN table \/ IsSlot(s.lhs) \/ IsParameter(s.lhs)) -> <<>>
          [] IsStore(s) /\ args[1] = C(0) -> <<>>
          [] IsOp(s, {"Call"}) -> <<[s EXCEPT !.args = GivenArgs(s, args), !.target = ResolvedCallee(@, table)]>>
          [] OTHER -> <<[s EXCEPT !.args = args]>>

\* The blocks one after the other.
Text == LET table == Flattened(CopyTable)
        IN  FlattenSeq([i \in 1 .. Len(AllStmts) |-> Printed(AllStmts[i], table)])

-----------------------------------------------------------------------------
(* What the printed statements must keep of the statements.                *)

\* A call with the arguments its function takes.
Fitting(s) == IF IsOp(s, {"Call"}) THEN [s EXCEPT !.args = SubSeq(@, 1, ArgsOf(s))] ELSE s

\* The effects, but for arguments that are what the function found in a register.
Effects(stmts) ==
    LET eff == StmtsDo(stmts).eff
    IN  [i \in 1 .. Len(eff) |->
            IF eff[i][1] = "call"
            THEN [eff[i] EXCEPT ![3] = SelectSeq(@, LAMBDA t : t[1] # "in")] ELSE eff[i]]

(***************************************************************************)
(* With copies gone and their sources in their place (c.rs:87-89, 257-280) *)
(* the text has the stores and calls of the statements, in their order and *)
(* with the same values, where no copies go round in a circle.             *)
(***************************************************************************)
TextDoesTheStatements ==
    stage = "done" /\ (\A id \in DOMAIN CopyTable : ~Endless(CopyTable, V(id))) =>
        Effects(Text) = Effects([i \in 1 .. Len(AllStmts) |-> Fitting(AllStmts[i])])
=============================================================================
