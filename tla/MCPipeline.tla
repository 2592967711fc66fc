----------------------------- MODULE MCPipeline -----------------------------
(***************************************************************************)
(* Small files: code in two sections with a hole between them, in either   *)
(* order in the file, or both at one address as in a relocatable object.   *)
(***************************************************************************)
EXTENDS Pipeline

Insn1(a, n, does, mode, v) == [addr |-> a, size |-> n, does |-> does, mode |-> mode, val |-> v]

Plain(a, n) == Insn1(a, n, "other", "none", 0)

\* To an instruction, into one, into the hole, after the code, to a small
\* number; through memory and a register.
Calls(a, n) ==
    {Insn1(a, n, "call", "imm", v) : v \in {2, 5, 6, 8, 9}}
        \cup {Insn1(a, n, "call", "mem", 4), Insn1(a, n, "call", "reg", 0)}

\* An exit; a jump or branch back, ahead, into the next section and behind.
Leaves(a, n) ==
    {Insn1(a, n, "leave", "none", 0)} \cup {Insn1(a, n, "leave", "imm", v) : v \in {3, 5, 8, 9}}

Firsts == {<<Plain(3, 1), i, Plain(5, 1)>> : i \in Calls(4, 1)}
            \cup {<<i, j>> : i \in Calls(3, 2), j \in Calls(5, 1)}
            \cup {<<Plain(3, 1), i>> : i \in Leaves(4, 1)}
            \cup {<<i, Insn1(5, 1, "call", "imm", 8)>> : i \in Leaves(3, 2)}

\* Decoded at the address of the first: a plain instruction, one that runs on
\* into the next, a call, an exit; and an instruction over an entry at 5.
Others == {<<Plain(3, 1)>>, <<Plain(3, 2)>>, <<Insn1(3, 1, "call", "imm", 5)>>,
           <<Insn1(3, 1, "leave", "none", 0)>>, <<Plain(4, 3)>>}

Second(i) == [va |-> 7, size |-> 3, insns |-> <<Plain(7, 1), i>>]

Files ==
    UNION {{<<[va |-> 3, size |-> 3, insns |-> f], Second(i)>>,
            <<Second(i), [va |-> 3, size |-> 3, insns |-> f]>>} :
                f \in Firsts, i \in {Plain(8, 1), Insn1(8, 1, "call", "imm", 3)}}
    \cup {<<[va |-> 3, size |-> 3, insns |-> f], [va |-> 3, size |-> 3, insns |-> g]>> :
            f \in Firsts, g \in Others}
    \cup {<<>>, <<[va |-> 3, size |-> 2, insns |-> <<>>]>>}

Sym(a, n, k) == [addr |-> a, name |-> <<n, 0>>, kind |-> k]

\* Aliases, namesakes, an import at its stub, a function outside the code.
Tables ==
    {<<>>, <<Sym(5, "f", "Function"), Sym(5, "g", "Function")>>,
     <<Sym(3, "f", "Function"), Sym(8, "f", "Function")>>,
     <<Sym(0, "puts", "Import"), Sym(8, "puts", "Import")>>,
     <<Sym(7, "o", "Object"), Sym(12, "f", "Function")>>}

McObjects ==
    [entry : {0, 3, 5}, sections : Files, strings : {{}}, dwarf : {<<>>}, symbols : Tables]
    \cup [entry : {3, 20}, sections : Files, strings : {{8}},
          dwarf : {<<Sym(8, "f", "Function")>>}, symbols : {<<Sym(5, "g", "Function")>>}]
=============================================================================
