------------------------------ MODULE MCLifter ------------------------------
(***************************************************************************)
(* Functions of two or three blocks, framed as compilers frame them.       *)
(***************************************************************************)
EXTENDS CText

Blank == [op |-> "", dst |-> "rax", src |-> "rax", base |-> "rbp",
          index |-> "none", scale |-> 1, disp |-> 0, val |-> 0,
          indirect |-> FALSE]

I(op) == [Blank EXCEPT !.op = op]
St(base, disp, src) == [I("store") EXCEPT !.base = base, !.disp = disp, !.src = src]
Ld(dst, base, disp) == [I("load") EXCEPT !.dst = dst, !.base = base, !.disp = disp]
Lea(dst, base, disp) == [I("lea") EXCEPT !.dst = dst, !.base = base, !.disp = disp]
Indexed4(i, index) == [i EXCEPT !.index = index, !.scale = 4]
FromRip(i, k) == [i EXCEPT !.base = "rip", !.val = k]
Imm(dst, k) == [I("mov") EXCEPT !.dst = dst, !.src = "imm", !.val = k]
Mov(dst, src) == [I("mov") EXCEPT !.dst = dst, !.src = src]
Push(r) == [I("push") EXCEPT !.src = r]
Pop(r) == [I("pop") EXCEPT !.dst = r]
Op(op, r, k) == [I(op) EXCEPT !.dst = r, !.src = "imm", !.val = k]
SubK(r, k) == Op("sub", r, k)
CmpK(r, k) == Op("cmp", r, k)
Un(op, r) == [I(op) EXCEPT !.dst = r]
Two(op, dst, src) == [I(op) EXCEPT !.dst = dst, !.src = src]
Zero(r) == [I("zero") EXCEPT !.dst = r]
Call(k) == [I("call") EXCEPT !.val = k]
CallReg(r) == [I("call") EXCEPT !.src = r, !.indirect = TRUE]

McAbi == <<"rdi", "rax", "rbx", "rdx", "rsp", "rbp">>
McAlias == [n \in {"eax"} |-> "rax"]
McArgs == <<"rdi">>
McSys == <<"rax", "rdi", "rdx">>

Framed == <<Push("rbp"), Mov("rbp", "rsp"), SubK("rsp", 16)>>
Frameless == <<SubK("rsp", 16)>>

Entries == {Framed, Frameless, <<Push("rbx"), Push("rbp"), Mov("rbp", "rsp")>>, <<>>}

Exits == {<<I("leave")>>, <<Pop("rbp")>>, <<>>}

Bodies == {St("rbp", -8, "rdi"), St("rbp", -16, "rax"), St("rsp", 8, "rax"), Ld("rax", "rbp", -8),
           Ld("eax", "rsp", 8), Lea("rdi", "rbp", -8), Imm("rdi", 50), Imm("eax", 58),
           Mov("rdi", "eax"), SubK("rax", 8), Op("add", "eax", 1), Zero("eax"),
           Op("addmem", "rax", 1), Call(40), CallReg("rax"), Push("rax")}

\* The rest of the instructions.
Others == {Two("movsx", "eax", "mem"), Two("movsx", "rdi", "eax"), Two("add", "rax", "mem"),
           Un("inc", "eax"), Un("dec", "rax"), Un("neg", "rax"), Un("not", "rdi"),
           Op("imul", "rax", 5), Two("test", "rax", "rax"), Two("xchg", "rdi", "rax"), Two("xchg", "rax", "mem"),
           Indexed4(Ld("rax", "rdi", 0), "rbx"), [Lea("rdi", "none", 8) EXCEPT !.index = "rax"],
           Indexed4(St("none", 0, "rax"), "rdi"), [CallReg("mem") EXCEPT !.base = "rbp"], FromRip(Lea("rdi", "rbp", 0), 50),
           FromRip(Ld("rax", "rbp", 4), 54), I("opaque"), I("nop"), I("syscall"), Two("div", "rax", "rbx"), Zero("rdx")}

Spills == {St("rbp", -8, "rdi"), Imm("rdi", 50)}

Uses == {Ld("rax", "rbp", -8), Lea("rdi", "rbp", -8), Call(40)}

B(insns, end, to) == [insns |-> insns, end |-> end, to |-> to]

\* A copy of a copy, two copies that go round in a circle, a slot stored to twice.
Chain == <<St("rsp", 8, "rdi"), Ld("rax", "rsp", 8), St("rbp", -8, "rax"), Ld("rdi", "rbp", -8), Call(40)>>
Circle == <<Ld("rax", "rsp", 8), St("rbp", -8, "rax"), Ld("rdi", "rbp", -8), St("rsp", 8, "rdi"), Call(40)>>

Twice == <<St("rbp", -8, "rdi"), Imm("rdi", 50), St("rbp", -8, "rdi"), Ld("rdi", "rbp", -8), Call(40)>>
TwiceBack == <<Mov("rax", "rdi"), Imm("rdi", 50), St("rbp", -8, "rdi"), St("rbp", -8, "rax"),
               Ld("rdi", "rbp", -8), Call(40)>>
\* A function is called through a copy that something else reads too.
Called == <<Mov("rax", "rdi"), St("none", 0, "rax"), CallReg("rax")>>
\* Constants: 10 times 5, and a complement of a complement.
Product == <<Imm("rdi", 10), Op("imul", "rdi", 5), Call(40)>>
Complements == <<Imm("rdi", 50), Un("not", "rdi"), Un("not", "rdi"), Call(40)>>
Difference(k, l) == <<Imm("rdi", k), SubK("rdi", l), Call(40)>>

Straight(e, x, y, w) == <<B(e \o <<x, y>> \o w, "Return", <<>>)>>

Diamond(e, x, y, z, w) ==
    <<B(e \o <<x, CmpK("rax", 0)>>, "Branch", <<3, 2>>),
      B(<<y>>, "Jump", <<3>>),
      B(<<z>> \o w, "Return", <<>>)>>

\* A check of the canary and the block that fails, which ends the function or
\* falls through.
Checked(x, arms, end, z, w) ==
    <<B(Framed \o <<x>>, "Branch", arms),
      B(<<Call(41)>>, end, IF end = "Jump" THEN <<3>> ELSE <<>>),
      B(<<z>> \o w, "Return", <<>>)>>

McPrograms ==
    {Straight(e, x, y, w) : e \in Entries, x \in Bodies, y \in Bodies, w \in {<<I("leave")>>, <<>>}} \cup
    {Straight(e, x, y, <<>>) : e \in {Framed, <<>>}, x \in Others, y \in Others \cup Bodies} \cup
    {Straight(e, x, x, w) : e \in {Framed, <<>>}, x \in Bodies, w \in Exits} \cup
    {<<B(Frameless \o body, "Return", <<>>)>> : body \in {Chain, Circle, Twice, TwiceBack, Called,
                                                        Product, Complements, Difference(58, 8), Difference(8, 58)}} \cup
    {<<B(<<Push("rax"), Pop("rdi"), Call(40)>>, "Return", <<>>)>>} \cup
    {Diamond(e, x, y, z, w) : e \in {Framed, <<>>}, x \in Spills, y \in Spills \cup Uses, z \in Uses,
                              w \in {<<I("leave")>>, <<>>}} \cup
    {Checked(x, arms, end, z, w) : x \in Spills, arms \in {<<3, 2>>, <<2, 3>>, <<2, 2>>},
                                   end \in {"Return", "Jump"}, z \in Uses, w \in Exits} \cup
    {<<B(<<x>>, "Branch", <<3, 2>>), B(<<Call(41)>>, "Return", <<>>), B(<<Call(41)>>, "Return", <<>>)>> : x \in Spills}

McFunctions == {40, 41}
McStrings == {50}

\* __stack_chk_fail(void).
McArity == [f \in {41} |-> 0]
=============================================================================
