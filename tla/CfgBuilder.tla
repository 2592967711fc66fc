----------------------------- MODULE CfgBuilder -----------------------------
(***************************************************************************)
(* crates/rustdec-analysis/src/cfg.rs, build_cfg: the instructions of one  *)
(* function become basic blocks and edges in three passes: the leaders,    *)
(* the blocks with their terminators, the edges.                           *)
(*                                                                         *)
(* An instruction is what Instruction::is_terminator, is_branch and        *)
(* branch_target tell of it: "plain" (calls included), "ret" (every exit), *)
(* "jmp" or "jcc", with the target address, 0 when there is none.  The     *)
(* addresses of a function may have holes (a section ends, bytes do not    *)
(* decode) and a target may be anywhere, inside an instruction included.   *)
(***************************************************************************)
EXTENDS Naturals, Sequences

(* A definition called a mutation models a bug the code does not have: the *)
(* checker must find a property violated when it takes the place of the    *)
(* definition that follows it.                                             *)

CONSTANT Programs  \* the functions to build: [insns, end]

Insn == [addr : Nat \ {0}, size : Nat \ {0},
         kind : {"plain", "ret", "jmp", "jcc"}, target : Nat]

\* func_insns in address order, not overlapping, below the function's end;
\* none when there is no instruction at the entry.
WellFormed(p) ==
    /\ p.insns \in Seq(Insn)
    /\ p.end \in Nat
    /\ \A i \in 1 .. Len(p.insns) : p.insns[i].addr < p.end
    /\ \A i, j \in 1 .. Len(p.insns) :
        i < j => p.insns[i].addr + p.insns[i].size <= p.insns[j].addr

ASSUME ProgramAssumption == \A p \in Programs : WellFormed(p)

VARIABLES
    prog,      \* the function: its instructions and end_addr
    pass,      \* "leaders", "blocks", "jumps", "branches", "done"
    at,        \* index of the next instruction (or of the next pending entry)
    leaders,   \* addresses that open a block
    current,   \* <<>> or <<the open block>>
    blocks,    \* the closed blocks; NodeIndex k is blocks[k + 1]
    nextId,    \* block_id
    jumps,     \* pending_jumps: [from, to] addresses
    branches,  \* pending_branches: [from, yes, no] addresses
    edges      \* the edges added: [from, to] NodeIndexes, in order

vars == <<prog, pass, at, leaders, current, blocks, nextId, jumps, branches, edges>>

EndOf(i) == i.addr + i.size

EndsBlock(i) == i.kind # "plain"

Term(kind, to) == [kind |-> kind, to |-> to]

Init ==
    /\ prog \in Programs
    /\ pass = "leaders"
    /\ at = 1
    /\ leaders = {}
    /\ current = <<>>
    /\ blocks = <<>>
    /\ nextId = 0
    /\ jumps = <<>>
    /\ branches = <<>>
    /\ edges = <<>>

-----------------------------------------------------------------------------
(* Pass 1.                                                                 *)

Entry == prog.insns[1].addr

\* Mutation: only a terminator is followed by a leader, a branch is not.
FollowersOfExits ==
    {EndOf(prog.insns[i]) : i \in
        {j \in 1 .. Len(prog.insns) :
            prog.insns[j].kind \in {"ret", "jmp"} /\ EndOf(prog.insns[j]) < prog.end}}

\* What follows a terminator or a branch, inside the function.
Followers ==
    {EndOf(prog.insns[i]) : i \in
        {j \in 1 .. Len(prog.insns) :
            EndsBlock(prog.insns[j]) /\ EndOf(prog.insns[j]) < prog.end}}

\* The targets inside the function.
Landings ==
    {prog.insns[i].target : i \in
        {j \in 1 .. Len(prog.insns) :
            /\ EndsBlock(prog.insns[j])
            /\ prog.insns[j].target >= Entry
            /\ prog.insns[j].target < prog.end}}

\* Nothing to decode at the entry: an empty graph.
EmptyFunction ==
    /\ pass = "leaders" /\ prog.insns = <<>>
    /\ pass' = "done"
    /\ UNCHANGED <<prog, at, leaders, current, blocks, nextId, jumps, branches, edges>>

FindLeaders ==
    /\ pass = "leaders" /\ prog.insns # <<>>
    /\ leaders' = {Entry} \cup Followers \cup Landings
    /\ pass' = "blocks"
    /\ UNCHANGED <<prog, at, current, blocks, nextId, jumps, branches, edges>>

-----------------------------------------------------------------------------
(* Pass 2, one instruction at a time.                                      *)

insn == prog.insns[at]

Opens == insn.addr \in leaders

\* The open block when the instruction has been put into it.
Extended ==
    IF Opens
    THEN [id |-> nextId, start |-> insn.addr, end |-> EndOf(insn),
          term |-> Term("Unreachable", <<>>)]
    ELSE [current[1] EXCEPT !.end = EndOf(insn)]

\* A leader closes the block before it, which falls through.
Closed ==
    IF Opens /\ current # <<>>
    THEN Append(blocks, [current[1] EXCEPT !.term = Term("Jump", <<0>>)])
    ELSE blocks

\* Mutation: the fall-through is forgotten.
FallThroughsForgotten == jumps

FallThroughs ==
    IF Opens /\ current # <<>>
    THEN Append(jumps, [from |-> current[1].start, to |-> insn.addr])
    ELSE jumps

InBlocks == pass = "blocks" /\ at <= Len(prog.insns)

\* Mutation: block_id is not advanced.
NextIdKept == nextId

NextId == IF Opens THEN nextId + 1 ELSE nextId

Step ==
    /\ at' = at + 1
    /\ nextId' = NextId
    /\ UNCHANGED <<prog, pass, leaders, edges>>

\* No block is open and the instruction opens none: it is left out.
SkipInsn ==
    /\ InBlocks
    /\ ~Opens /\ current = <<>>
    /\ at' = at + 1
    /\ UNCHANGED <<prog, pass, leaders, current, blocks, nextId, jumps, branches, edges>>

HasBlock == InBlocks /\ (Opens \/ current # <<>>)

PlainInsn ==
    /\ HasBlock /\ insn.kind = "plain"
    /\ current' = <<Extended>>
    /\ blocks' = Closed
    /\ jumps' = FallThroughs
    /\ Step /\ UNCHANGED branches

\* Mutation: a terminator leaves its block open.
CloseLate(term) ==
    /\ current' = <<[Extended EXCEPT !.term = term]>>
    /\ blocks' = Closed

Close(term) ==
    /\ current' = <<>>
    /\ blocks' = Append(Closed, [Extended EXCEPT !.term = term])

\* ret and its kin, and an indirect jmp.
ExitInsn ==
    /\ HasBlock
    /\ insn.kind = "ret" \/ (insn.kind = "jmp" /\ insn.target = 0)
    /\ Close(Term("Return", <<>>))
    /\ jumps' = FallThroughs
    /\ Step /\ UNCHANGED branches

JumpInsn ==
    /\ HasBlock /\ insn.kind = "jmp" /\ insn.target # 0
    /\ Close(Term("Jump", <<0>>))
    /\ jumps' = Append(FallThroughs, [from |-> Extended.start, to |-> insn.target])
    /\ Step /\ UNCHANGED branches

BranchInsn ==
    /\ HasBlock /\ insn.kind = "jcc"
    /\ Close(Term("Branch", <<0, 0>>))
    /\ jumps' = FallThroughs
    /\ branches' = Append(branches, [from |-> Extended.start,
                                     yes  |-> insn.target,
                                     no   |-> EndOf(insn)])
    /\ Step

\* The end of pass 2: the last block, if still open, gets a return.
EndBlocks ==
    /\ pass = "blocks" /\ at > Len(prog.insns)
    /\ blocks' = IF current = <<>> THEN blocks
                 ELSE Append(blocks, [current[1] EXCEPT !.term = Term("Return", <<>>)])
    /\ current' = <<>>
    /\ pass' = "jumps"
    /\ at' = 1
    /\ UNCHANGED <<prog, leaders, nextId, jumps, branches, edges>>

-----------------------------------------------------------------------------
(* Pass 3, one pending entry at a time.                                    *)

Starts == {blocks[k].start : k \in 1 .. Len(blocks)}

\* block_map and addr_to_blockid: an address to its node, to its block's id.
NodeAt(addr) == CHOOSE k \in 1 .. Len(blocks) : blocks[k].start = addr

IdAt(addr) == blocks[NodeAt(addr)].id

Patch(addr, term) == [blocks EXCEPT ![NodeAt(addr)].term = term]

WireJump ==
    /\ pass = "jumps" /\ at <= Len(jumps)
    /\ LET j == jumps[at]
       IN  IF {j.from, j.to} \subseteq Starts
           THEN /\ blocks' = Patch(j.from, Term("Jump", <<IdAt(j.to)>>))
                /\ edges' = Append(edges, [from |-> NodeAt(j.from), to |-> NodeAt(j.to)])
           ELSE UNCHANGED <<blocks, edges>>
    /\ at' = at + 1
    /\ UNCHANGED <<prog, pass, leaders, current, nextId, jumps, branches>>

EndJumps ==
    /\ pass = "jumps" /\ at > Len(jumps)
    /\ pass' = "branches"
    /\ at' = 1
    /\ UNCHANGED <<prog, leaders, current, blocks, nextId, jumps, branches, edges>>

\* Both arms must be blocks, or neither edge is added.
WireBranch ==
    /\ pass = "branches" /\ at <= Len(branches)
    /\ LET b == branches[at]
       IN  IF {b.from, b.yes, b.no} \subseteq Starts
           THEN /\ blocks' = Patch(b.from, Term("Branch", <<IdAt(b.yes), IdAt(b.no)>>))
                /\ edges' = edges \o <<[from |-> NodeAt(b.from), to |-> NodeAt(b.yes)],
                                       [from |-> NodeAt(b.from), to |-> NodeAt(b.no)]>>
           ELSE UNCHANGED <<blocks, edges>>
    /\ at' = at + 1
    /\ UNCHANGED <<prog, pass, leaders, current, nextId, jumps, branches>>

EndBranches ==
    /\ pass = "branches" /\ at > Len(branches)
    /\ pass' = "done"
    /\ UNCHANGED <<prog, at, leaders, current, blocks, nextId, jumps, branches, edges>>

\* The call has returned; it does nothing more.
Returned == pass = "done" /\ UNCHANGED vars

Next ==
    \/ EmptyFunction \/ FindLeaders
    \/ SkipInsn \/ PlainInsn \/ ExitInsn \/ JumpInsn \/ BranchInsn
    \/ EndBlocks
    \/ WireJump \/ EndJumps \/ WireBranch \/ EndBranches
    \/ Returned

Spec == Init /\ [][Next]_vars
=============================================================================
