---------------------------- MODULE LiftPasses ----------------------------
(***************************************************************************)
(* lift_function (crates/rustdec-lift/src/lib.rs), and its passes after    *)
(* the blocks are lifted, in their order: dead assignments, constants, the *)
(* frame, copies through slots, dead assignments, the canary, dead         *)
(* assignments, the number of arguments.                                   *)
(***************************************************************************)
EXTENDS FrameAnalysis

CONSTANTS
    Functions,  \* addresses of the functions of the symbol map
    Strings,    \* addresses of its strings
    FailAddr    \* that of __stack_chk_fail

VARIABLES
    stage,      \* the pass under way
    edges,      \* the edges of the graph: [from, arm, to]
    frame,      \* frame_size
    slots,      \* the offsets of slot_table
    stored,     \* copy_propagate_slots: what is stored in each eligible slot
    sub,        \* sub_map
    round,      \* the rounds of flattening it
    todo,       \* the keys left in this round
    moved,      \* something changed in it
    fails,      \* eliminate_canary: fail_nodes
    patches,    \* the pairs of predecessor and fail node to fix
    params      \* how many arguments the function has

spillVars == <<stored, sub, round, todo, moved>>
canaryVars == <<edges, fails, patches>>
passVars == <<stage, frame, slots, params, spillVars, canaryVars>>

PassInit ==
    /\ stage = "lift"
    /\ edges = {}
    /\ frame = 0
    /\ slots = {}
    /\ stored = <<>> /\ sub = <<>> /\ round = 0 /\ todo = {} /\ moved = FALSE
    /\ fails = {} /\ patches = {}
    /\ params = 0

\* The pass is over.
After(s) ==
    CASE s = "lift" -> "dead1" [] s = "dead1" -> "constants" [] s = "constants" -> "frame"
      [] s = "frame" -> "spills" [] s = "spills" -> "dead2" [] s = "flatten" -> "dead2"
      [] s = "dead2" -> "canary" [] s = "canary" -> "dead3" [] s = "patch" -> "dead3"
      [] s = "dead3" -> "arguments" [] s = "arguments" -> "done"

Over == stage' = After(stage)

\* The statements of each block become those of f[b].
Statements(f(_)) == blocks' = [b \in DOMAIN blocks |-> [stmts |-> f(b), term |-> blocks[b].term]]

KeepIds == UNCHANGED <<prog, names, nextId, regs, pc>>

EndLift ==
    /\ stage = "lift" /\ pc = -1 /\ at = Len(prog)
    /\ edges' = UNION {{[from |-> b, arm |-> i, to |-> prog[b].to[i]] : i \in 1 .. Len(prog[b].to)} :
                            b \in 1 .. Len(prog)}
    /\ Over
    /\ UNCHANGED <<liftVars, frame, slots, params, spillVars, fails, patches>>

-----------------------------------------------------------------------------
(* eliminate_dead_assigns, one round of its loop.                          *)

ReadsOf(b) ==
    (UNION {Reads(blocks[b].stmts[i]) : i \in 1 .. Len(blocks[b].stmts)}) \cup TermReads(blocks[b].term)

AllReads == UNION {ReadsOf(b) : b \in DOMAIN blocks}

\* Mutation: the reads of terminators are not collected.
LiveInStmts(s) ==
    \E b \in DOMAIN blocks : \E i \in 1 .. Len(blocks[b].stmts) : s.lhs \in Reads(blocks[b].stmts[i])

Live(s) == s.lhs \in AllReads

Kept(s) == ~IsAssign(s) \/ Live(s)

\* Vec::retain.
AllKept(b) ==
    LET stmts == blocks[b].stmts
        kept[i \in 0 .. Len(stmts)] ==
            IF i = 0 THEN <<>>
            ELSE IF Kept(stmts[i]) THEN Append(kept[i - 1], stmts[i]) ELSE kept[i - 1]
    IN  kept[Len(stmts)]

DropDead ==
    /\ stage \in {"dead1", "dead2", "dead3"}
    /\ \E b \in DOMAIN blocks : AllKept(b) # blocks[b].stmts
    /\ Statements(AllKept)
    /\ KeepIds /\ UNCHANGED passVars

NoneDead ==
    /\ stage \in {"dead1", "dead2", "dead3"}
    /\ \A b \in DOMAIN blocks : AllKept(b) = blocks[b].stmts
    /\ Over
    /\ UNCHANGED <<liftVars, frame, slots, params, spillVars, canaryVars>>

-----------------------------------------------------------------------------
(* resolve_constants.                                                      *)

Known(v, eval) ==
    IF ~v.var THEN {v.n} ELSE IF v.n \in DOMAIN eval THEN {eval[v.n]} ELSE {}

\* Mutation: a difference is taken the wrong way round.
EvaluatedBack(s, eval) ==
    CASE IsOp(s, {"Value", "Cast"}) -> Known(s.args[1], eval)
      [] IsOp(s, {"Add"}) ->
            {l + r : l \in Known(s.args[1], eval), r \in Known(s.args[2], eval)}
      [] IsOp(s, {"Sub"}) ->
            {r - l : l \in Known(s.args[1], eval), r \in Known(s.args[2], eval)}
      [] IsOp(s, {"Mul"}) ->
            {l * r : l \in Known(s.args[1], eval), r \in Known(s.args[2], eval)}
      [] IsOp(s, {"Not"}) -> {-1 - l : l \in Known(s.args[1], eval)}
      [] OTHER -> {}

\* try_eval_expr, as a set of one number or none.  And comes from test only,
\* whose value is dead before.
Evaluated(s, eval) ==
    CASE IsOp(s, {"Value", "Cast"}) -> Known(s.args[1], eval)
      [] IsOp(s, {"Add"}) ->
            {l + r : l \in Known(s.args[1], eval), r \in Known(s.args[2], eval)}
      [] IsOp(s, {"Sub"}) ->
            {l - r : l \in Known(s.args[1], eval), r \in Known(s.args[2], eval)}
      [] IsOp(s, {"Mul"}) ->
            {l * r : l \in Known(s.args[1], eval), r \in Known(s.args[2], eval)}
      [] IsOp(s, {"Not"}) -> {-1 - l : l \in Known(s.args[1], eval)}
      [] OTHER -> {}

\* build_const_eval: the statements are in an order that one pass is enough.
ConstEval ==
    FoldLeft(LAMBDA m, s : IF Evaluated(s, m) = {} THEN m
                           ELSE m @@ [x \in {s.lhs} |-> CHOOSE k \in Evaluated(s, m) : TRUE],
             <<>>, AllStmts)

ResolvedTarget(t) ==
    IF t.kind = "Direct" /\ t.n \in Functions THEN [t EXCEPT !.kind = "Named"] ELSE t

ResolvedArg(v, eval) ==
    IF Known(v, eval) \cap Strings # {} THEN C(CHOOSE k \in Known(v, eval) : TRUE) ELSE v

Resolved(s, eval) ==
    CASE IsOp(s, {"Call"}) ->
            [s EXCEPT !.target = ResolvedTarget(@),
                      !.args = [i \in 1 .. Len(@) |-> ResolvedArg(@[i], eval)]]
      [] Evaluated(s, eval) \cap (Functions \cup Strings) # {} ->
            [s EXCEPT !.op = "Symbol", !.args = <<C(CHOOSE k \in Evaluated(s, eval) : TRUE)>>]
      [] OTHER -> s

ResolveConstants ==
    /\ stage = "constants"
    /\ LET eval == ConstEval
       IN  Statements(LAMBDA b : [i \in 1 .. Len(blocks[b].stmts) |-> Resolved(blocks[b].stmts[i], eval)])
    /\ Over
    /\ KeepIds /\ UNCHANGED <<frame, slots, params, spillVars, canaryVars>>

-----------------------------------------------------------------------------
(* analyse_frame.                                                          *)

\* reg_seed_id: the first id of that name in a map without an order.
SeedsOf(r) == {id \in DOMAIN names : names[id] = r}

AnalyseFrame(rbp, rsp) ==
    /\ stage = "frame"
    /\ LET size == FrameSize(rsp)
           rbps == Spine(rbp)
           rsps == Spine(rsp)
           stripped == [b \in DOMAIN blocks |-> Stripped(b, rbps, rsps, size)]
       IN  /\ frame' = size
           /\ slots' = Prologue(rbps, rsps, size).saved \cup
                       UNION {UNION {SlotOf(s.args[1], rbps, rsps, size) :
                                        s \in {x \in ToSet(stripped[b]) : Accesses(x)}} : b \in DOMAIN blocks}
           /\ Statements(LAMBDA b : [i \in 1 .. Len(stripped[b]) |-> Named(stripped[b][i], rbps, rsps, size)])
    /\ Over
    /\ KeepIds /\ UNCHANGED <<params, spillVars, canaryVars>>

-----------------------------------------------------------------------------
(* copy_propagate_slots.                                                   *)

Positions == UNION {{<<b, i>> : i \in DOMAIN blocks[b].stmts} : b \in DOMAIN blocks}

StmtAt(p) == blocks[p[1]].stmts[p[2]]

Count(P(_)) == Cardinality({p \in Positions : P(StmtAt(p))})

StoresTo(s, x) == IsStore(s) /\ s.args[1] = V(x)
Loads(s, x)    == IsLoad(s) /\ s.args[1] = V(x)

\* Mutation: what is loaded once may be stored at any number of places.
LoadedOnce(x) == Count(LAMBDA s : StoresTo(s, x)) > 0 /\ Count(LAMBDA s : Loads(s, x)) = 1

Eligible(x) == Count(LAMBDA s : StoresTo(s, x)) = 1 /\ Count(LAMBDA s : Loads(s, x)) = 1

SlotsUsed == {x \in AllReads : IsSlot(x)}

StoredIn(x) == (CHOOSE s \in ToSet(AllStmts) : StoresTo(s, x)).args[2]

Reloads(xs) == {s \in ToSet(AllStmts) : \E x \in xs : Loads(s, x)}

NoSpill ==
    /\ stage = "spills"
    /\ \A x \in SlotsUsed : ~Eligible(x)
    /\ Over
    /\ UNCHANGED <<liftVars, frame, slots, params, spillVars, canaryVars>>

FindSpills ==
    /\ stage = "spills"
    /\ \E x \in SlotsUsed : Eligible(x)
    /\ LET xs == {x \in SlotsUsed : Eligible(x)}
           reloads == Reloads(xs)
       IN  /\ stored' = [x \in xs |-> StoredIn(x)]
           /\ sub' = [l \in {s.lhs : s \in reloads} |->
                        StoredIn((CHOOSE s \in reloads : s.lhs = l).args[1].n)]
           /\ todo' = {s.lhs : s \in reloads}
    /\ round' = 1
    /\ moved' = FALSE
    /\ stage' = "flatten"
    /\ UNCHANGED <<liftVars, frame, slots, params, canaryVars>>

\* One key of the substitution, in the order of a map without one.
Flatten(k) ==
    /\ stage = "flatten"
    /\ todo' = todo \ {k}
    /\ IF sub[k].var /\ sub[k].n \in DOMAIN sub
       THEN sub' = [sub EXCEPT ![k] = sub[sub[k].n]] /\ moved' = TRUE
       ELSE UNCHANGED <<sub, moved>>
    /\ UNCHANGED <<stage, liftVars, frame, slots, params, canaryVars, stored, round>>

Rounds == 16

\* Mutation: rounds go on until nothing moves.
RoundUnbounded ==
    /\ stage = "flatten" /\ todo = {} /\ moved
    /\ round' = 1
    /\ todo' = DOMAIN sub
    /\ moved' = FALSE
    /\ UNCHANGED <<stage, liftVars, frame, slots, params, canaryVars, stored, sub>>

NextRound ==
    /\ stage = "flatten" /\ todo = {} /\ moved /\ round < Rounds
    /\ round' = round + 1
    /\ todo' = DOMAIN sub
    /\ moved' = FALSE
    /\ UNCHANGED <<stage, liftVars, frame, slots, params, canaryVars, stored, sub>>

Substituted(v) == IF v.var /\ v.n \in DOMAIN sub THEN sub[v.n] ELSE v

SubstitutedAll(args) == [i \in 1 .. Len(args) |-> Substituted(args[i])]

SubstitutedIn(t) == Term(t.kind, Substituted(t.val), t.to)

Reloaded(s) == Substituted(stored[s.args[1].n])

Propagated(s) ==
    CASE IsStore(s) /\ s.args[1].var /\ s.args[1].n \in DOMAIN stored -> Nop
      [] IsLoad(s) /\ s.args[1].var /\ s.args[1].n \in DOMAIN stored ->
            Assign(s.lhs, "Value", <<Reloaded(s)>>)
      [] OTHER -> [s EXCEPT !.args = SubstitutedAll(@)]

Propagate ==
    /\ stage = "flatten" /\ todo = {} /\ (~moved \/ round = Rounds)
    /\ blocks' = [b \in DOMAIN blocks |->
                    [stmts |-> [i \in 1 .. Len(blocks[b].stmts) |-> Propagated(blocks[b].stmts[i])],
                     term |-> SubstitutedIn(blocks[b].term)]]
    /\ Over
    /\ KeepIds /\ UNCHANGED <<frame, slots, params, spillVars, canaryVars>>

-----------------------------------------------------------------------------
(* frame.rs, eliminate_canary.                                             *)

CallsFail(s) == IsOp(s, {"Call"}) /\ s.target = ToAddress("Named", FailAddr)

FailBlocks == {b \in DOMAIN blocks : \E s \in ToSet(blocks[b].stmts) : CallsFail(s)}

NoCanary ==
    /\ stage = "canary" /\ FailBlocks = {}
    /\ Over
    /\ UNCHANGED <<liftVars, frame, slots, params, spillVars, canaryVars>>

FindCanary ==
    /\ stage = "canary" /\ FailBlocks # {}
    /\ fails' = FailBlocks
    /\ patches' = {<<e.from, e.to>> : e \in {x \in edges : x.to \in FailBlocks}}
    /\ stage' = "patch"
    /\ UNCHANGED <<liftVars, frame, slots, params, spillVars, edges>>

\* The arm that does not fail, when f does.
OtherArm(t, f) == IF t.to[1] = f THEN t.to[2] ELSE t.to[1]

\* Mutation: the edge stays.
PatchTermOnly(p, f) ==
    /\ stage = "patch"
    /\ blocks[p].term.kind = "Branch"
    /\ blocks' = [blocks EXCEPT ![p] =
                    [stmts |-> @.stmts, term |-> Term("Jump", C(0), <<OtherArm(@.term, f)>>)]]
    /\ patches' = patches \ {<<p, f>>}
    /\ KeepIds /\ UNCHANGED <<stage, frame, slots, params, spillVars, edges, fails>>

\* One predecessor.  A pair is here once for two edges between the same
\* blocks: the second time the code finds a jump.
PatchBranch(p, f) ==
    /\ stage = "patch"
    /\ blocks[p].term.kind = "Branch"
    /\ blocks' = [blocks EXCEPT ![p] =
                    [stmts |-> @.stmts, term |-> Term("Jump", C(0), <<OtherArm(@.term, f)>>)]]
    /\ edges' = edges \ {CHOOSE e \in edges : e.from = p /\ e.to = f}
    /\ patches' = patches \ {<<p, f>>}
    /\ KeepIds /\ UNCHANGED <<stage, frame, slots, params, spillVars, fails>>

LeaveJump(p, f) ==
    /\ stage = "patch"
    /\ blocks[p].term.kind # "Branch"
    /\ patches' = patches \ {<<p, f>>}
    /\ UNCHANGED <<liftVars, stage, frame, slots, params, spillVars, edges, fails>>

DropFails ==
    /\ stage = "patch" /\ patches = {}
    /\ blocks' = [b \in DOMAIN blocks |->
                    IF b \in fails
                    THEN [stmts |-> [i \in 1 .. Len(blocks[b].stmts) |-> Nop],
                          term |-> Term("Unreachable", C(0), <<>>)]
                    ELSE blocks[b]]
    /\ Over
    /\ KeepIds /\ UNCHANGED <<frame, slots, params, spillVars, canaryVars>>

-----------------------------------------------------------------------------
(* infer_abi_args.                                                         *)

Written == {s.lhs : s \in {x \in ToSet(AllStmts) : IsAssign(x)}}

IsArgument(id) == id \in AllReads /\ id \notin Written

\* seed has, for each register, the last id of that name in a map without an
\* order.
InferArgs(seed) ==
    /\ stage = "arguments"
    /\ params' = Max({n \in 0 .. Len(ArgRegs) : \A i \in 1 .. n : IsArgument(seed[i])})
    /\ Over
    /\ UNCHANGED <<liftVars, frame, slots, spillVars, canaryVars>>

PassNext ==
    \/ EndLift \/ DropDead \/ NoneDead \/ ResolveConstants
    \/ \E rbp \in SeedsOf("rbp"), rsp \in SeedsOf("rsp") : AnalyseFrame(rbp, rsp)
    \/ NoSpill \/ FindSpills \/ (\E k \in todo : Flatten(k)) \/ NextRound \/ Propagate
    \/ NoCanary \/ FindCanary
    \/ (\E e \in patches : PatchBranch(e[1], e[2]) \/ LeaveJump(e[1], e[2]))
    \/ DropFails
    \/ \E seed \in [1 .. Len(ArgRegs) -> DOMAIN names] :
            (\A i \in 1 .. Len(ArgRegs) : names[seed[i]] = ArgRegs[i]) /\ InferArgs(seed)

-----------------------------------------------------------------------------
(* lift_function: from the machine code of a function to its statements.   *)

vars == <<liftVars, passVars>>

Init == LiftInit /\ PassInit

LiftBlocks == stage = "lift" /\ LiftNext /\ UNCHANGED passVars

Returned == stage = "done" /\ UNCHANGED vars

Next == LiftBlocks \/ PassNext \/ Returned

Spec == Init /\ [][Next]_vars

\* The code runs on, step by step, on one thread, until it returns: weak
\* fairness of Next, which can be taken until then (no run ends in a deadlock).
FairSpec == Spec /\ (<>(stage = "done") \/ []<><<Next>>_vars)
=============================================================================
