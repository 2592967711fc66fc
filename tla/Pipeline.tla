------------------------------ MODULE Pipeline ------------------------------
(***************************************************************************)
(* analyse of crates/rustdec-analysis/src/lib.rs from the entry points on: *)
(* ranges, one rayon task per function, and build_call_graph               *)
(* (callgraph.rs) on what comes out.  What a task does inside is the       *)
(* subject of CfgBuilder and LiftPasses; here it is the instructions it    *)
(* takes, once by index for the blocks and once by address for the lifter, *)
(* and the names it gives to the calls.                                    *)
(***************************************************************************)
EXTENDS FunctionDetection

VARIABLES
    ranges,  \* func_ranges: entry address -> end address
    built,   \* the functions whose task has ended: entry -> [name, lifted, kept, calls]
    graph    \* the call graph: name -> set of names

pipeVars == <<ranges, built, graph>>
vars == <<detectVars, pipeVars>>

Init ==
    /\ DetectInit
    /\ ranges = [a \in {} |-> 0]
    /\ built = [a \in {} |-> 0]
    /\ graph = [n \in {} |-> {}]

-----------------------------------------------------------------------------
(* Ranges.                                                                 *)

Least(S) == CHOOSE m \in S : \A n \in S : m <= n

Following(a) == {b \in DOMAIN funcs : b > a}

\* Mutation: the last function ends where the code does, the others too.
EndsAtCode(a) == globalEnd

\* The next entry point in the sorted list, or the end of the code.
RangeEnd(a) == IF Following(a) = {} THEN globalEnd ELSE Least(Following(a))

\* Degenerate ranges are left out.
MakeRanges ==
    /\ stage = "ranges"
    /\ ranges' = [a \in {b \in DOMAIN funcs : RangeEnd(b) > b} |-> RangeEnd(a)]
    /\ stage' = "build"
    /\ UNCHANGED <<obj, at, insns, globalEnd, funcs, built, graph>>

-----------------------------------------------------------------------------
(* The task of a function.                                                 *)

\* addr_to_idx: of two instructions with one address the later stays.
IndexAt(a) == CHOOSE i \in 1 .. Len(insns) :
    /\ insns[i].addr = a
    /\ \A j \in 1 .. Len(insns) : insns[j].addr = a => j <= i

\* Mutation: build_cfg goes on past the end of the range.
BodyToTheEnd(a) == {i \in 1 .. Len(insns) : \E k \in 1 .. i : insns[k].addr = a}

\* func_insns of build_cfg; none when no instruction is at the entry.
Body(a) ==
    IF \E i \in 1 .. Len(insns) : insns[i].addr = a
    THEN {i \in IndexAt(a) .. Len(insns) : insns[i].addr < ranges[a]}
    ELSE {}

Leaving(a) == {i \in Body(a) : insns[i].does = "leave"}

Leaders(a) ==
    {a} \cup {x \in {EndOf(insns[i]) : i \in Leaving(a)}
                    \cup {insns[i].val : i \in {j \in Leaving(a) : HasTarget(insns[j])}} :
                a <= x /\ x < ranges[a]}

Opens(a, i) == i \in Body(a) /\ insns[i].addr \in Leaders(a)

\* The last instruction of the block that the i-th opens; its end is end_addr.
BlockLast(a, i) ==
    Least({k \in Body(a) :
             k >= i /\ (k \in Leaving(a) \/ k + 1 \notin Body(a) \/ Opens(a, k + 1))})

\* What lift_function takes for the blocks: whatever has an address in one.
Lifted(a) ==
    {i \in 1 .. Len(insns) : \E o \in Body(a) :
        /\ Opens(a, o)
        /\ insns[o].addr <= insns[i].addr
        /\ insns[i].addr < EndOf(insns[BlockLast(a, o)])}

\* What build_symbol_map has at an address: the first source that names it.
SourcesOf(o) == SelectSeq(o.dwarf \o o.symbols, LAMBDA s : s.addr # 0)

Sources == SourcesOf(obj)

FirstSource(a) == CHOOSE i \in 1 .. Len(Sources) :
    /\ Sources[i].addr = a
    /\ \A j \in 1 .. i - 1 : Sources[j].addr # a

\* It makes a Direct call a Named one, unless a literal or an object is there.
NamesCall(a) ==
    /\ a \notin obj.strings
    /\ \E i \in 1 .. Len(Sources) : Sources[i].addr = a
    /\ Sources[FirstSource(a)].kind # "Object"

Target(a) == IF NamesCall(a) THEN [named |-> TRUE, name |-> Sources[FirstSource(a)].name]
             ELSE [named |-> FALSE, addr |-> a]

\* lift_call: only a number that stands alone is a target.
LiftedCalls(a) == {i \in Lifted(a) : insns[i].does = "call" /\ insns[i].mode = "imm"}

\* kept are the calls that outlive the dead-assignment passes (LiftPasses).
BuildFunction(a) ==
    /\ stage = "build" /\ a \in DOMAIN ranges \ DOMAIN built
    /\ \E kept \in SUBSET LiftedCalls(a) :
        LET f == [name |-> funcs[a], lifted |-> Lifted(a), kept |-> kept,
                  calls |-> {Target(insns[i].val) : i \in kept}]
        IN  built' = [b \in DOMAIN built \cup {a} |-> IF b = a THEN f ELSE built[b]]
    /\ UNCHANGED <<obj, stage, at, insns, globalEnd, funcs, ranges, graph>>

FunctionsBuilt ==
    /\ stage = "build" /\ DOMAIN built = DOMAIN ranges
    /\ stage' = "graph"
    /\ UNCHANGED <<obj, at, insns, globalEnd, funcs, pipeVars>>

-----------------------------------------------------------------------------
(* build_call_graph.                                                       *)

Callees(a) ==
    {c.name : c \in {t \in built[a].calls : t.named}}
        \cup {built[c.addr].name : c \in {t \in built[a].calls :
                                             ~t.named /\ t.addr \in DOMAIN built}}

\* The functions of one name; collect() keeps the value of the last.
Namesakes(n) == {a \in DOMAIN built : built[a].name = n}

\* Mutation: the value of the first.
FirstOf(n) == Least(Namesakes(n))

LastOf(n) == CHOOSE a \in Namesakes(n) : \A b \in Namesakes(n) : b <= a

BuildCallGraph ==
    /\ stage = "graph"
    /\ graph' = [n \in {built[a].name : a \in DOMAIN built} |-> Callees(LastOf(n))]
    /\ stage' = "done"
    /\ UNCHANGED <<obj, at, insns, globalEnd, funcs, ranges, built>>

-----------------------------------------------------------------------------
Returned == stage \in {"failed", "done"} /\ UNCHANGED vars

Next ==
    \/ DetectNext /\ UNCHANGED pipeVars
    \/ MakeRanges
    \/ \E a \in DOMAIN ranges : BuildFunction(a)
    \/ FunctionsBuilt \/ BuildCallGraph \/ Returned

Spec == Init /\ [][Next]_vars

-----------------------------------------------------------------------------
(* What the way from sections to call graph must keep.                     *)

TypeOK ==
    /\ obj \in Object
    /\ stage \in {"disassemble", "failed", "entry", "symbols", "calls",
                  "ranges", "build", "graph", "done"}
    /\ at \in Nat \ {0}
    /\ insns \in Seq(Insn)
    /\ globalEnd \in Nat
    /\ DOMAIN funcs \subseteq Nat
    /\ DOMAIN built \subseteq DOMAIN ranges /\ DOMAIN ranges \subseteq DOMAIN funcs

RangesMade == stage \in {"build", "graph", "done"}

Holds(a, x) == a <= x /\ x < ranges[a]

\* Every instruction from the first entry point on lies in the range of one
\* function and of no other, whatever header and symbols point to: outside the
\* code, at one address twice, or between its sections (lib.rs:110-124).
OneOwner ==
    RangesMade =>
        \A i \in 1 .. Len(insns) :
            (\E a \in DOMAIN funcs : a <= insns[i].addr) =>
                \E a \in DOMAIN ranges :
                    /\ Holds(a, insns[i].addr)
                    /\ \A b \in DOMAIN ranges : Holds(b, insns[i].addr) => b = a

\* An instruction that leaves the task's run ends there or leads there.
LedTo(a, j) == \E k \in Leaving(a) :
    \/ insns[j].addr = EndOf(insns[k])
    \/ HasTarget(insns[k]) /\ insns[j].addr = insns[k].val

\* Between the exit, jump or branch before it and the instruction nothing is
\* led to: behind a hole, or in the middle of what another section decodes.
Skipped(a, i) == \E e \in Leaving(a) : e < i /\ \A j \in e + 1 .. i : ~LedTo(a, j)

\* The blocks of a task are cut out of the sorted list by index, what is lifted
\* for them by address.  Still a task lifts the instructions of its range, both
\* of two at one address, and no other task's but those under an instruction
\* that runs over the range's end; what it leaves out is skipped, or there is
\* no instruction at the entry (lib.rs:103, cfg.rs:52-66, lift/lib.rs:39-43).
RangesAreLifted ==
    \A a \in DOMAIN built :
        /\ \A i \in built[a].lifted :
            /\ a <= insns[i].addr
            /\ \/ insns[i].addr < ranges[a]
               \/ \E k \in 1 .. Len(insns) :
                    Holds(a, insns[k].addr) /\ insns[i].addr < EndOf(insns[k])
        /\ \A i, e \in 1 .. Len(insns) :
            insns[e].addr = a /\ Holds(a, insns[i].addr) =>
                i \in built[a].lifted \/ Skipped(a, i)

CallsTo(a) == {insns[i].val : i \in built[a].kept}

\* symbols_map and function map agree on the name of t.
OneName(t) == NamesCall(t) => Sources[FirstSource(t)].name = funcs[t]

\* The function whose callees a name has in the graph is the last of that name.
Speaks(a) == \A b \in DOMAIN built : built[b].name = built[a].name => b <= a

\* A call that outlives the lifter is an edge to the function at its target,
\* if the code reaches so far and the target has one name; and every edge is
\* the call of a function of that name.  Detection, ranges, symbol map and
\* graph each find target and name on their own (functions.rs:55-72,
\* symbols.rs:59-101, lift/lib.rs:201-215, callgraph.rs:126-176).
CallsMeetFunctions ==
    stage = "done" =>
        /\ \A a \in DOMAIN built : \A t \in CallsTo(a) :
            t >= MinTarget /\ InCode(t) /\ t < globalEnd =>
                /\ t \in DOMAIN built
                /\ OneName(t) /\ Speaks(a) => built[t].name \in graph[built[a].name]
        /\ \A n \in DOMAIN graph : \A m \in graph[n] :
            \E a \in Namesakes(n) : \E t \in CallsTo(a) :
                \/ t \in DOMAIN built /\ m = built[t].name
                \/ NamesCall(t) /\ m = Sources[FirstSource(t)].name
=============================================================================
