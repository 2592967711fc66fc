# A TLA+ model of Corpo Fractum

Corpo Fractum (workspace `rustdec`) turns an ELF, PE or Mach-O binary into C,
C++ or Rust pseudo-code. This directory has TLA+ modules for the parts of it
whose correctness is a matter of order, interleaving, graph algorithms or many
small steps on shared tables, the TLC configurations that check them on small
instances, and TLAPS proofs of what matters most for instances of every size.

Run from this directory:

    tlc -config BridgeSafety.cfg MCBridge      # and so on, see "Runs"
    tlapm BridgeProofs.tla                     # and so on, see "Proofs"

Paths below are relative to the repository; `analysis/` stands for
`crates/rustdec-analysis/src/`, `lift/`, `codegen/` and `loader/` for those of
the other crates, `gui/` for `rustdec-gui/src/`.

## The system

A binary goes through a pipeline of pure functions:

    loader -> disassembler -> function detection -> build_cfg (per function, in parallel)
           -> lifter passes -> dominance / structurer -> code generators

The command line runs it once, on one thread, and writes files. The GUI runs it
in a Tokio task per opened file and shows the results as they come.

| Part | State it keeps | Operations | Talks to | What makes it correct | What is hard |
|---|---|---|---|---|---|
| Analysis bridge, `gui/bridge.rs` | language; function map, order and section map; listeners | `load_file`, `set_language`, `select_function`, `select_all_functions`, `select_section`, the drain future | Tokio tasks by an async channel, panels by callbacks | every event of a load is heard once, in order; what the user can click exists | loads overlap without limit, none is cancelled, events carry no load |
| Explorer, `gui/ui/explorer.rs` | rows, section buttons, counter, sensitivity of "full script" | bridge events, clicks, search filter | bridge | rows and buttons lead to what they name; the list is that of one file | cleared at another moment than the bridge's maps |
| Code panel, `gui/ui/code.rs` | the text buffer, its tags, a `highlighting` flag | bridge events, idle ticks of the highlighter | bridge | the placeholder goes away; what stays is coloured to its end | idle ticks go on over a later text |
| Graph panel, `gui/ui/graph.rs` | nodes, edges, selection, view | bridge events, layout, clicks, drag, wheel | bridge | a click selects what is drawn; boxes are apart; the view keeps its point | recursion, boxes of different heights, clamped zoom |
| Console and log layer, `gui/ui/console.rs`, `gui/log_layer.rs` | an unbounded log channel, a counter | records, drain | tracing, bridge | each record is shown once | a second activation shares the receiver |
| Application and splash, `gui/app.rs`, `gui/splash.rs` | dismissed flag, callbacks | activate, dismiss, two timers | bridge | the window is presented once | several ways to dismiss |
| Pipeline, `analysis/lib.rs` | none between calls | `analyse` | all of the crate | every instruction has one function, every function its graph | overlapping sections, inverted ranges |
| Function detection, `analysis/functions.rs` | the set of entry points | four stages | disassembler | no entry is lost | textual matching of operands |
| CFG builder, `analysis/cfg.rs` | leaders, open block, pending edges | `build_cfg` in three passes | structurer, dominance, lifter | blocks tile the code, edges are the flow of control | targets outside the function or inside an instruction, holes |
| Dominance, `analysis/dominance.rs` | dominator tree | `dominates`, `dominated_by`, `find_natural_loops`, `find_convergence` | (no caller yet: public interface) | loops are natural loops | self-loops, dead blocks, merged loops |
| Structurer, `analysis/structure.rs` | back edges, order, tree | `structure_function` | code generators, once per function | each block is in the tree once, each loop is a loop | irreducible graphs, arms that are elsewhere |
| Call graph, `analysis/callgraph.rs` | nodes by name, edges by address | `build_call_graph` | graph panel | nodes and edges match calls | two functions with one name |
| String recovery, `analysis/string_recovery.rs` | candidates, offset of the scan | scan, references, choice | `analyse`, DWARF | literals do not overlap and end where their bytes do | the step from one literal to the next |
| IR, `crates/rustdec-ir` | stack-slot table per function | lookup, insertion, classification | lifter, generators | one slot per offset | - |
| Lifter, `lift/` | id counter, register table per block, slots, substitution | seeding, x86 lifting, frame analysis, dead assignments, constants, copies through slots, canary, arguments | generators | statements do what instructions do, and each pass keeps what it must | two names for a register, one id counter for all handlers, edges beside terminators |
| Generators, `codegen/` | copy table | `emit_module` for three languages | bridge, command line | the text says what statements and tree say | copies of copies; emission stops after a return |
| Loader, `loader/` | the parsed object | `load`, DWARF walk, string extraction, symbol map | pipeline | tables say what the bytes say | depths summed from deltas, entries that refer forward, two scans over each byte |
| Disassembler, `crates/rustdec-disasm` | none | `disassemble`, classification of instructions | all of the analysis | classification of jumps and returns | AT&T suffixes |
| Command line, bench, Lua | none to speak of | sequential calls | - | - | - |

The only concurrency is in the GUI. One GTK thread runs all callbacks and the
future that drains the channel; Tokio's threads run the loads. `rayon` in
`analyse` maps a pure function over the ranges and joins. Nothing is persisted,
so there is no crash recovery, and the channel is in memory, so nothing is lost
or duplicated by a medium.

## Modules

| Module | Models |
|---|---|
| `BridgeEvents` | `BridgeEvent` and the stream of events of one load (`bridge.rs` 97-113, 281-295) |
| `Explorer`, `CodePanel`, `GraphPanel` | the three panels as listeners: one `...On(ev)` action per panel |
| `Bridge` | composes them: user callbacks, one task per load, channel, drain future, name maps |
| `AnalysisFeed` | abstract: what a listener hears of each load, with no channel and no task |
| `BridgeProperties`, `MCBridge` | properties; catalogues of two binaries |
| `BridgeProofs` | theorems about the bridge, the refinement of `AnalysisFeed` among them |
| `Highlighter` | the idle callbacks that colour the code panel's text |
| `GraphLayout`, `GraphView`, `MCGraph`, `GraphProofs` | `extract_call_graph` and `layout`; the canvas handlers on a layout; programs; theorems |
| `FunctionDetection`, `Pipeline`, `MCPipeline`, `PipelineProofs` | `analyse` from sections to call graph; files; theorems, those about the loader's tables included |
| `CfgBuilder`, `CfgProperties`, `MCCfg`, `CfgProofs` | `build_cfg` |
| `FlowGraph`, `FlowGraphProofs` | the graph `build_cfg` hands on, with reachability and domination by definition; what these mean, and lemmas several modules need |
| `Structurer`, `StructurerProperties`, `MCStructurer`, `StructurerProofs` | `structure_function` |
| `Emission` | `emit_node` of the C generator over the structurer's tree |
| `DomTree`, `NaturalLoops`, `Convergence` | the dominator tree and the two analyses on it |
| `Dominance`, `MCDominance`, `DominanceProofs` | their composition, its properties and the theorems |
| `LiftIR`, `X86Lift`, `FrameAnalysis`, `LiftPasses` | statements; lifting of instructions; `analyse_frame`; `lift_function` with its passes |
| `LiftProperties`, `LifterProofs` | meanings and properties; theorems |
| `CText`, `MCLifter` | the statements as the C generator prints them, copies substituted; functions |
| `DwarfReader`, `StringTables`, `MCLoader` | `dwarf::parse`; then the string tables of `strings.rs` and `string_recovery.rs`; files (theorems in `PipelineProofs`) |

Composition: `Bridge` joins the panels; `Emission` extends `Structurer`, and
`CText` the lifter, so that each checks its text against what was structured
and lifted in the same run; `Pipeline` extends `FunctionDetection`,
`GraphView` extends `GraphLayout`, `StringTables` extends `DwarfReader`. Between
the large stages the hand-over is a constant of the next one, with an
assumption that says what the stage before makes: `ProgramAssumption`,
`GraphAssumption`, `LiftAssumption`.

**Bridge.** State and code: `loads` are the captures of the spawned tasks,
`outcome` how `spawn_blocking` ended (ok, error, panic: a `JoinError`), `sent`
how far the task has got in its `tx.send` calls, `chan` the channel, `fnMap`,
`fnOrder`, `secMap` the maps of `AnalysisBridge`. `LoadFile` is `load_file` up
to the spawn, including the `AnalysisStarted` it tells the listeners itself.
`AnalysisEnds` and `Send` are the task. `Drain` is one turn of the drain loop:
maps first, then every listener. `ActivateRow`, `ClickNode`, `ClickSection`,
`ClickFullScript` and `SetLanguage` are the user's callbacks with the whole
chain of calls behind them. A callback runs to its end on the GTK thread, so
one action per callback is the code's atomicity. Fields `load` and `pos` of an
event, `alone` of a load and the variable `heard` are ghosts: no action's choice
depends on them except to record. Text is abstracted to the pieces it is made of.

**Highlighter.** `idle` is the set of callbacks in the main loop, each with the
line it goes on at (`next_line`); one run of one callback is a step
(`Tick`). A callback of an earlier text is not taken out and colours whatever
the buffer holds: the number of the text it was entered for is a ghost that
only fairness reads. The flag `highlighting` is kept as the code keeps it:
written, and read by nobody.

**Call-graph panel.** `GraphLayout` goes through `extract_call_graph` and the
steps of `layout`: names and slots, edges with their call sites, Kahn's order
and layers, ranks, positions, tops. Ranks are multiples of `Unit`, a number
that makes the means of the code whole. `GraphView` has a handler per action:
motion, click, drag, wheel. The scale and the view's offsets are fractions: a
notch of the wheel halves or doubles, and an offset is kept as a number of
parts of a pixel together with how many `parts` a pixel has, so that no step rounds.
`panned` is a ghost.

**Pipeline.** `FunctionDetection` disassembles section after section, sorts,
and goes through header, symbols and calls one at a time; `Pipeline` makes the
ranges, runs the tasks in any order (`BuildFunction`), and builds the call
graph. An instruction is its address, its size, whether it calls or leaves its
block, and what its operand's text has for a number: `branch_target` finds one in
`*0x2fe2(%rip)` as well. A task takes instructions twice: `build_cfg` a slice of the
sorted list, from the index `addr_to_idx` has for the entry (`Body`), which it
cuts into blocks (`Leaders`, `BlockLast`); and `lift_function`, for each block,
whatever has an address in it (`Lifted`). Where sections overlap the two differ,
and calls come from the second. Which of them are `kept` by the passes on dead
assignments is any subset, chosen by each task: the passes themselves are the subject of
`LiftPasses`. Names are texts that need not differ.

**CFG builder.** A function is a list of instructions with address, size, kind
and target; `leaders`, `current`, `blocks`, `jumps`, `branches`, `edges` are
the local variables of `build_cfg`. One action per instruction and kind in pass
2, one per pending entry in pass 3. An empty list is the code's early return.

**FlowGraph.** Graphs as `build_cfg` can make them: the false arm of a branch
is always the next block, a lost jump or branch names block 1 and has no edge,
and edges are listed last added first, as petgraph does. `Spread`, `Reachable`
and `Dom` are reference definitions, used only in properties and for petgraph's
`simple_fast`, which is external.

**Structurer and emission.** `stack` holds the recursion of `dfs_back`;
`inDegree`, `queue`, `popped`, `free` those of Kahn's algorithm; `at` is the
index of `build_sequence`. `collect_arm` is modelled by its result: its set of
taken nodes starts with the target and only ever gets the node just taken, so
an arm is the target block, or nothing if the target is not in the rest of the
order. `Emission` prints the tree, one step per node of the outermost sequence;
a line is what it says and of which block, and `wordy` is a block whose
statements have the word `return` in them, for `emit_node` searches the text.

**Dominance.** `find_natural_loops` goes edge by edge; the walk of `dominates`
up the tree and the worklist of `compute_loop_body` are steps. The worklist is
a set taken from in any order (the code pops the last), so the result is shown
not to depend on the order. `find_convergence` follows, for any one block. The
sets of the code are sets; `latches`, a `Vec`, is a set too, for a branch with
both arms on the header is pushed twice and nothing reads the duplicates.

**Lifter.** `X86Lift` has one action per handler of `lift_insn`: `regs` is the
`RegisterTable`, `nextId` the counter `next_var_id`, `names` the map
`reg_names`, `pc` the place in the block. Memory operands have base, index
times scale and displacement, or `rip`, or no base, and `Address` is
`emit_addr`, which emits a statement only for what is there. `SeedBlock` and `EndBlock` are the
frame of the loop in `lift_function`. `LiftPasses` has the passes in the order of
`lift_function`, one action per pass, or per round or per pair where a pass goes
on until nothing changes (`DropDead`, `NextRound`, `PatchBranch`); `stage` is the
pass under way. `FrameAnalysis` has the sets and folds that `analyse_frame` is
made of. Where the code takes the first seed a hash map yields, or the keys of
one in turn, the model takes any. A statement of the code is a record with its
operator, arguments and target; types and comparisons of the branch condition
are left out.

`LiftProperties` gives statements and instructions a meaning: a fold that
computes each value as a term over what the registers and the memory hold when
the block is entered, with the stores and calls in order. Neither fold looks at the
lifter's state, so `StatementsDoTheCode` compares two independent readings of
one block. It claims nothing once a register was read under a name that does
not follow its other name, arithmetic has an operand in memory (which the code
replaces by the id 9999 without a load), after `xchg` and opaque instructions,
or when `div` has more than `rax` to divide: each of these is a difference
listed below. A load from a slot is taken to be of that slot alone.

`CText` has the copy table with its flattening, the substitution (`Root` is
`resolve`), and which statements and arguments are printed at all;
`TextDoesTheStatements` reads the text with the same meaning.

**Loader.** `DwarfReader` walks units entry by entry, `depth` being the sum of
gimli's deltas: once for the names of types, once for functions, variables and
types, then the line rows. `StringTables` follows with both scans over each
section byte by byte, with the code's `start`, `i` (`pos`) and `buf`, and, when there
is debug information, the scan, scoring and choice of `recover_strings`. A byte is one of
five kinds, which is all that the scans tell apart.

## Runs

| Run | Property | Shows |
|---|---|---|
| `BridgeSafety` | `ChannelInOrder` | of each load the channel has exactly what was sent and not heard, in order |
| | `RowsAreSelectable` | rows, buttons and ordered names are in the maps at every moment |
| | `RowsEndTheOrder` | rows are the last names of `function_order` and the counter counts them |
| | `SerialPanels` | without overlap lists, buttons and graph are the last file's, rows and buttons lead to its code, and the code panel has nothing else under one of its names |
| | `FeedSpec` | the bridge implements `AnalysisFeed`, its liveness included |
| | `PlaceholderGoesAway` | the placeholder never stays |
| `Highlighter` | `TextIsColoured` | a function that stays on the screen is coloured to its last line, whatever earlier callbacks do |
| `GraphSafety` | `NodesApart` | no two boxes touch |
| | `CallsGoDown` | callers stand above callees, but in and behind a recursion |
| | `SitesAreCalls` | one edge per name called, with the number of calls |
| | `HoverIsThere` | the highlighted node is the one under the pointer, whatever was zoomed |
| `PipelineSafety` | `OneOwner` | each instruction behind the first entry point is in the range of one function |
| | `RangesAreLifted` | a task lifts the instructions of its range, both of two at one address, and no others but those under one that runs over the end; left out is only what stands behind an exit or jump and a hole |
| | `CallsMeetFunctions` | calls and edges of the call graph match, where names do |
| `CfgSafety` | `BlocksTile` | blocks do not overlap, lie in order, id = place, entry first |
| | `OnlyHolesLoseCode` | an instruction is left out only behind a hole that follows the end of a block |
| | `FlowKept`, `EdgesAreFlow` | edges are exactly the flow of control, but for branches with an arm outside |
| `StructurerSafety` | `OrderIsPermutation`, `OrderFollowsEdges` | the order has each block once and follows all edges that are not back edges, but for dead cycles |
| | `NaturalLoopsAreSeen` | the search finds every back edge that domination defines |
| | `LoopsKeepBlocks` | a tree without if/else neither loses nor repeats a block |
| | `OneExitIsWhole` | a function with one exit is printed with every block |
| `DominanceSafety` | `BodiesOfLatches` | a loop's body is the least set it may be |
| | `LatchesAreBackEdges` | all back edges and no others, one loop per header |
| | `LoopsNest` | two loops nest or are disjoint |
| | `AnswersLieAround` | `find_convergence` answers with the lowest block both arms lead to around all the branch dominates: `None` for a plain if |
| `LiftSafety` | `StatementsDoTheCode` | after each instruction the statements have done what the instructions did |
| | `SingleAssignment` | an id is assigned once in a function |
| | `ReadsAreDefined` | what is read is a register as the block itself found it, or computed before in that block, in the passes up to the frame; while lifted, the targets of indirect calls too |
| | `ConstantsKeepValues` | symbols in the place of arithmetic change no block's effects |
| | `PropagationIsCopy` | copies through slots change no block's effects, if each slot is stored to first |
| | `EdgesFollowTerms` | edges and terminators agree in every pass |
| | `TextDoesTheStatements` | with copies substituted the text has the stores and calls of the statements |
| | `PassesEnd` | every function is lifted in the end, chains and circles of copies included |
| `LoaderSafety` | `NamesFollowTypes` | a type's name does not depend on where it stands in its unit |
| | `TypesStandUnderRoots` | types are those right under a root, in the order of the file |
| | `TablesAreText` | entries are the text at their address, and no long enough literal is missed |
| | `RecoveredAreDisjoint` | recovered literals share no byte, are the bytes at their address and cross no zero |

Three runs show differences between the repository's words and its code:

| Run | Property | What TLC finds |
|---|---|---|
| `BridgeScript` | `ScriptIsOfTheFile` | after a second file was opened, one load at a time, the full script begins with the functions of the first (`gui.md:76`, `explorer.rs:139`): the event that clears the maps never enters the channel |
| `EmissionCut` | `NothingLiveIsCut` | an `if` that returns in one arm ends the printing of the sequence, and what the other arm goes on to is missing (`c.rs:333` says it is unreachable) |
| `LiftTargets` | `TargetsAreThere` | the first round on dead assignments drops what computes the target of an indirect call: `collect_reads_expr` (`lib.rs:415`) counts arguments only, `lib.rs:345` says every operand |

**Bounds.**
- *Bridge:* `MaxLoads = 2`: the hazards need two loads, one that
  goes on while the other starts; a third adds no kind of interleaving, and the
  proofs cover any number. One file has two functions and two sections of the same
  name, the other a section of that name and an import called as the functions of
  the first, since maps keyed by name are where files meet; and a file may be
  opened twice. Two languages.
- *Highlighter:* texts of up to six lines, two lines per tick (250 in the code):
  none, one or two ticks remain when the text changes; three texts, so that two
  callbacks of earlier ones are left in the main loop.
- *Call graph:* three functions with any of eight lists of callees, which gives every
  cycle of three, self-calls, unknown callees and two of one name; four for crossings.
  Box sizes and gaps are the code's, `Unit = 60`. Five events on the
  canvas reach both ends of the clamp and go back, with a drag in between.
- *Pipeline:* two sections of two or three instructions with a hole between
  them, in either order, or over each other: two instructions at one address, of
  the same size or not, and one over the entry of the next function. Calls, jumps
  and exits in all places; entries and symbols at, between and
  behind them. Addresses are small, so `MinTarget` is 3 instead of 0x1000.
- *CFG builder:* functions of three instructions have every kind of pass-2 and
  pass-3 case at once (a target inside, at the end, in the middle of an
  instruction, outside; a hole before each instruction).
- *Graphs* of four blocks have nested, overlapping, irreducible and dead
  cycles, parallel edges and diamonds. `EmissionCut` takes those without cycles.
- *Lifter:* one block with any two of sixteen instructions between any prologue
  and epilogue, or one of some twenty others with any of all, or three blocks with a
  branch, or a canary's check before, after or instead of the rest; six 64-bit
  registers, one of them with a 32-bit name, one argument, three registers of a
  system call: two instructions make every pair of writer and reader. Copies of
  copies, copies in a circle, and constants that fold to an address are added
  by hand. `Rounds = 16` and `FrameSizeBound = 65536` are the code's own.
- *Loader:* any three of some two dozen types, referring to each other,
  themselves and another unit; any four entries in every nesting; two units of every pair
  from a small list. `MaxTypeDepth = 2` (8 in the code) ends chains of three entries.
  Sections of five bytes of every kind, eight of text and zeros, two sections
  that meet or overlap; `MinString = 2` and `MaxString = 4` (4 and 1024), so that
  too short, exact and too long texts all fit; `Near = 3` (0x1000).

**Deadlock** is off for the bridge, the call graph and the highlighter: with
the events bounded the user may have nothing left to do. The algorithms end in
a state that stutters explicitly (`Returned`), so that a missing case is found
as a deadlock.

**Fairness.** Bridge (`FairSpec`): each task is polled when it can go on (Tokio's
scheduler; the blocking analysis returns or panics), each `send` on an
unbounded channel completes, and the GTK main loop polls the drain future. The
user owes nothing: no fairness on any callback. Highlighter: the main loop runs
every idle callback that is in it. The lifter's `FairSpec` says that a thread
in `lift_function` runs on until it returns.

**Mutations.** Operators commented "Mutation" are bugs the code does not have.
Each property of a passing run is violated when one of them takes the place of
the definition after it.

## Proofs

| Theorem | Module | Property |
|---|---|---|
| `TypeCorrect` | `BridgeProofs` | types of the bridge and its panels |
| `TypeAndSelection` | `BridgeProofs` | types and `RowsAreSelectable` together: the inductive invariant the other bridge theorems use |
| `ClicksFindTheirTarget` | `BridgeProofs` | `RowsAreSelectable` |
| `RowsAlign` | `BridgeProofs` | `RowsEndTheOrder` |
| `ChannelKeepsOrder` | `BridgeProofs` | `ChannelInOrder` |
| `PlaceholderHasCause` | `BridgeProofs` | the placeholder is shown only while a load has not settled |
| `BridgeImplementsFeed` | `BridgeProofs` | safety half of `FeedSpec` |
| `SerialLoadsShowTheirFile` | `BridgeProofs` | `SerialPanels` |
| `EveryInstructionHasOneOwner` | `PipelineProofs` | `OneOwner` |
| `TasksLiftTheirRanges` | `PipelineProofs` | `RangesAreLifted` |
| `CallsHaveEdges` | `PipelineProofs` | `CallsMeetFunctions` |
| `ShapesAreKept`, `TheBlocksTile` | `CfgProofs` | types of the builder, `BlocksTile` |
| `HolesAloneLoseCode` | `CfgProofs` | `OnlyHolesLoseCode` |
| `TheEdgesAreFlow`, `TheFlowIsKept` | `CfgProofs` | `EdgesAreFlow`, `FlowKept` |
| `SpreadIsLeast` | `FlowGraphProofs` | what reachability means, in all modules on graphs |
| `TheOrderIsAPermutation` | `StructurerProofs` | `OrderIsPermutation` |
| `BackEdgesOfNaturalLoops` | `StructurerProofs` | `NaturalLoopsAreSeen` |
| `TheOrderFollowsTheEdges` | `StructurerProofs` | `OrderFollowsEdges` |
| `LoopsLoseNoBlock` | `StructurerProofs` | `LoopsKeepBlocks` |
| `OneExitPrintsAll` | `StructurerProofs` | `OneExitIsWhole` |
| `LoopBodiesAreLeast` | `DominanceProofs` | `BodiesOfLatches` |
| `LatchesAreTheBackEdges` | `DominanceProofs` | `LatchesAreBackEdges` |
| `NaturalLoopsNest` | `DominanceProofs` | `LoopsNest` |
| `AnswersAreAround` | `DominanceProofs` | `AnswersLieAround` |
| `LiftAssignsOnce` | `LifterProofs` | `SingleAssignment` |
| `ReadsAreAtHand` | `LifterProofs` | `ReadsAreDefined` |
| `CanaryCutsFails` | `LifterProofs` | `EdgesFollowTerms`, and that the canary takes out only ways that fail |
| `EdgesCountCalls` | `GraphProofs` | `SitesAreCalls` |
| `BoxesAreApart` | `GraphProofs` | `NodesApart` |
| `SteadyCallsGoDown` | `GraphProofs` | `CallsGoDown` |
| `PointerKeepsItsNode` | `GraphProofs` | `HoverIsThere` |
| `NamesAreAsSpelt` | `PipelineProofs` | `NamesFollowTypes` |
| `TypesAreUnderRoots` | `PipelineProofs` | `TypesStandUnderRoots` |
| `ScannedTablesAreText` | `PipelineProofs` | `TablesAreText` |
| `RecoveredLieApart` | `PipelineProofs` | `RecoveredAreDisjoint` |

Assumptions: `CatalogAssumption` (the catalogue gives every file its
sequences), `ObjectAssumption` (files have their fields, and disassembly goes
through a section once, from its start), `ProgramAssumption` (instructions in address
order, disjoint, below the end), `GraphAssumption` (terminators `build_cfg` can
make), `LiftAssumption` (blocks as `build_cfg` makes them: goals inside the
function, two for a branch), `RegisterAssumption` (the names of registers the
handlers look up are among those a block starts with), `LayoutAssumption`
(programs have their fields, sizes and gaps are natural numbers, no gap and
no padding is zero), `ViewAssumption` (the programs viewed are among them, points and drags
are integers, and the scale starts inside its clamp), `DwarfAssumption` (entries have their
fields, and the first of a unit is its root), `FileAssumption` (sections have their
fields, and the shortest and the longest literal have a byte). TLC
evaluates all ten in the runs, and so the assumptions of modules without proofs (`ArityAssumption`,
`HighlighterAssumption`).

- *Bridge.* Its `TypeOK` is not inductive: a drained event must be well formed.
  `ChannelOK` says each event in the channel is the one its load's task sends
  at that place, of a load that was made and has ended, and so never an
  `AnalysisStarted`: the arm that clears the maps is dead, which is why rows
  stay selectable. `RowsAreSelectable` then follows with types, `RowsEndTheOrder`
  from both. For the feed, `HeardOK` adds that what was
  heard is, event by event, what the task sends; with `ChannelInOrder` the head
  of the channel is the next event of its load, so `Drain` is a `Hear` of the
  abstract specification and `LoadFile` a `Start`; all else stutters.
- *Bridge, one load at a time.* `SerialPanels` speaks of runs in which each load
  was made when all there is to hear of the earlier ones had been heard (the
  ghost `alone`). It is not inductive: it does not say what is yet to come.
  `SerialInv` says that all loads but the last are complete, and reads off the
  number of events heard of the last one what each panel shows (`PanelsAfter`);
  the event drained next is then the one that takes the panels from `n` to
  `n + 1`, and the piece it puts in a map is the last load's. What a click or the
  full script shows comes from the maps, under the name it is kept under
  (`MapKeepsNames`), and the script can be asked for only when every function of
  the file is in the maps: so a name of the file never shows another file's code.
- *Recursion.* Reachability, counts and sums are recursive functions over the
  natural numbers. The library's induction theorems are out of the provers' reach;
  `FlowGraphProofs` states what is needed of them once, without an operator as
  parameter: a set of naturals that is not empty has a least element (from the
  well-foundedness of the naturals), so a set that has 0 and every successor has
  all of them, and a function defined by recursion exists and unfolds.
  `SpreadIsLeast` is the main use: rounds only grow, cannot grow more often than
  there are blocks, and what no longer grows is closed, so that `Spread` is the
  least closed set with its starts. What is proved about searches is stated of
  closed sets from then on, and dominators form a chain by a block without
  which one of two could not be reached.
- *Pipeline.* The sort comes first: the place of an instruction is the number of
  those before it, no two share one, and as there are as many places as
  instructions, each is taken (`PlacesAreTaken`), so the sorted list is in order and
  invents nothing. `PipeInv` keeps that every instruction is below the end of the
  code, that the list is sorted, and what ranges and bodies were made from. The
  owner of an address is then the greatest entry point at or below it
  (`GreatestOf`, from the well-foundedness of the naturals): the next one is
  above the address (`RangesCover`); and of two ranges the lower ends where the
  higher begins or before (`RangesApart`). A slice starts at the last
  instruction with the entry's address (`LastAtAddress`), and in a sorted list what
  lies behind it and below the end are the addresses in between (`BodyFacts`). What a
  block's bounds take in by address is in the range, unless its last instruction
  runs over the end (`LastFacts`). An instruction of the slice that is not lifted
  lies behind the block of the last opener before it, so the block's last instruction
  left it, and nothing between leads anywhere (`LiftedOrSkipped`). One before the slice
  has the entry's address, where the first block begins.
- *Pipeline, calls.* `MeetInv` adds to `PipeInv` that every call scanned so far has
  its target among the entry points (`Scanned`), that there is a last entry
  point, what each task left, and what the graph was made from. Below the end of
  the code an entry point has a range, hence a task. A call the lifter keeps has
  its name from the first source of names for its target, which is the name of the function
  there unless the target has several.
- *CFG builder.* The layout is stated of the closed blocks with the open one
  (`Tiled(All)`); `Begun` adds that they end below the instructions to come and
  that the first instruction has opened the entry block. Pass 3 changes only
  terminators, which `Tiled` does not look at.
- *CFG builder, code and edges.* `WalkInv` follows the walk over the instructions:
  those behind it are in a block or lost behind a hole (`Walked`), an open block
  ends at the last of them (`Opened`), and for each block that ends in a jump or a
  branch, and for no other, there is a deferred terminator that names the addresses the
  instruction leads to (`Pending`). `EdgeInv` adds that the deferred terminators handled so far
  have their edges, if their targets are blocks, and that all edges are theirs or
  those of falling through (`Wired`): `EdgesAreFlow` and `FlowKept` read it from
  both sides.
- *Structurer.* `Counted`: in Kahn's algorithm a block's in-degree is the number
  of edges whose source is not yet ordered or not yet relaxed, parallel edges
  counted apart. So a block reaches zero once (`NoneLeft`), and order, queue and
  newly freed blocks stay disjoint (`EachOnce`); the safety net then adds the rest.
- *Structurer, back edges.* `SearchInv`: the stack is a path from the entry; edges
  looked at lead to finished blocks or up the stack, or are back edges. A
  block that dominates the top of the stack is on it, as the path goes through it,
  hence every edge to a dominator is a back edge. And of finished blocks there
  is always one no other leads to but by a back edge (`NoCycles`): the block that
  finishes last.
- *Structurer, order and tree.* `PredsFirst`: a block is placed behind its
  predecessors. The safety net, which knows no order, finds nothing to add: were
  blocks left over, each would have a predecessor among them, and by `NoCycles`
  one of them has none, unless dead blocks form a cycle. For the tree, `KeepInv`
  says that, as long as there is no if/else, what has been built has each block
  of the part of the order walked so far exactly once, and no other.
- *Emission.* `TreeInv`: nodes come in the order of their blocks (`DownClosed`): what
  stands before a block of a node is in that node or an earlier one, repeated
  arms included, and what has been walked is in the tree (`Covered`). A text is
  compared by its set of lines (`Prints`), the recursion of `FlattenSeq` being
  unfolded once; so the text has the blocks of the nodes printed, and the node that
  ends the printing has the exit, which is last, and with it everything before.
- *Dominance.* `Explored`: blocks off the worklist have all predecessors in the
  body. `Needed`: any set that has header and latch and is closed backwards has
  the body; it holds because the header is never on the worklist, which is what
  fails when the header is its own latch. Merging keeps both, for the union of
  two least closed sets is the least for both latches.
- *Dominance, loops and searches.* The walk up the tree meets all dominators of a
  block, since they form a chain (`Walking`); so after each pair of block and edge the
  latches are the sources of the back edges asked about (`LatchesSoFar`). Loops
  nest because the live part of a body is dominated by its header: two headers
  with a common block are in a chain, and the one further down, with what leads to it, is
  in the other's body or has nothing of it. A search that is under way has seen
  a set that is closed but for its queue (`Underway`); two that have ended give the
  answer, the least of what both found (`Chosen`).
- *Lifter, ids.* `LiftFacts`: ids below `nextId` only, and those a register
  starts a block with apart from those assigned. Each handler adds a sequence of
  statements whose ids are the next few from `nextId`, each once (`Fresh`), and
  moves the counter past them: `FreshJoin` puts two such sequences together,
  `ThenKeeps` one more statement of an address behind those it may have so far,
  `LiftedKeeps` and `MovedKeeps` take one into the function. The passes add no
  assignment. A round on dead assignments leaves a subsequence: `RetainsNext`
  and `RetainedAre` say of the recursion behind `Vec::retain` that each statement
  it leaves comes from a place of its own, and in the same order, so that
  `LiftFacts` carries over (`Traced`). All other passes put in place of a
  statement one with the same id or no assignment at all (`Replaces`).
- *Lifter, reads.* `BlocksRead`: the ids a statement depends on, the target of an indirect
  call among them, are those its block starts with, or assigned further up in the same
  block (`Sound`). `RegsInReach`, which the handlers need, says that the id each
  register has now is one of these. A handler's statements are put together like
  their ids are (`SoundJoin`), its registers come from them. Which ids are a
  block's own is told by counting: each register has as many as there are
  blocks (`SeedFacts`), and new ones are larger, so the b-th is block b's and stays
  so (`SeedsGrow`). The passes keep less (`BlocksFed`), which leaves the targets
  out: dead assignments are those whose id is not among the reads that are counted, so
  taking them out leaves every such read its statement, but may drop what a target is
  computed by (`LiftTargets`). Constants only take reads away.
- *Lifter, canary.* What terminators and edges say is one claim per stage:
  before the canary (`EarlyFlow`) edges are the arms of the terminators and both
  are those of the program; while predecessors are patched (`PatchFlow`) they
  agree, differ from the program only in goals that fail, and every remaining
  way to a failing block is among the pairs to come; afterwards (`LateFlow`)
  they agree outside the blocks that fail. Passes that rewrite statements keep
  all three (`SameFlowInv`).

- *Call graph, view.* A zoom keeps the point of the layout under the pointer: with the
  scale before and after it and the offset as exact fractions, the new offset is
  the one for which that point is where it was. A point and the node below it
  are compared by multiplying out, so that no division is left; and boxes being
  apart (`NodesApart`), no second node is there.
- *Debug information.* `WalkInv`: the sum of the deltas after an entry is the level of that
  entry, since the first is the root at level 0. `ReadInv`: what has been read so
  far are the functions and types of the entries `Behind` the reader, each at the
  place it has among them (`PlaceIn`), and an entry read later changes no place
  (`PlacesStay`). `MapFor`: the name in the map, for each entry behind, is the one
  its chain spells. That a name looked up in a map that is half collected is
  spelt the same is an induction on the length of the chain: at each entry the
  map has it already, spelt so, or the chain goes on (`ResolvedAsSpelt`).
- *String tables.* `TableInv`: every entry is the text at its address, and each long
  enough literal that ends before the scan's place is in the table; `AsciiSoFar` and
  `WideSoFar` say that `buf` is what lies between `start` and `pos`, and that the
  unit before `start` is not text.
- *Recovered strings.* `CandidatesOK`: a candidate's bytes are between its address
  and `start`, with no zero among them (`EndBy`), and `start` only moves on; the
  choice afterwards only takes candidates out.

Only model-checked, all other properties:

- liveness under fairness, which is out of the prover's reach:
  `PlaceholderGoesAway`, the liveness of `FeedSpec`, `TextIsColoured`, `PassesEnd`;
- what is compared with a recursive reference definition over statements or text:
  `StatementsDoTheCode`, `ConstantsKeepValues`, `PropagationIsCopy`,
  `TextDoesTheStatements`. They interpret what the lifter and the generator
  make, and take induction over the data they interpret.

## Differences between texts and code, without a run

Each was met while modelling; the model does what the code does. Documents are
those of `documentation/EN_IR/`.

GUI
- The maps that are never cleared (`BridgeScript`) have one more effect: a click on
  the node of an import shows a function of an earlier file, if one has the name.
  `SerialPanels` speaks of the file's own names only.
- `gui.md:157` says the drop-down changes the language of all later selections
  at once; `load_file` reads it once (`bridge.rs:247`) and what was decompiled
  keeps its language.
- `explorer.rs:178` enables "full script" when "all functions are ready"; the
  `AnalysisDone` of an earlier load enables it too.
- `gui.md:76` says the full script is all functions in order; `function_map`
  is keyed by name (`bridge.rs:168`), so of two functions with one name the
  second stands there twice. `BridgeSafety` has such a file.
- `code.rs:150` says only code is coloured; the callbacks of an earlier function
  go on over a hex dump that takes its place. The flag `highlighting` is written
  and never read. That every function is coloured to its end
  (`TextIsColoured`) rests on this: callbacks that stopped at the flag would
  stop each other.
- `graph.rs:23` says callers appear above callees; not in or behind a
  recursion (`CallsGoDown` has the exception): what Kahn's order does not reach is
  appended and takes its layer from whatever its callers have by then.
- `log_layer.rs:23` says the channel is bounded; line 35 makes it unbounded, and
  a second activation of the application shares its receiver, so that each
  record is shown in one of the two windows.

Detection, graphs, structure
- `functions.rs:10` says indirect jump tables are scanned; the fourth stage
  looks for `[`, and capstone is set to AT&T syntax, which has none.
- `branch_target` says an indirect operand has "no extractable immediate
  target"; of `*0x2fe2(%rip)` it takes the displacement. It says "bare hex"; it
  parses decimal.
- `cfg.rs:17` says both arms of a conditional jump are resolved in pass 3; when
  the target is outside the function the fall-through edge is lost too (`cfg.rs:268`).
  `cfg.rs:15` says the same of a direct jump; one that leaves the function keeps
  `Jump(0)`, the entry's id, without an edge.
- The condition of every `Branch` is the constant 0 (`cfg.rs:204`, "placeholder"),
  and nothing fills it in; the generator looks for the last comparison in
  the block instead, which need not be the one the flags come from.
- Of two functions with one name the call graph has the callees of the last
  only (`callgraph.rs:138`); `build_symbol_map` keeps the first of two symbols at
  one address, detection the last.
- `structure.rs:260` skips "the nodes consumed by both arms", by the longer of
  the two (`structure.rs:244`): of two arms of one block each, in a plain
  if/else, the second is emitted again after the if; and when an arm is
  elsewhere in the order, a block is skipped that no arm has.
- The arm taken starts with the branching block itself (`structure.rs:257`), whose
  statements stand behind the condition computed from them.
- `build_loop` consumes the order from the header on, whether the blocks belong
  to the loop or not.
- `analysis.md:103` says the order is topological; cycles that nothing leads to
  are not searched for back edges (`OrderFollowsEdges` has the exception).
- `analysis.md:105` says a loop header becomes a `Loop`; one that is the arm of
  a branch becomes a plain block of the arm (`structure.rs:395`).
- `dominance.rs:180` says a loop's body reaches the latch without passing
  through the header; when a block jumps to itself the search (`dominance.rs:194`)
  starts at the header and takes in all blocks before the loop.
- `dominance.rs:212` and the `README.md:115` of `rustdec-analysis` say `find_convergence`
  finds the post-dominator of a branch, where its arms meet again. What it answers
  is `AnswersLieAround`, which contradicts them: when the branch dominates the block
  where its arms meet, as in any plain if, the answer is `None`, and otherwise it is
  a block that control also reaches around the branch. Line 240 calls the blocks
  it never enters "inside the if-else". Nothing calls the function, so no
  output shows it. Line 112 of that README lists `dominance_frontier`, which does not exist.

Lifter
- `lift.md:64` says writing a 32-bit register zero-extends to 64 bits; only
  `mov` and `movsx` do it: after `xor eax, eax` the value under the name `rax`
  is the old one (`x86.rs:638`, `x86.rs:652`).
- Arithmetic, `cmp`, `movsx` and `push` with an operand in memory read id 9999
  (`x86.rs:783`), which nothing assigns; loads and stores relative to `rip` read 916,
  though `lea` computes the address (`x86.rs:590`).
- Ids 900 to 931, 9999 and 10000 to 19999 stand for registers, memory and
  slots; "a single function would need >900 SSA variables to collide"
  (`x86.rs:838`), and each block takes sixteen before its first instruction.
- `xchg` stores through the values of its operands and exchanges nothing
  (`x86.rs:203`, "simplified"); `adc` and `sbb` take no carry (`x86.rs:619`);
  `div` divides `rax` alone, while the `cqto` that fills `rdx` is opaque.
- Instructions with one operand that go through `lift_binop` (`mul %rcx`,
  shifts by one) have an empty destination: they read the unknown register 931
  and their result is lost; `imul` with three has a destination of two names.
- `movslq` and `movzbl`, as capstone writes them, are unknown mnemonics and opaque.
- The dropped targets of indirect calls (`LiftTargets`) go on: the text has a call
  through a variable it never sets, and the slots that only such a target reads
  count as not read. `StatementsDoTheCode` holds as the lifter made the statements;
  the properties of the passes compare each pass with the one before it.
- A call whose result nobody reads is dropped as a dead assignment
  (`lib.rs:378`), and with it its effect; so are `rep` and other opaque
  instructions. `lift.md:176` says the check of the canary is removed as a whole; its
  call's result is read by nobody, so it is found only where the call survives.
- `lift.md:137` says each offset becomes a slot; all accesses through `rbp` are
  at distance 0 from a base id (`frame.rs:225`) and so one slot, indexed ones
  included. `frame.rs:112` says the frame is the largest `sub`; the code takes
  the first.
- `lift.md:170` says a slot is propagated if written once with a constant and
  read without intervening writes; the code (`lib.rs:557`) takes any value, of
  slots written and read once, in whichever order and blocks.
- `lib.rs:455` speaks of the seed id of a register as of one; there is one per
  block, and the code takes whichever the hash map yields (`lib.rs:473`,
  `frame.rs:98`), which may not be the entry block's. The test for seeds that
  are written (`lib.rs:520`) never holds: seeds are never assigned
  (`SingleAssignment`).
- A slot's id, offset + 14096, is below the range of slot ids for offsets below
  -4096 (`frame.rs:645`).

Pipeline
- When sections lie over each other, as in a relocatable file whose sections are
  all at 0, the blocks of a function are made from one of two instructions
  at its entry (`lib.rs:103`), and its statements from both
  (`rustdec-lift/src/lib.rs:39`); two blocks that begin at one address have both
  instructions each. An instruction that runs over the end of its function's range brings
  the next function's with it. "Instructions at `addr >= end_addr` are ignored"
  (`cfg.rs:31`) holds for `build_cfg` alone.

Generators
- `resolve` (`c.rs:252`) follows copies by calling itself; copies that go round in
  a circle, which slots can make, would have it call itself without end.
- `c.rs:467` says arguments of a system call are printed "up to the first
  unwritten var"; every unwritten one is left out wherever it stands, so that later
  ones move up. Calls do the same.
- The generators of C++ and of single functions work with an empty string table
  (`cpp.rs:18`); `codegen.md:42` says `UInt(8)` is `uint8_t`, the code says `char`
  (`c.rs:214`), and `int` for `SInt(32)`.

Loader
- With debug information the recovered strings replace the table of all
  sections: literals end at control characters, and those of other sections are gone.
- `string_recovery.rs:447` says only strings of high confidence are returned; a
  candidate has 0.65 as soon as there is code (the step "score"), so all are.
- `string_recovery.rs:145` reads the bytes of the file up to the section's size
  in memory and panics when there are fewer (the step `Panic` of `StringTables`);
  line 396 takes addresses modulo the size in memory of a section with code, which may be
  0 in a PE file (`PanicInScore`).
- The wide scan of `strings.rs` may take the last character of a narrow string
  as its first; `TablesAreText` says what the entries are, not that they were meant.
- A location given by an expression is 0 or 16, not what the expression says
  (`dwarf.rs:977`, "placeholder"). Variables in
  inner blocks and functions whose name is at their declaration are missed.
  `low_pc` plus an offset may overflow (`dwarf.rs:867`).
- `dwarf.rs:333` says the map has the name of every type, to resolve references. A
  pointer with a name of its own is in it under that name (`dwarf.rs:363`); one
  that is not in it yet gets a name made of what it points to
  (`dwarf.rs:434`). What a `const` before such a pointer is called depends on
  the order, and `NamesFollowTypes` leaves these chains out.

## Not modelled

- Rendering, formatting, styles; the explorer's search filter, which only hides
  rows; hex dumps; static tables (`Arity` and `MinTarget` are what of them
  matters); the parsers of goblin, gimli and capstone.
- *Application, splash, console.* Their order is GTK's; the program's own state
  is one flag and one counter that nothing else reads.
- *C++ and Rust generators, command line, bench, Lua*: sequences of calls, with no
  state that a step could leave wrong.
- *Lifter:* types; `lift_binop` and `lift_div` under `and`, `or`, `xor`, the shifts,
  `mul`, `adc`, `sbb` and `idiv`, whose constants fold by operators on bits, which
  a module with theorems cannot use. Recognition of arrays: it takes two local
  slots, and there is at most one.
- *String recovery:* encodings and the text form of literals.
- *DWARF:* decoding of attributes, files of line rows, values of enums.
- Function ids near 900 (hazard `x86.rs:839`): no function that TLC can enumerate
  has so many.

## Plan

Written in this order: the bridge, because all concurrency is in it;
the CFG builder, whose output all later stages trust; structurer and dominance,
which read it; the lifter, which rewrites most; what turns both into text;
detection and ranges, the call graph and its canvas, the highlighter, and last the
loader's tables.

Left, most important first:

1. Proofs: `PropagationIsCopy` and `ConstantsKeepValues`, on what is known of
   the reads of a block.
2. The lifter's operators on bits in a module of their own, without theorems.
