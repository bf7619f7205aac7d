# A TLA+ model of wasm-superopt

wasm-superopt shortens straight-line WebAssembly code. It cuts a module into
straight-line segments, runs each one on a symbolic stack machine, and looks for
the shortest instruction sequence with the same effect, by SAT (the default) or by
a backward A* search. This directory holds TLA+ models of its core, the TLC
configurations that check them, and TLAPS proofs. `PROJECT.json` maps every
definition to source lines; line numbers below are of `src/optimize/sat.rs` unless
another file is named.

## 1. Inventory

| part | state | operations | what makes it correct | here |
|---|---|---|---|---|
| SAT descent, `solve_sat_with_witness` (2637-2800) | best program, bound `ell`, blocking clauses, deadline, `saw_invalid_model` | build vocabulary / alphabet / CNF, check the original, ask for shorter models, block rejected ones | what it returns passed the checker, is no longer than the original, is minimal if in time; it ends; optimality is claimed of nothing else | `SatSolve`, `Minimizer` |
| SAT encoding (38-2041) | vocabulary V, alphabet, tables, clauses | `build_vocab`, `build_ops`, `encode`, `encode_opaque`, reachability pruning, `reconstruct` | every model runs from the segment's entry to its exit; the original program is a model; opaque instructions keep their inputs and order | `SatEncode`, `SatPaths` |
| acceptance check, `solution_valid` (`optimize/search.rs`) | none | storage, order, opaque inputs, grounding of stack and locals | rejects every program that differs from the segment | `Acceptance`, `Deps` |
| dependencies (`wasm/deps.rs`) | edge list, topological order, reachable sets | `compute_dependencies`, `simplify_dependencies`, `ops_respect_dependencies`, `storage_ops_preserved` | no two conflicting side effects change places | `Deps`, `Reduction`, `TopoReduce` |
| symbolic machine (`sym.rs`, `semantics/types.rs`, `wasm/stack_analysis.rs`) | stack, locals, values at segment start | `exec_with_meta`, `to_fin_state`, `stack_bounds_ops` | the value of every cell after every instruction, failure on underflow, overflow, unknown slots | `SymMachine` |
| materialization (`wasm/materialize.rs`, `wasm/segment.rs`) | a segment under construction | execute, collect metadata, bounds and dependencies | entry and exit states the rest can trust | `Segment` |
| A* search (`search.rs`, `search_graph.rs`) | heap, memo, best path, parents | pop, cut, merge, accept, expand | same promise as the SAT descent | `AStar` |
| A* peels and heuristic (`inverse.rs`, `heuristic.rs`) | goal, storage ids left, opaque ids used | one peel per kind of instruction; four lower bounds | a goal is a precondition of the peels that led to it; the bounds hold | `Peels` |
| canonizer (`optimize/canon.rs`) | e-graph, a cache from texts to ids, one from classes to ids | `canon`, `normalize_state`, `values_equivalent` | equal ids mean equal values, whatever was asked before; a yes stays a yes | `Canonizer` |
| split (`wasm/split.rs`) | the machine carried across chunks | cut, re-execute, new bounds | the chunks put together do what the segment does | `Pipeline` |
| segmentation (`wasm/parse.rs`, `wasm/functions.rs`) | open block, opaque ids, texts | cut at control flow, keep the supported operators | no instruction moved across control flow, none in two segments | `Blocks`, `Pipeline` |
| driver (`optimize/mod.rs`, `parallel.rs`, `optimize/statistics.rs`, `main.rs`) | results, progress counter, thread pool, one e-graph for the statistics | solve all items, sequentially or with rayon; sum up; check once more for the statistics | one result per item, in order, as if solved alone; statistics that say what was printed | `Driver`, `Batch` |
| locals (`optimize/locals/`) | blocks and edges, reaching definitions, webs, an assignment of slots | analyse, solve, rewrite a whole function | the rewritten function computes the same and costs no more; the iteration ends | `LocalsAnalysis`, `LocalsAlloc`, `Locals` |
| rule synthesis (`synthesis.rs`, `ruler.rs`, `value/`) | term set (an e-graph), proved pairs, the cache file | grow by size, compact, pair up, test, prove, collect, save | rules are equations; no term is passed over; a file is taken only if whole and for the request | `Values`, `Ruler`, `Synthesis` |
| AL interpreter (`al/`) | none | evaluate definitions of the Wasm specification, concretely and for Z3 | | not modelled: `Values!Apply` |

The parts interact by calls. `main` loads or synthesizes the rules, parses the module,
splits and materializes the segments and hands them to the driver, which calls one
backend per segment on a pool of threads; the backend asks CaDiCaL or expands goals and,
for every program it is offered, asks the acceptance check, which runs the symbolic machine
again. `--opt-locals` is a pipeline of its own over whole functions. Threads share a
progress counter and the console; programs that run one after the other share the rules
file. The hard behaviours are therefore mostly of other kinds than races: a loop whose
answer depends on a deadline and on a solver free to choose any model; an encoding and a
checker that describe the same machine twice; order constraints kept as a reduced list;
caches over an e-graph that changes under them; an analysis that draws edges a function does
not have; limits (stack height, saturation, chunks) that silently change what is done; a
file written in place. `PROJECT.json` lists these hazards at their lines with the properties
that watch them.

## 2. Modules

```
Minimizer <-- implemented by -- SatSolve                  <- MCSatSolve, SatSolve_proofs
SymMachine \                            / SatEncode - SatPaths <- MCSatPaths
Reduction  -- Deps - Segment - Acceptance
           \                            \ Peels           <- MCPeels
            Blocks - Pipeline                             <- MCPipeline, Pipeline_proofs
SymMachine - NormalForms - Acceptance
AStar  (searches the graph of Peels, taken as a parameter) <- MCAStar, AStar_proofs
Reduction - TopoReduce                                    <- TopoReduce_proofs
Canonizer                                                 <- MCCanonizer, Canonizer_proofs
Batch <-- implemented by -- Driver                        <- MCDriver, Driver_proofs
LocalsAnalysis - LocalsAlloc - Locals                     <- MCLocals, Locals_proofs
Induction (lemmas of TopoReduce_proofs, Driver_proofs, Locals_proofs, Pipeline_proofs)
Values - Ruler - Synthesis                                <- MCSynthesis
```

**Minimizer** is the abstract promise: one answer, nothing or a checked program no
longer than the original, shortest if given in time, and a claim of optimality of
nothing else. It does not say how programs are found.

**SatSolve** is the descending loop. The variables are the function's locals:
`best`, `ell`, `sawInvalid` (`saw_invalid_model`), `timedOut`, `proven`
(`proven_optimal`), `blocked` (the blocking clauses added so far) and `pc`, the
phase. `expired` is the clock: `Expire` may happen before any step, so the deadline
may pass between reading the clock and the solver's answer. There is one action per
way out of a phase: `BuildLate`, `BuildFails`, `BuildDone`, `WitnessSat`,
`WitnessRefused`, `WitnessLate`, `LoopAsk`, `LoopLate`, `LoopExhausted`,
`SolveAccepted`, `SolveRejected`, `SolveUnsat`, `SolveLate`. What the CNF admits
(`models`) and what the checker accepts (`valid`) are sets chosen at the start:
neither contains the other. The solver may return any model of at most `ell`
instructions that is not blocked. A blocking clause excludes one assignment of the
`x` variables, which is one program; the branch in which `block_current_op_model`
returns false is left out, since a model sets one `x` per step.

**SymMachine** is the symbolic machine: values are expressions, an instruction is a
tuple, `Exec` is `exec_with_meta` with its failures, `Execution` the machine after each
instruction of a sequence, `Heights` what `stack_bounds_ops` knows after each. `mul` and `shr`
stand for the pure operators, one commutative and one not; unary operators behave like binary
ones with one operand less. **NormalForms** is the equivalence equality saturation decides in
this fragment with the rules of `rules-ast3.cache` (`x*y = y*x`, `x*0 = 0`, `x*1 = x`,
`x>>0 = x`, `0>>x = 0`): two values are equal if `Normal` gives them one form. It recurs over
terms, so it is kept apart from what is proved about.

**Reduction** is what `simplify_dependencies` computes, as a function; **TopoReduce**
is the algorithm: Kahn's sort step by step, the reverse pass over reachable sets,
the filter. Hash-set orders are free choices.

**Deps** is `wasm/deps.rs`: which pairs conflict, the list, and the two checks of it.
**Segment** is what `materialize_raw_segment` makes of an instruction sequence: entry
state, bounds, trace, exit state, dependencies. **Acceptance** is `solution_valid`,
which both backends call on every program they are about to return.

**SatEncode** computes what `encode` builds the clauses from: the vocabulary, the
rows of the operator tables from their three sources, the alphabet, entry cells,
pinned slots and the reachability pruning, with the operators in any order because a
`HashMap` yields them.

**SatPaths** reads the clauses as a path system. A behaviour appends one alphabet
entry at a time; `cells` and `locs` are y(i, .) and w(i, .) after it, `mach` is the
machine of the checker running the same instructions. Each action is one arm of the
`match op` in `encode` (1854-1993) with the uniqueness, pruning, NOP and order
clauses in `Take`. A path of `LOrig` steps that meets the exit boundary and the
storage clauses (`IsModel`) is a model of the formula, and `ForwardValid` is what
the checker says of it. `pin_transfer_equiv` forbids only pairs of unequal real
values, so `local.get` may push an empty or outside cell and `local.set` may forget
the value it writes: the model has these steps, and `exact` says whether a path used
any.

**Peels** is the graph A* searches. A behaviour starts at the exit state of a segment
and peels one instruction at a time: `goal`, `remaining` and `used` are the fields of
`SearchState`, `path` the peels so far. Each action is one block of
`applicable_peels`: `PeelSet`, `PeelTee`, `PeelConst`, `PeelBinop` (with the
decompositions the e-class of the value has), `PeelGet`, `PeelOpaque`. `hs` records
`h_goal` of every goal on the way, so that a property at the end can speak of all of
them. All peel sequences are behaviours; which the search follows is `AStar`'s affair.

**AStar** is `solve_astar_traced`: one iteration of its loop is one of `Expire` (the
deadline is read after the pop), `Skip` (cut off by `f >= best` or merged by the memo),
`Reject`, `Accept`, `Expand`; `Finish` is the empty heap. The graph it searches is a
parameter: successors, heuristic, solutions and the paths the checker accepts. Two
goals with one memo key are one node; what the key leaves out, the order of the peels,
is in the path, and the checker looks at the path. `parent` and `traced` are the
`parent_map` and the solution path of the search graph.

**Blocks** is `parse.rs` from operators to raw segments: `blocks_from_operators`, the
filter, `classify_block_segments` with the ids and texts it hands out. **Pipeline** follows
`main` from there: `split_raw_segments`, `materialize_segments` and, where the driver is
given a limit, `split_segments`. `body`, `limit` and `stage` say what is treated and how far
it is; `raw`, `segs` and the carried chunks are the vectors the code passes on, with the
positions of the body they came from, so that losing or moving an operator can be seen. A
materialized segment whose execution failed is shorter than its raw one, as in the code.

**Canonizer** holds the e-graph as the terms it has and the root of each, `strCache` and
`classToId` as the two maps, `nextId`, and the calls in progress (`todo`, `pair`). A
saturation may merge any classes of equal values and write any terms rules can write, since
its limits cut it anywhere. One action per way through `canon` (`CanonHit`,
`CanonSymbol`, `CanonClass`, `CanonBest`) and through `values_equivalent` (`CompareIds`, `JoinFails`,
`UnifyClass`, `UnifyBest`). `agreed` remembers the pairs called equal.

**Driver** gives every item the time it takes alone and what the solver would say in time
and when cut off; threads take items in any order (`Start`), the clock ticks, an item is
late when its own deadline has passed, and a processor is shared when there are more threads
than `Cores`. `Count` and `PrintLine` are the progress counter and the line printed after
it, with other threads in between. `Collect`, `Summary` and `WriteRow` are the sequential
end: results in order, the totals, and for every segment the check of its row against an
e-graph shared by all rows, which may be full (`Room`). A row shows no saving for a program
longer than its segment (`saturating_sub`), which A* may return. **Batch** is the promise: after a
while one possible result per item, in order.

**LocalsAnalysis** is `analysis.rs` (blocks, `build_cfg`'s edges, reaching definitions,
webs, copies, interference) and **LocalsAlloc** `encode.rs` and `apply.rs`: the hard and
soft clauses, with Z3 as any assignment of least cost, and the rewritten function.
**Locals** is `optimize_function`: the data-flow iteration one block a step, the
solver, the rewriting, and then an execution of the function before and after in step. Both
keep the instructions of `Kept` in order, so one program counter serves; values are named by
where they come from, branches are free choices.

**Values**, **Ruler** and **Synthesis** are the rule synthesis. `Values` has terms, sorts,
evaluation with traps, the test inputs and the question put to Z3; `Ruler` the term set as
an e-graph in the order of its nodes, with hash-consing, congruence, saturation, the
smallest term of a class and the pairs with one characteristic vector; `Synthesis` the loop
over sizes and signatures and the cache file. Programs start one after the other with
requests of their own (`Start`), may end anywhere (`Stop`), and write the file in two steps
(`Truncate`, `Write`), because `fs::write` empties it first. Signatures share nothing and are
collected in order, so working on one after the other stands for every number of threads.

## 3. Runs

| run | checks | shows |
|---|---|---|
| `satsolve` | `TypeOK`, `AnswerSound`, `AnswerMinimal`, `Terminates`, `IsMinimizer` | the loop keeps its promise and implements `Minimizer` |
| `satpaths` | `CellsTrackStack`, `ModelSound`, `OnlyKnownRejections`, `OrderKept`, `OriginalIsModelIfUnpruned` | encoding and machine agree; the checker rejects exact models for two reasons only; the reduced list is enough as long as nothing is left out |
| `satpaths_calls` | `SideEffectsKeepOrder`, violated | `call f; global.get; i32.const 0; i32.mul; call g` may become `call g; i32.const 0; call f`: the list keeps f before g only through the access that went |
| `toporeduce` | `NeverGeneric`, `KeepsTheOrder` | the reduction keeps exactly the order of the list and never falls back |
| `peels` | `PeelIsPrecondition`, `OnlyKnownRejections`, `HDropsByOne` | peels undo the machine: from any state in which a goal holds the peeled instructions run to the exit, with the recorded inputs; grounded paths are refused for the order of side effects or for locals only one of the programs changes; the heuristic is consistent where values are in simplest form |
| `astar` | `TypeOK`, `AnswerSound`, `TracedFromRoot`, `AnswerShortest`, `FirstAnswerStays`, `Terminates` | answers are accepted programs, shortest ones if the heuristic is consistent and nothing is refused; the drawn path is one; the loop ends |
| `pipeline` | `SegmentsAreRuns`, `FinIsReached`, `ShortIsWhole`, `CarriedChunksCompose`, `OnlyKnownGapsInOrder` | from a body to segments: stretches of the body between control operators, none lost by the split; a segment executed to its end reaches its final state, short ones always are; chunks that carry the state on compose; the dependency list has every order that can be observed but those of opaque accesses, of addresses written differently and of constants of which one alone is negative |
| `canonizer` | `SameIdSameValue`, `AgreementStays` | the caches never go stale in the direction that matters: ids may change, but never join unequal values, and a yes stays |
| `driver` | `AsAlone`, `LinesInSight`, `RowsAreHonest`, `IsBatch`, `Terminates` | with a processor per thread an item's answer does not depend on the others; progress lines are numbered and almost in order; the statistics say what was printed, but for one tag; the run implements `Batch` and ends |
| `locals` | `ReachingSound`, `OnlyKnownMiscompilations`, `NeverCostsMore`, `Terminates` | what a read sees is among the definitions said to reach it, along the edges drawn; the rewritten function computes the same outside five known cases; no function gets worse where the allocation that changes nothing is allowed; the iteration ends |
| `locals_tee` | `MergedTeeLeavesGet`, violated | a merged get and tee leave the tee and drop the get (`apply.rs` 43-47, 55-65), against the comment in line 45: the tee has no operand of its own |
| `synthesis` | `OnlyTrapsMislead`, `NothingForgotten`, `RulesAreOwn` | whatever programs ran before and wherever they were stopped: no term is passed over although classes merge between sizes; the terms of a class have one value, unless one of them traps where the others differ and rules that trap and that forget were both proved; a program uses rules of a whole file for its own request |

Every property of a passing run has a mutant of a mapped definition, written beside
it in the module, that breaks it.

### Bounds

* `satsolve`: five programs, one of each length from 0 to the original's 3, which is
  also the cap `MaxSatLen`, and one that is longer than the original and the cap. The
  witness may be any of them, so it may be shorter or longer than the original, or
  invalid. Every subset of the programs that have a model, and every subset that is
  valid, is an initial state: a step may be blocked, found or missed at each length.
* `satpaths`: all 144 segments of two instructions from a menu with every kind, and
  ten longer ones, one for each thing the encoding may do with them (folding,
  identities, fusing of set and get, spilling to the scratch slot, calls around an
  access, aliasing memory, several results). `WordBits` 1 keeps constants to 0 and 1,
  the synthesis constants with an identity; one local and one scratch slot; `Width`
  and `StackSlack` are the code's own 4 and 5. Paths have the segment's length, as
  in the code; the search is complete for these segments.
* `peels`: twelve segments, one per thing a peel does, the longest of five
  instructions; sequences of up to six peels, so that every original program and
  detours of it (spilling and reloading) are reached. The calls have at most one
  operand and one result: with more the peel is wrong (see "Known divergences").
* `astar`: four keys with every edge between them but a few, among them a cycle
  through the exit goal; one or two solutions; every heuristic up to 2, so admissible,
  consistent and neither; every verdict on every path; depth limits of 3, which cuts
  the longest path off, and 4, which does not.
* `toporeduce`: all lists over five instructions. Four are the least with two
  disjoint paths between two nodes; five add an edge that both shorten.

* `pipeline`: every body of up to three operators from thirteen, one of each kind the
  parser tells apart; two accesses with every pair of base addresses around them; a store and a
  load at one address, one as a negative constant with an offset and one as an offset alone; bodies that
  push before they take inputs, with and without a limit of 2 or 3. `StackSlack` is 1, not 5,
  so that the undercounted height bites in short segments; words of three bits and accesses of
  two bytes leave room for overlaps that are not equalities.
* `canonizer`: two symbols, two sums equal to one of them (interchangeable, hence symmetry),
  every order of questions and every outcome of every saturation. Three equal expressions are
  what a stale id between two others needs.
* `driver`: five modules of up to three items, among them items that are slow, never proved,
  refused, hopeless, answered by a longer program, and a function that cannot be read; `-j` from
  0, which is one thread as well, to 3 on two processors, deadlines computed from the length and
  fixed ones, of zero among them.
* `locals`: all valid bodies of four instructions over a parameter and a local, six more for
  copies, types and several locals, ten with blocks, loops, branches, if, br_table, return and a
  branch past a write of its own block; executions of up to 20 instructions, which is more than
  two rounds of any loop.
* `synthesis`: words of two bits, so Z3's question is asked of all words; clz, eqz and a
  division that traps, abs on a float sort; terms of three or four nodes, one or two symbols;
  saturations of no iteration (a cut one) or until nothing changes; requests that differ in
  size, arity and tests and so share a file or not.

CHECK_DEADLOCK is FALSE in every run but `canonizer` because the code stops there: the loop
returns, a path has its length, the reduction its list, the peels a bound, the search its
heap, a function and a body their end, and no rules file grows for ever. The canonizer can
always be asked again.

### Fairness

`SatSolve!Spec` assumes weak fairness of `Work`, the function's own steps: it is one
thread of straight code and CaDiCaL is run with a deadline callback. The deadline
itself (`Expire`) has none, so `Terminates` holds without it. `AStar!Spec` assumes the
same of `Loop`. `Driver!Spec` and `Locals!Spec` assume weak fairness of `Next`: rayon's
threads and main run until they are through, and the analysis is one thread of straight
code; what a thread waits for is always another thread's step or the clock. The other
models state safety only: the synthesis may be stopped at any point, and the pipeline and
the canonizer answer calls.

## 4. Proofs

`SatSolve_proofs` proves, for every finite set of programs, every length function
and every choice of models, verdicts, solver answers and deadline:

* `TypeCorrect`, `AnswersAreSound`, `AnswersAreMinimal`: the type invariant and the
  two safety invariants of `satsolve`;
* `SolveSatImplementsMinimizer`: `Safety => M!Safety`, every step of the loop is an
  `Answer` of the abstract module or leaves its variables alone.

The assumption is `ProgramAssumption` (a finite set of programs, lengths in Nat,
`None` outside it); TLC evaluates it in the run. The properties are not inductive.
`IInv` adds that while the loop runs there is a best program no longer than
`ell + 1`, so that UNSAT at `ell` makes it minimal, and that only programs the
checker rejects are ever blocked, so that a blocking clause cannot turn a bound with
a solution into UNSAT. Each action has a lemma or a step of its own; `Return` and
the phase changes, which several actions share, are proved once.

`AStar_proofs` proves, for every graph of goals, heuristic and set of accepted paths
(`AStarAssumption`: successors are sets of keys, bounds are natural numbers):

* `HeapIsPaths`: every node on the heap is a path of peels from the exit goal through
  expanded goals that are no solutions, and a parent is expanded and has an edge to
  its child;
* `AnswerIsSound`: the answer is a program the checker accepts and `best` its length.

The two are inductive together (`IInv`): an answer is a program because it was a node
of the heap, and `AppendIsPath` says that one more peel from an expanded goal is such a
node again. On top of it:

* `FirstAnswerIsKept`: the action property `FirstAnswerStays`, for every heuristic;
* `AnswerIsShortest`: `AnswerShortest`. The invariant (`ShortInv`) is that the heap surrounds the
  memo (`Frontier`): where any way from the exit goal leaves the memo, the heap has a node for the
  next key that was reached at least as early, unless its `f` is too great to matter. A key is
  popped at its least `f`, and `f` grows along a way if the heuristic is consistent (`FGrows`), so
  a key that is never opened again was reached by a shortest path. `Consistent` includes that the
  bound is zero at a solution, as all four bounds of the code are there;
* `TracedIsPath`: `TracedFromRoot`. Keys can be ranked so that a parent's rank is below its
  child's (`Ranks`), so following parents for as many steps as there are keys ends at the exit
  goal; this is what needs a finite set of keys.

`TopoReduce_proofs` proves, for every list over `1..MaxNode` whose edges go forward and every
order in which the hash sets give their elements:

* `ReductionInvariant`: the inductive invariant. No instruction is queued twice or before those it
  depends on (`QueueInv`); degrees count the edges yet to be relaxed, and an instruction is queued
  exactly when none is left (`CountInv`); in the reverse pass the reachable sets of the
  instructions visited are those of the closure (`ReachInv`), and the filter yields `Reduced`;
* `SortIsComplete`: `NeverGeneric`. Were the sort to end early, the least instruction missing
  would have no edge left and be in the queue;
* `ReductionIsExact`: `KeepsTheOrder`, the reduced list has the closure of the list given.

`Driver_proofs` proves, for every module, option, number of threads and processors
(`DriverAssumption`: the types of the parameters, at least one processor):

* `DriverInvariant`: the inductive invariant `Inv`. Its parts: a run has a sequence of items,
  and with `--opt-locals` the indices of their functions increase (`ConfigInv`); with a processor
  per thread an item has advanced as long as its thread has had it, so it is late exactly if
  it would be late alone (`TimeInv`); one thread takes
  and prints the items in turn (`InTurnInv`); of several no more than there are threads have an
  item, and the numbers drawn and not yet printed are those of items counted (`PoolInv`); an answer
  is one the item may have (`AnswerInv`); results are the answers in the order of the items
  (`ResultsInv`), because sorting one result per function by function gives that order, whatever
  order the threads had;
* `ResultsAsAlone`, `LinesAreInSight`, `RowsAgree`: `AsAlone`, `LinesInSight`, `RowsAreHonest`.
  Nothing is printed too far ahead because the numbers missing belong to threads that hold one;
* `ImplementsBatch`: the safety part of `IsBatch`, every step is a `Report` of `Batch` or leaves
  its variables alone.

`Locals_proofs` proves, for every set of valid functions and every bound on steps
(`LocalsAssumption`: a function is `Valid`, as wasmparser promises: it has an instruction, names
the locals it has, and its jumps have where to go, `JumpsLand`):

* `LocalsInvariant`: the inductive invariant. In a round that has changed nothing the blocks
  visited satisfy their two equations (`FlowInv`), so all of them do when the loop ends
  (`FixInv`); what a local has was written to it (`LastInv`); and while the execution follows the
  edges drawn, every current write is one of `Reaching` at the instruction to come (`CurrentInv`);
* `ReadsSeeReachingWrites`: `ReachingSound`. The lemmas take a definition through an instruction
  (`ReachingPasses`), out of a block behind its last write (`LeavesBlock`), along an edge
  (`EntersBlock`) and through a block that writes nothing (`PassesThrough`, `FallsThrough`);
* `OptimumCostsNoMore`: `NeverCostsMore`, whichever optimum the solver answers with. The webs are
  a partition into sets of one local each (`WebsAreWebs`), so one web per local in use, when no
  two webs of a local interfere; then the allocation that leaves every local in a slot of its own
  (`Own`) satisfies the hard clauses, and its cost bounds the optimum's. The slots are those used,
  and the copies removed and the copies left are different instructions, so the cost of an
  assignment is the cost of the function it leads to;
* `RewritingIsFaithful`: `OnlyKnownMiscompilations`, as long as the original finds its operands,
  which validation promises. The hard clauses can always be satisfied (`AssignmentExists`: every
  web a slot of its own, the parameters' first), so the optimum is an assignment. `AlikeInv` is
  the simulation: until an exception occurs the two executions have the same operands, except
  between a read and a write that were removed together, where the operand is in its slot already;
  and a definition whose web is read or written further on has its value in the web's slot. The
  last part is what the interference graph is for (`OtherWebKeepsItsSlot`): a write of another web
  between two sites of this one lies in its interval, so the two interfere and have different
  slots. A read takes the value of a definition of its own web because it is among those that
  reach it (`CurrentInv`), and those are joined with it (`ReadsJoined`).

`Pipeline_proofs` proves the five properties of `pipeline` for every set of bodies, limits, word
width, width of an access and slack. The assumptions are `PipelineAssumption` (a body is a sequence
of operators whose local indices are in range and whose indirect calls name a type, which
wasmparser's validation promises; locals and limits are numbers), `TypesAssumption` and the
assumptions of `SymMachine` and `Deps`; bodies need not be well typed, so that stacks may underflow
and calls may go to functions that do not exist.

* `Invariance`: the inductive invariant `IInv`. The raw segments are chunks of the body
  (`RawKnown`): consecutive positions in order, instructions that are the translation of the
  operators there, ids that count those before it in its segment. Every segment is what became of
  the start of its chunk (`IsOf` in `SegsKnown`), and every chunk treated so far that does not fail
  has its segment. What is carried is the split of the segments in order (`CarriedKnown`), and the
  stage is never `panic`. The properties are not inductive: each speaks of one vector, and holds
  because of how it was made from the one before, up to the operators of the body.
* `SegmentsAreStretches`: `SegmentsAreRuns`. Blocks are disjoint stretches in order because every
  operator read extends the last one or starts another; cutting a sequence every `n` and
  flattening gives it back (a lemma about `Slice`, used for both splits).
* `FinalStatesAreReached`: `FinIsReached`. The machine starts with the inputs of the whole chunk and
  the segment with the inputs of the part executed; for a whole segment they are the same, and the
  greater bound changes nothing (`Exec` under a greater bound does the same where it succeeds).
* `ShortChunksAreWhole`: `ShortIsWhole`. The stack is as high as `Heights` says plus the inputs yet
  to be found, and of these no more are found late than there were pushes before; that is why the
  bound has to be off by more than the slack for a chunk to fail.
* `ChunksCompose`: `CarriedChunksCompose`. One machine run in pieces is the machine run at once but
  for its notes (`meta`), an entry state records all a machine reads, and the locals changed since
  the last chunk, put over those it started with, are the ones the machine has. No chunk is out of
  bounds, since the segment was within the same bound when it was materialized.
* `ObservableOrderIsListed`: `OnlyKnownGapsInOrder`. The notes have one record per opaque
  instruction, in order and under its own id, so the two instructions find their own inputs; then
  the pair conditions of `deps.rs` are compared case by case with what two operators touch. The
  code compares constant addresses as signed numbers with the offset added (`EffectiveAddr`), memory
  is addressed by the unsigned ones (`MayMeet`): if the two constants have one sign, both readings
  are off by the same number (`SameSign`), so the bytes meet only if `Overlap` says so; if they have
  not, nothing is claimed.

**Induction** has what these proofs share. The prover cannot use the library's induction
theorems, whose parameter is an operator, so the module states induction with sets and
functions: the least and greatest number of a set, a set of numbers closed under successor, the
existence of an iterated function (`IterationExists`: what a recursive function over an interval
stands for) and of a fold over a finite set (`FoldExists`, for `FoldSet` and the like), and that a
property kept by adding one element holds of a finite set (`OneByOne`).

`Canonizer_proofs` proves, for every set of expressions, values, sizes and parts
(`CanonizerAssumption`) and every outcome of every saturation:

* `IdsAreSound`: `SameIdSameValue`. It is not inductive: a new id is fresh only because every
  id in a cache is below `nextId`, and a class keeps its id only because merged classes hold
  equal values. `IInv` says so (`Faithful`: roots have the value of their members; ids of
  both caches agree in value);
* `YesStays`: `AgreementStays`; the pairs called equal had one root or one id, and the
  canonizer joins the two before it answers;
* `TypeCorrect`, on which both rest.

What failed attempts at these proofs showed, and how the models changed:

* a branch out of the middle of a block past a later write of that block loses the definition it
  carries, since the whole block kills (`analysis.rs` 464-467). `ReachingSound` had been stated of
  such steps too and no function of the run had one; `Follows` now leaves them out, and the run has
  a function with such a branch. The rewriting of it goes wrong only where it was known to;
* `NeverCostsMore` had been stated of every function without loops. It is false of one whose `if`
  writes and reads a local between a write before it and a read behind it: the two webs of that
  local interfere. The property now exempts these functions and no others, those with loops
  included (`IdentityIsAllowed`), and the run has such a function;
* the `CASE` of `Execute` in `Locals` had two guards that hold together for a write, and a branch to
  a label without an end led nowhere: the guards are disjoint now, and `Valid` says that
  jumps land;
* A* may answer with a program longer than its segment (its bound starts at the depth limit), for
  which a row shows no saving while the printed total shrinks: `RowsAreHonest` now says so, and the
  run has such an item;
* `-j 0` is one thread, so the lead of a line is bounded by `Threads - 1`, not by `jobs - 1`;
* two guards of a `CASE` in the initial states of `Driver` could hold together, and some aligned
  lists and one `UNION` of a union meant something else to the prover than to TLC: all of them are
  written so that they cannot be read in two ways.
* bodies with an index of a local out of range, or an indirect call of a type that is not there,
  were bodies of `Pipeline` although validation refuses them: `PipelineAssumption` now says so;
* `MayMeet` said that accesses of addresses written in the same way meet only if their offsets do.
  It now says so of constant addresses alone: of any other two addresses nothing is known, and the
  list has the pair or the addresses are written differently;
* `StackBounds`, `BlocksOf` and the traces were written with `RECURSIVE` operators; they are
  recursive functions now, `Execution` is shared by all modules that run the machine, and the normal
  forms are a module of their own.

Left to TLC:

* `Terminates` of four runs and the liveness part of `IsMinimizer` and `IsBatch`: liveness under
  fairness;
* the properties of `satpaths` and `peels`: the encoding, the peels and the acceptance check compare
  values by `Normal`, which recurs over terms, and the prover has no backend for modules that reach
  a `RECURSIVE` operator; written as a function over all terms it would need induction over data;
* `synthesis`, for the same reason (terms, sizes and evaluation recur over them);
* that the original finds its operands (`OperandsFound` in `Locals_proofs`): `OnlyKnownMiscompilations`
  says so too, and TLC checks it of the bodies of `locals`; the types of operands, from which
  validation concludes it, are not part of the model.

## 5. What the models leave out

* Values are equal or not up to `Normal`; saturation limits, representatives and the
  vocabulary cap (which clears `complete`, a free choice in `SatSolve`) are not
  modelled. A value is taken to have a stack type when its normal form has an
  operator or a constant at its root.
* One integer type; floats, i64 and `unreachable` arithmetic (division) are absent.
* `max_stack` of a segment is the least the code computes (its own depth and the
  five cells of slack); a function's template may only raise it.
* Clauses are counted in the code (`over_limit`); here a phase may simply fail.
* `AStar` takes one heuristic value per key; in the code a key may stand for goals
  whose values are written differently, and `h_goal` may differ among them. A goal keeps its key;
  in the code the canonizer may give it other ids later, so it may be searched twice, and the
  key of the solution, computed again at 453, may have no parent: then the path drawn is cut short.
* A decomposition writes its operands as any member of their class, since the e-graph's
  choice is not determined by the value; members are the subterms of the value and the
  constants they fold to.
* The order clauses of the encoding say nothing of an instruction at step 1 (2023, against
  the comment at 2016): such models exist in `SatPaths`, and the checker refuses them.
* `Driver` takes a time per item and one early answer, whatever the deadline; how the solvers come to it is `SatSolve` and `AStar`. Panics
  of a thread end the program and are not modelled.
* `Locals` has values of no type but the locals' own and no memory; control operators of the
  code that end a block for other reasons (unreachable, call_indirect) follow the same lines as
  return and call.
* Merges are read back for all terms of the set. The code reads back as many ids as the e-graph
  has hash-consed nodes (`total_size`, `ruler.rs` 124 and 282), which after earlier merges need not
  be the number of ids. For the term that stands for a class two orders are tried for egg's.
* `Synthesis` has no format version, since all programs are of one build; a drawn row gives all
  symbols one value; of equally small right sides two orders are tried for the order of a hash
  map; Z3 giving up is a set of left sides (`hard`).

### Not modelled

The AL interpreter (`al/`) and the operator tables of `value/ops.rs` and `semantics/` are pure
functions from operators and words to words, without state or order: a model would be a copy of
the tables. `al/` is the parameter `Apply` of `Values`. `profile_sat` and `diagnose_sat` are
measurements that run parts of the backend again; `--classify-sat-gaps` compares with another
tool's output. Text, DOT graphs, CSV and console output are left out throughout.

### Known divergences

Two are shown by runs (`satpaths_calls`, `locals_tee`). These were met while modelling; the
models follow the code, and the properties exempt them by name:

* A SAT run that is cut off may return a longer program than it had: `ell` falls by one after a
  model that may be much shorter (2771), against note/SAT.md 413.
* Pruning removes the result of `call; drop`, so the first solver call is UNSAT and the segment
  is given up (1734), against note/SAT.md 349 and 614: hence `IfUnpruned`.
* A peel pushes the operands of a call back swapped (`inverse.rs` 228): loads and stores list
  their inputs in pop order, calls bottom to top.
* A goal without requirement on a local is not grounded (`search.rs` 128), so A* finds nothing
  in a function with a local the segment leaves alone.
* The heuristic counts operators as written: `(x >> y) * 1` is two peels for it and one for the
  peels (`heuristic.rs` 107, comment at 86).
* After a refusal the accepted path through the same memo key is dropped, and `proven_optimal`
  is set all the same (`search.rs` 505, comment at 28).
* Statistics tag a program as kept that the check refused in time (`statistics.rs` 155-168,
  comment at 39-41), and all rows share one e-graph, whose limit may refuse a right program.
* The comment at `canon.rs` 50 says bare symbols never share ids with saturated expressions; after
  a comparison they may (`unify_expr_cache`), harmlessly.
* `--opt-locals` changes what a function computes where a branch leaves a block forwards or past a
  write of its own, where a value is carried around a loop, where a local is read before it is written, where a get and tee
  were merged, and where a parameter is first read after its slot was given to another web
  (`analysis.rs` 186 and 535, `functions.rs` 208, `apply.rs` 43): `OnlyKnownMiscompilations`.
* Two webs of one local may interfere, since a live range is the interval from the first to the last
  site of a web (`analysis.rs` 538-552); the hard clauses then forbid the allocation that changes
  nothing (`encode.rs` 71-75), against note/0707-local-opt.md 17, and a function may end with one
  local more and no instruction less: `NeverCostsMore` exempts them.
* Accesses of i64, f32 and f64 are in no dependency list, and symbolic addresses are compared as
  text (`deps.rs` 195 and 63): `OnlyKnownGapsInOrder`.
* The address of an access is a constant's decimal text, which is signed (`sym.rs` 92-96), plus the
  offset, which is not, and is not reduced to 32 bits (`deps.rs` 39-45): `i32.const -65536; ..;
  i32.store` and `i32.const 0; i32.load offset=4294901760` touch the same bytes and are in no list.
  `OnlyKnownGapsInOrder` exempts pairs of constants of which one alone is negative (`SignsDiffer`).
* The final state of a segment cut short is that of the machine at the failure, which has popped
  operands of the instruction that is no longer part of the segment (`materialize.rs` 38-56,
  `sym.rs` 488-498): `FinIsReached` exempts such segments.
* From `max_ast_size` 4 on (the default is 3) rules collapse the term set: with T = `div ?a 0`,
  which always traps, `eqz T = T` and `clz T = T` hold because both sides trap, while
  `eqz(clz(eqz ?a)) = 0` forgets its symbol; instantiated with T they equate 0 with T and with
  `eqz 0` (`ruler.rs` 118-145, `ast.rs` 113-122). `OnlyTrapsMislead` exempts a class on the rows of
  inputs on which one of its terms traps, and only where rules of both kinds were proved.
* A rules file is taken whatever number of random tests is behind it (`synthesis.rs` 84), and the
  smallest right side hides a larger valid one when its proof fails (`ruler.rs` 493-506).

## 6. Plan

1. A concrete memory and concrete values beside the symbolic machine, to run accepted programs.
2. `SatSolve` with the models and verdicts `SatPaths` computes.
3. Proofs: `OperandsFound` from the types of operands; the parts of
   `CellsTrackStack` of `SatPaths` that do not look into values, with `Normal` as a parameter.
