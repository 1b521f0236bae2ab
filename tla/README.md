# A TLA+ development of PhASAR's solvers and pointer analyses

PhASAR is a static-analysis framework for LLVM IR.  An analysis is a *problem*
(flow functions, edge functions, a value lattice); a *solver* runs it over an
inter-procedural control-flow graph (ICFG), whose call graph comes from a
pointer analysis.  The modules here model the two IDE solvers and the MonoIFDS
solver, what they stand on (the jump-function table, the edge-function algebra,
sparse control flow, the interactive driver), the construction of the call graph
with its alias sets, and the Andersen analysis.  TLC model-checks them on small
instances; TLAPS proves safety invariants of all of them for every ICFG, every problem
and every program, and for the IDE solver and the MonoIFDS solver also that nothing is
reported which the equations of the problem do not justify.

Paths below are relative to `src/`; `Solver/` stands for
`include/phasar/DataFlow/IfdsIde/Solver/`.

## 1. The system and its parts

| component | source | state | operations | status |
|---|---|---|---|---|
| IDE solver | `Solver/IDESolver.h`, `IDESolverImpl.h` | worklist, jump functions, end summaries, incoming calls, unbalanced return sites, value table, value worklist | seeds, process call / exit / normal, propagate, Phase II | modelled |
| jump-function table | `Solver/JumpFunctions.h` | three hash indexes | add, remove, clear, lookups | modelled |
| edge functions, linear constants | `EdgeFunctionUtils.h`, `IDELinearConstantAnalysis.cpp` | immutable values | compose, join, computeTarget | partly |
| interactive API | `Solver/IDESolverAPIMixin.h` | iteration count, a cancellation flag of another thread | solve, solveUntil, solveTimeout, solveWithAsyncCancellation and the continue variants | modelled |
| sparse control flow | `SVFGCache.cpp`, `SparseLLVMControlFlow.cpp` | sparse graph, handled edges | buildSparseCFG, advanceToNextUser | modelled |
| flow/edge-function cache | `Solver/FlowEdgeFunctionCache.h` | memo tables | get…FlowFunction, get…EdgeFunction | partly (what it returns, not when it computes) |
| ICFG, forward and backward | `LLVMBased(Backward)ICFG.cpp` | call graph, CFG | successors, start points, exits, callees, callers | partly (parameters) |
| seeds and results | `InitialSeeds.h`, `SolverResults.h` | seed map, view of the value table | addSeed, resultsAt | partly |
| IFDSSolver | `Solver/IFDSSolver.h` | none of its own | adapter with the binary domain | not modelled |
| IterativeIDESolver | `Solver/IterativeIDESolver.h` | jobs, jump functions, end summaries, waiting calls, reference counts, value table | intra-procedural jobs, rounds of summaries, garbage collection, Phase II | modelled |
| MonoIFDSSolver | `include/phasar/DataFlow/MonoIfds` | per-component environments, summaries, leaks, versions | analyse a component, apply summaries, reschedule, repropagate leaks | modelled |
| monotone framework | `DataFlow/Mono` | worklist, per-node facts, call strings | solve | planned |
| WPDS solvers | `DataFlow/WPDS` | rules of an external library | translation | not modelled |
| path sensitivity, exploded super-graph | `DataFlow/PathSensitivity` | saved edges | saveEdges, path queries | planned |
| call-graph construction | `LLVMBasedCallGraphBuilder.cpp`, `Resolver/` | worklist, call graph, number of targets per indirect call | visit functions, resolve, fixpoint | partly (with the on-the-fly resolver) |
| variable type analysis | `TypePropagator` etc. | type-assignment graph, SCCs | propagate | planned |
| alias sets | `Pointer/LLVMAliasSet.cpp` | boxes and sets of aliases, analysed functions | lazy computation, merge, introduceAlias | partly (no mergeWith, no queries of allocation sites) |
| Andersen analysis | `Pointer/AndersenOTFAA.cpp` | constraint graph with merged nodes, waves, worklists of functions and calls | constraints, propagation, cycle collapsing, connecting callees | partly (no contexts, field tables, shortcuts) |
| union-find alias analyses | `Pointer/UnionFindAA.h` | equivalence classes | merge | not modelled |
| generic algorithms | `Utils/` (SCCs, equivalence classes, DFA) | pure | - | planned |
| client analyses | `DataFlow/IfdsIde/Problems` | flow functions over LLVM IR | - | parameters of the solver |
| global ctor/dtor model | `ControlFlow` | generated IR | - | not modelled: produces LLVM IR |
| IRDB, type hierarchy, taint config | `DB`, `TypeHierarchy`, `TaintConfig` | wrappers | - | not modelled: input |
| controller, CLI, logging, PAMM | `Controller`, `tools`, `Utils` | none that the analyses depend on | - | not modelled: I/O |

How they interact.  The driver (`IDESolverAPIMixin`) calls `doInitialize`,
`doNext` until it says there is no more work, and `doFinalize`.  A `doNext` pops
one path edge; the solver joins it into the jump-function table and, if the
table changed, asks the ICFG what the node is and the cache for the problem's
functions, updates its summary tables and pushes more path edges.  A sparse
ICFG sits in between and replaces a successor by the next user of the fact.
`doFinalize` runs Phase II.  The MonoIFDS solver instead walks the components of
the call graph bottom-up and applies finished summaries.  The call graph that all
of them use is built by a builder that asks the alias sets for the targets of
indirect calls and, with every edge it adds, merges alias sets in turn; the
Andersen analysis finds its own call graph while it propagates.  Everything is
sequential, except that the cancellation flag is an atomic set by any thread.

What is hard in it, and what correctness means:

* **order**: call edges, exits and growing jump functions are found in any
  order, each several times.  No flow may depend on who comes first
  (`NoLostFlow`, `NoLostUnbalanced`, `ValidPathResults`).
* **unjoined overwriting**: `addEndSummary` and `Inc[c] = …` replace entries;
  that is right only because of what other tables hold (`SummaryFresh`,
  `IncomingExact`).
* **several start points**: a backward ICFG gives a function one start point
  per forward exit.
* **recursion**: Phase I and II must reach a fixpoint (`Termination`) and must
  stay context sensitive (`ValidPathResults`).
* **algebra**: edge functions of different kinds ask each other how to join and
  compose; arithmetic meets the ends of `int64_t` and division by zero.
* **interruption**: a run is cancelled and continued, by a predicate, a timeout
  or another thread, with an adaptive number of iterations between two checks.
* **sparsity**: skipping statements must not skip a user, or merge paths wrongly.
* **garbage collection**: the iterative solver frees jump functions and forgets
  waiting calls when reference counts say that a function is finished
  (`RefCountExact`, `NoLostReturn`, `NoReanalysis`).
* **marks and versions**: the MonoIFDS solver skips a block whose version was
  analysed and erases the mark of new leaks; both are right only if someone else
  still carries the news (`NoLostLeak`, `MonoResults`).
* **mutual dependence**: targets depend on alias sets and alias sets on targets;
  changes are detected by a count (`CountExact`, `LeastCallGraph`).
* **identity under merging**: sets are freed and nodes merged while others refer
  to them (`Partition`, `NoLostWave`, `ConstraintsApplied`).

`PROJECT.json` lists each of these under `hazards`, with its line.

## 2. Modules

| module | models | extends / uses |
|---|---|---|
| `IDESolver` | Phase I and II of the solver, over a parametric ICFG and problem | - |
| `IDESolverTables` | the solver composed with the three indexes of its jump-function table | `IDESolver`, instance of `JumpFunctions` |
| `IDESolverProofs` | theorems about `IDESolver` and its tables | `IDESolverTables`, `TLAPS` |
| `SmallPrograms` | six programs for the IDE solvers, and the join over all valid paths | instance of `EdgeFunctions` |
| `MCIDESolver` | comparison with the reference | `IDESolverTables`, `SmallPrograms` |
| `IterativeIDESolver` | the second IDE solver | - |
| `IterativeIDESolverProofs` | theorems about its reference counts and its collector | `IterativeIDESolver`, `TLAPS` |
| `MCIterativeIDESolver` | comparison with the reference | `IterativeIDESolver`, `SmallPrograms` |
| `MonoIFDSSolver` | the bottom-up solver | - |
| `MonoIFDSSolverProofs` | theorems about its leaks and summaries | `MonoIFDSSolver`, `TLAPS` |
| `MCMonoIFDSSolver` | two programs, and the least solution of the equations | `MonoIFDSSolver` |
| `LLVMAliasSet` | alias sets, boxes, and their client interface | - |
| `LLVMPointers` | which operations a function or a global gives rise to | `LLVMAliasSet` |
| `CallGraphBuilder` | the builder and the on-the-fly resolver, composed with the alias sets | `LLVMPointers` |
| `CallGraphBuilderProofs` | theorems about the alias sets and the builder, and that the builder is a client of the alias sets | `CallGraphBuilder`, `TLAPS` |
| `MCCallGraphBuilder` | two LLVM modules, and the least call graph | `CallGraphBuilder` |
| `AndersenOTF` | the constraint solver and its call graph | - |
| `AndersenOTFProofs` | theorems about propagation and merging | `AndersenOTF`, `TLAPS` |
| `MCAndersenOTF` | two programs, and the least solution | `AndersenOTF` |
| `EdgeFunctions` | lattice of constants; compose, join, apply | - |
| `EdgeFunctionPaths` | jump functions as the solver builds them, next to the values computed edge by edge | `EdgeFunctions` |
| `EdgeFunctionProofs` | theorems about the algebra and about paths | `EdgeFunctionPaths`, `TLAPS` |
| `MCEdgeFunctionPaths` | the generators | `EdgeFunctionPaths` |
| `JumpFunctions` | the three indexes and their operations | - |
| `SparseCFG` | buildSparseCFG and advanceToNextUser | - |
| `SparseCFGProofs` | theorems about the sparse graph and the scan | `SparseCFG`, `TLAPS` |
| `MCSparseCFG` | five control-flow graphs | `SparseCFG` |
| `SolverDriver` | the interactive API | - |
| `SolverDriverProofs` | theorems about interruption and cancellation, and about the jump-function table | `SolverDriver`, `JumpFunctions`, `TLAPS` |

The definitions called `name_Variant` that stand just before `name` are
deliberately wrong forms of it (a dropped guard, a missing join, a skipped
callee).  Each property is shown to be refuted when one of them takes `name`'s
place; nothing else uses them.

### IDESolver

| variable | in the code |
|---|---|
| `WorkList` | `WorkList` of (path edge, edge function) |
| `JumpFn` | `JumpFn` (one table; `IDESolverTables` has the three indexes next to it) |
| `IncomingTab`, `EndsummaryTab` | the same, keyed by start point and fact |
| `UnbalancedRetSites`, `Seeds` | the same |
| `ValTab`, `ValuePropWL` | the same |
| `Pending` | the calls of `propagateValue` that the current task has still to make |
| `SeedsTodo`, `NodesTodo` | what the loops of `submitInitialValues` and of the value computation have left |
| `phase` | where the solver is: before seeding, Phase I, the steps of Phase II, done |

Actions: `submitInitialSeeds`; `doNext`, which pops a propagation and either
finds nothing new (`propagateOld`) or runs `pathEdgeProcessingTask`
(`processCall`, `processExit`, `processNormalFlow`); `doFinalize`;
`submitInitialValue`, `nextValue`, `propagateValue`, `startComputation`,
`valueComputationTask` (as `computeValue`), `endComputation`.  What a table entry
implies is in the `…Pushes` operators (`NormalPushes`, `CallPushes`,
`ExitPushes`, …), which follow the loops of the code; an action is a change of
the tables plus the pushes.

Abstractions:

* The worklists are sets and any element may be popped.  The code pops vectors
  at the back and fills them in the iteration order of hash containers; every
  such order is covered.  Dropping duplicates is harmless: the second of two
  equal entries finds nothing new.
* The cache is what it returns: the problem's function, with zero added under
  `autoAddZero`, except for summary functions.
* `restoreContextOnReturnedFact` and the `compute…FlowFunction` hooks are
  identities that no class overrides.  Recording of the exploded super-graph,
  statistics, logging and the JSON dump are left out.
* `applyUnbalancedRetFlowFunctionSideEffects`, a hook that is called for an unbalanced
  return without callers (`IDESolver.h:1132`), is left out; no table depends on it.
* `NextUser` stands for `getSparseCFG` and its next-user query.

### IterativeIDESolver

| variable | in the code |
|---|---|
| `WorkList`, `JumpFunctions`, `EndSummaryTab`, `ValTab`, `WLProp`, `WLComp` | the same, jump functions with explicit (node, source, target) keys in place of ids |
| `AllInterPropagations`, `SourceFactAndFuncToInterJob` | the inter-procedural jobs, and those still found by callee and fact |
| `CallWL` | the facts and functions with new summaries |
| `RefCountPerFunction`, `CandidateFunctionsForGC` | the same |
| `Stores` | the calls of `storeResultsAndPropagate` that the current handler has still to make |
| `Collected` | history: what the collector erased |
| `GCMode`, `UseEndSummaryTab` | the static configuration, chosen at the start |

A round empties `WorkList` (intra-procedural jobs: normal flow, calls with their
early summaries, exits), then hands new summaries to the waiting calls and runs the
collector, until a round leaves nothing to do.  Compressed ids are left out, since
they are bijections; the priority of jobs is any order.

### MonoIFDSSolver

Environments (`PathEdges`, `EndSummary`) are sets of pairs of a fact and the source
fact it stems from; `LeakIf` maps a function to sinks with their source facts,
`Leaks` are the calls of `onResult`.  `Stale` are the nodes whose version is newer
than the analysed one.  `startSCC` enters the next component, `analyzeBlock` and
`analyzeInstruction` run the straight-line code of a block (calls apply summaries),
`rescheduleCalls` and `repropagateLeaks` serve recursion, `finish` ends the
analysis after the last component.  The components themselves, callees first, are a parameter.
The module also states the equations that the results are compared with, as operators
on any sets of reached nodes, flows and sinks (`Reaches`, `Flows`, `Sinks`): the run
computes their least solution, the proofs compare with every solution.  The mode
that works on basic blocks is left out: it needs an ICFG with `getUniqueSuccessor` and
`hasUniquePredecessor`, and none in the repository has them.

### LLVMAliasSet, LLVMPointers and CallGraphBuilder

A value has a box (`AliasSets`), a box holds the address of a set (`AllPTS`), the
owner holds the sets (`OwnedPTS`); merging frees the smaller set, whose address
may be reused.  An operation of the class is a sequence of elementary steps (compute a
value or a function, add a pointer, add a singleton, merge, join) kept in `Todo`;
`LLVMPointers` reads the steps of a function off its instructions.  `Reps` are the
representatives that `addPointer` compares with.  LLVM's local alias analysis is
the parameter `mayAlias`.

`CallGraphBuilder` extends this with the worklist of functions, the calls of the
current function and the repeated resolution of indirect calls.  While `Todo` is
not empty the alias sets work and the builder waits.  `AliasSpec` is the alias sets
with an arbitrary client; that the builder is one of them is checked as a refinement
(`PROPERTY AliasSpec`).  A vararg function takes the surplus arguments in its
`va_list` (`VarArgs`), and a global brings the globals that its initializer refers to
(`InitializerGlobals`, the end of the walk).  A call of inline assembly has no targets and
is one of the instructions that do not matter.  Virtual calls and the other resolvers read types and
vtables and are left out, as are constant expressions and aggregates.

### AndersenOTF

`graph` holds the representative of every node, points-to pairs (all and pending),
assignment edges, load, store and copy constraints, and the propagation worklist;
`wave` the node, the pointees and the successors of the iteration of `propagate` in
progress.  `Todo` are the calls of the current handler that are left.  Functions are
processed, calls through pointers and callbacks re-checked once per round.  As in
the code, a node is merged with a successor that already has all of the wave and has
an edge straight back.  Instructions are abstract constraints; calling contexts
(off by default), tables for struct fields and the MemorySSA shortcut are left out;
which functions have a library summary, maybe an empty one, or wrap an allocation is a
parameter.

### EdgeFunctions and EdgeFunctionPaths

An edge function is a record with its kind; `compose`, `joinWith` and
`computeTarget` follow the classes `EdgeIdentity`, `AllTop`, `AllBottom`,
`ConstantEdgeFunction`, `EdgeFunctionComposer` and the linear constant
analysis' `BinOp`.  Integers run over `MinInt .. MaxInt` in place of
`int64_t`: every overflow test of the code becomes a range test.
`JoinEdgeFunction` and the bitwise operations are left out.
`INT64_MIN % -1`, which is undefined in C++, is 0, as on targets that compute it without a
trap; a trap is not modelled.

`EdgeFunctionPaths` keeps two registers, each with an edge function and the
values a path would really compute, and extends or joins them.

### JumpFunctions and IDESolverTables

`NonEmptyReverseLookup`, `NonEmptyForwardLookup`, `NonEmptyLookupByTargetNode`
as functions from (source, node, target); actions `addFunction`,
`removeFunction`, `clear`.  As in the code, adding the all-top function stores
nothing.  `TableSpec` is the table with any client.

`IDESolverTables` is the solver as a client: a step that finds a new jump function stores
it with `addFunction`, no other step touches the table.  Its invariant
`LookupsConsistent` says that each index is the one table `JumpFn` that the actions of
`IDESolver` read, so these may stand for reads of any index.  The solver calls neither
`removeFunction` nor `clear`; what they do to the indexes is proved (section 4).

### SparseCFG

One action per iteration of `buildSparseCFG`'s loop, on a LIFO worklist of
edges, `Handled` as in the code.  `advanceToNextUser` is a pure operator: the scan
is a recursive function of the number of steps, of which it may take as many as there are
instructions; that it has its answer by then is part of `AdvanceSkipsNoUser`.  Which instruction uses a value is the parameter `Users`.

### SolverDriver

The solver is reduced to `work`, the number of steps it has left.  `pc` follows
the driver: the first check, `next` or `nextN`, the check after a batch, the
adjustment of the batch size, the last check, `finalize`.  `solveTimeout` is
`solveUntil` with a predicate.  A predicate may answer anything, at any time; the
asynchronous flag is a variable set by the action `setCancelled`.  A measured
time of 0 makes the code convert an infinite or undefined quotient to `size_t`,
which is undefined behaviour: `NewNumIterations` then is any value.

## 3. Runs

| run | instance | states | checks |
|---|---|---|---|
| `ide_solver` | programs Calls, Backward, Sparse, Unbalanced | 11755 | `TypeOK`, `NoLostFlow`, `NoLostUnbalanced`, `NoLostValue`, `SummaryFresh`, `IncomingExact`, `ValidPathResults`, `JumpFnOnlyGrow`, `LookupsConsistent`, `Termination` |
| `iterative_solver` | programs Calls, Backward, Collect, TwoExits; 3 collection modes, with and without end summary table | 71009 | `RefCountExact`, `NoLostReturn`, `NoReanalysis`, `IterativeResults`, `Termination` |
| `mono_ifds` | program Mutual; eager or delayed returns, with and without versioning | 2910 | `NoLostLeak`, `MonoResults`, `Termination` |
| `call_graph` | module Calls; lazy and eager alias sets, with and without fixpoint | 2686 | `Partition`, `MergeReady`, `CountExact`, `LeastCallGraph`, `AliasesOnlyGrow`, `AliasSpec`, `Termination` |
| `andersen` | program Main; sound and unsound mode | 34776 | `NoLostWave`, `ConstraintsApplied`, `LeastSolution`, `Termination` |
| `edge_functions` | integers -2 .. 2, 4 edges | 82381 | `TypeOK`, `PathSound`, `PathExact`, `JoinOrderIrrelevant` |
| `sparse_cfg` | 5 graphs, every set of uses | 2560 | `NoInventedJump`, `ExactWithoutSkippedMerge`, `AdvanceSkipsNoUser`, `Terminates` |
| `solver_driver` | 3 steps of work, 3 calls | 675 | `FinalizeAtFixpoint`, `PromptCancellation`, `AsyncReturns` |
| `unbalanced_returns`, `mono_leaks`, `alias_representatives`, `andersen_copies` | programs Unbalanced, Self, Phi, Copy | | violated: section 5 |

What the properties say:

* `NoLostFlow`: for every entry of the jump-function table, each propagation it
  implies (through statements, into callees, around calls, along summaries,
  back to every registered caller), and each seed, is on the worklist or
  already absorbed.  Its consequence for an empty worklist, `Fixpoint`, is proved.
* `SummaryFresh`: an end summary equals the jump function of its exit, now.
  `IncomingExact`: a call is registered at a start point and fact exactly when
  its jump functions enter there.
* `NoLostUnbalanced`: while no call is registered for the zero fact, all flows from it
  past the exits have reached the callers, and the return sites are recorded.  These are
  the flows that the comment in `processExit` promises; the code hands on those of other
  seeds, too (section 5).
* `LookupsConsistent`: each of the three indexes has every jump function with its latest
  join, whichever phase reads it.
* `NoLostValue`: in Phase II, each value that the table implies for a call or
  callee is pending or joined in.
* `ValidPathResults`: at the end the results are, fact by fact and value by
  value, the join over all valid paths, computed by following every path with an
  explicit call stack and no jump functions.
* `RefCountExact`: the reference count of a function is the number of jobs in it, so
  the fatal error at the end of a round cannot occur.  `NoLostReturn`: a summary
  of a callee has reached each waiting call's return sites, or is on its way, or the
  call can still be found although the collector erases lookups.  `NoReanalysis`:
  nothing collected is computed again.  `IterativeResults`: the valid-path
  results, up to what each collection mode gives up by its documentation.
* `NoLostLeak`: a leak of a callee in the component is known to the caller, or some
  mark is left that will tell it (direct recursion is exempt, see section 5, and so is a
  callee with a special summary, which stands for its leaks).  `MonoResults`: summaries, sinks and reports are
  the least solution of the equations, in each configuration.
* `Partition`: no box dangles and the sets are a partition.  `AliasesOnlyGrow`:
  boxes handed out stay, aliases are never taken back.  `MergeReady`: the assertions
  of the merging code.  `CountExact`: the count that detects new targets is that of
  the targets in the graph.  `LeastCallGraph`: at the end the graph is the least one that
  is closed under resolution and the merging that its own edges cause.
* `NoLostWave`: what a node has, its successors have, will get or are getting,
  also across merges.  `ConstraintsApplied`: each pointee has the edges that loads,
  stores and copies ask for.  `LeastSolution`: the points-to sets and connected calls
  are those of a direct fixpoint without waves and representatives.
* `PathSound`, `PathExact`: composed and joined edge functions over-approximate,
  and without joins equal, the values computed edge by edge.
* `NoInventedJump`: a recorded next user is reached over skipped instructions
  only.  `ExactWithoutSkippedMerge`: where no merge point is skipped, the graph
  has exactly the unique next user, or null.  `AdvanceSkipsNoUser`: the local scan stops,
  also in loops, and finds first what is found first from where it began.
* `FinalizeAtFixpoint`: Phase II never runs on an unfinished worklist, whatever
  the interruptions.  `PromptCancellation`: after the flag is set at most one
  more step is made.

Every module states the types of its variables as `TypeOK`.  It is checked where it
says more than that (`edge_functions`: no result leaves the integers) and in
`ide_solver`.  It is proved for these two, and for the alias sets, the builder, the driver,
the MonoIFDS solver, the sparse graph and the Andersen analysis as part of their invariants.

Bounds.  Programs have 6 to 8 nodes and 3 facts, enough for direct recursion, a
call with two targets (one summarised), a callee entered with two values from two
calls, two start points, a seed inside a callee, and facts moved across calls
and returns.  The call stack of the reference is bounded by `MaxDepth = 3`,
above which the recursive procedure repeats its values.  Edge functions are
`AllTop`, `AllBottom`, identity and two constants, the smallest set in which
joins lose information and composition does not commute.  Integers -2 .. 2 have
both overflows, a negative truncating division, division by zero and the remainder of
the least integer by -1; four edges
let two joins be followed by an operation.  `Collect` has functions that finish before others
and a loop; `TwoExits` a callee whose exits carry different functions.  The program
`Mutual` has a component of three functions entered from outside, with a sink inside
that is reached from each of them and a callee below; its facts are zero and two
variables.  The module `Calls` needs one more round of resolution for each of three
targets, one of them through the arguments of a vararg function; its alias sets can all
merge.  The program `Main` has a cycle of
assignments, one that arises from a load and a store, a copy out of a merged node, a function
pointer stored by a function called later, a callback known only after its call and a
function pointer passed to a function whose library summary is empty:
addresses and nodes are exactly the program's own.  The driver's `MaxWork = 3`,
`MaxCalls = 3`, `MaxIterations = 4`, `Interval = 1` and `DeltaTimes = {0, 1, 2}`
allow batches larger and smaller than the work, zero time and slow batches.
`CHECK_DEADLOCK FALSE` is given where the system ends: a solver that is done,
a path at its bound, an empty worklist.

Fairness.  The three solvers, `CallGraphBuilder`, `AndersenOTF` and `SparseCFG`
assume weak fairness of their whole next-state relation: one sequential loop that
never blocks.  `SolverDriver` assumes it of the solver's steps only; no caller has to
call, and no thread has to cancel.

## 4. Proofs

A theorem holds for every value of the constants: any ICFG, problem, program, number
of nodes, width of the integers.  What each rests on is named below; the
assumptions are `ASSUME`s that TLC evaluates in the runs, the hypotheses stand in the
theorem itself.  Where a theorem states a property of a run, both check the same
definition.

| module | theorem | says |
|---|---|---|
| `IDESolverProofs` | `TypeCorrect` | `TypeOK`, both phases |
| | `NoFlowIsLost`, `FixpointReached` | `NoLostFlow`; with an empty worklist, `Fixpoint` |
| | `SummariesFresh`, `IncomingIsExact`, `NoUnbalancedIsLost` | `SummaryFresh`, `IncomingExact`, `NoLostUnbalanced` |
| | `LookupsAgree`, `TablesImplementSolver` | `LookupsConsistent`; the solver with its three indexes implements the solver with one table |
| | `JumpFunctionsGrow` | `JumpFnOnlyGrow`: no step removes or lowers a jump function |
| | `NoFlowIsInvented`, `JumpFunctionsAreLeast` | all flows, stored or pending, are below every solution of the flow equations; when Phase I ends they are the least one |
| | `NoValueIsLost`, `ValuesAreClosed` | `NoLostValue`; when `solve()` returns the values are closed and contain the seeds |
| | `NoValueIsInvented` | all values are below every solution of the value equations |
| `EdgeFunctionProofs` | `JoinIsSemilattice` | joins are idempotent, commutative, associative, `AllTop` neutral |
| | `ComposeIsExact`, `ComposeIsMonotone` | a composition computes one function after the other, and respects the order |
| | `JumpFunctionsAreSound`, `CompositionIsExact`, `JoinOrderNeverMatters`, `PathTypes` | `PathSound`, `PathExact`, `JoinOrderIrrelevant`, `TypeOK` |
| `SolverDriverProofs` | `ResultsFromFixpoint`, `CancellationIsPrompt` | `FinalizeAtFixpoint`, `PromptCancellation` |
| | `IndexesDivergeOnlyByRemoval`, `RemovalTakesAllRecords` | with any client of the table, the index by target differs from the others only by what `removeFunction` erases too much, and when it does |
| `IterativeIDESolverProofs` | `RefCountsAreExact` | `RefCountExact` |
| | `NoReturnIsLost`, `NothingIsReanalyzed` | `NoLostReturn`, `NoReanalysis` |
| `MonoIFDSSolverProofs` | `NoLeakIsLost`, `FinishedLeaksAreHandedOn` | `NoLostLeak`; when a component is finished, every caller in it has its recursive callees' leaks |
| | `NoLeakIsInvented`, `MonoTypeCorrect` | summaries, conditional and reported leaks are below every solution of the equations; `TypeOK` |
| `SparseCFGProofs` | `JumpsAreNextUsers`, `ExactJumps`, `ScanSkipsNoUser`, `SparseTypes` | `NoInventedJump`, `ExactWithoutSkippedMerge`, `AdvanceSkipsNoUser`, `TypeOK` |
| `CallGraphBuilderProofs` | `PartitionInvariant`, `AliasesGrow`, `MergesAreReady`, `AliasTypes` | `Partition`, `AliasesOnlyGrow`, `MergeReady`, types; for any client |
| | `BuilderUsesAliasSets` | `AliasSpec`: the builder is such a client |
| | `PartitionWhileBuilding`, `AliasesGrowWhileBuilding`, `MergesReadyWhileBuilding` | the same three, of the builder |
| | `CountsAreExact`, `ComparingNumbersSuffices`, `TypeCorrect` | `CountExact`; equal counts mean equal targets; types |
| `AndersenOTFProofs` | `PropagationLosesNothing`, `AndersenTypes` | `NoLostWave`, `TypeOK` |
| | `ResultIsClosed` | at the end each inclusion found is satisfied |

### IDESolver

Assumptions: `ICFGAssumption` and `FlowAssumption` (the ICFG and the flow functions
answer with their own nodes, functions and facts), `EdgeFunctionAssumption` (closure),
`ValueAssumption`, and `CombineAssumption` and `JoinAssumption`: `combine` (of edge
functions) and `join` (of values) are associative, commutative and idempotent, with
`allTop` and `Top` neutral.  The last two are what a problem has to guarantee; without
them a propagation that was absorbed once need not stay absorbed when the jump function
grows.  For the edge functions of the linear constant analysis it is the theorem
`JoinIsSemilattice`.

The inductive invariant is

    Phase1Inv == TableTypeOK /\ NoJumpFnYet /\ IncomingExact /\ SummaryFresh
                 /\ NoLostFlow /\ NoLostUnbalanced

`NoLostFlow` alone is not inductive.  When an exit is processed, its flow goes to
the calls in `IncomingTab`, so these must be all the calls whose jump functions
enter the procedure: `IncomingExact`.  When a call is processed, it takes the
flows in `EndsummaryTab`, so those must be the current jump functions of the
exits: `SummaryFresh`.  The step lemma has a case per action: a popped edge that
changes nothing was absorbed; one that does changes one entry of `JumpFn`, and its
own obligations are pushed in the same step, while those of the other entries
stay covered since jump functions only grow.  The types of Phase II need only that the
seeds still to be submitted are seeds or unbalanced return sites.

**The indexes.**  `LookupsConsistent` is inductive with the types: `addFunction` stores the
same join under the same key in each index, and the join of a new jump function is not
all-top, which would not be stored.  `TablesImplementSolver` carries the other theorems
over to the solver with its indexes.

**Nothing invented.**  The other half compares the solver with a table `T` of jump
functions, one per (source, node, target), that solves the flow equations
(`Solves(T)`): it contains the seeds and is closed under the flows of each of its
entries, where the way through a callee is looked up in `T` itself, from the start
point that the fact enters to an exit.  These equations know no worklist, no
registered calls and no stored summaries.  `NoInventedFlow` says that for *every* such
`T` the jump functions and the worklist are below it.  It is
inductive together with `Phase1Inv`: a return uses a summary and a registered call, and
only `SummaryFresh` and `IncomingExact` say that these stand for a way through the
callee in the jump functions, hence in `T`.  Composition has to be monotone
(`ExtendMonotone`, a hypothesis of the two theorems; `ComposeIsMonotone` proves it for
the linear constant analysis, and it holds for the edge functions of the run).  With
`NoLostFlow` it follows that the jump functions at the end of Phase I solve the
equations and are below every solution: no order of the worklist gives another result.
With `followReturnsPastSeeds` the solutions in the comparison also return past every
exit, while the solver decides by the calls registered when an exit is processed; the
two bounds then need not meet, and the lower one, for what originates from zero, is
`NoLostUnbalanced`.

**Phase II.**  `ValueInv` says of each value at a call or a start point: before it is
popped from `ValuePropWL` nothing is owed; after that, what it implies is in `Pending`
or handed on; and of each evaluated node, that it has the values its jump functions
give it.  What is handed on stays so, since values only grow and `join` is a
semilattice -- except that the code reads the value of the source again with each
update, so a source that changes must be queued again, which it is.  Hypothesis
`NoStartEvaluated`: no start point is among the nodes that are evaluated at the end, as
`ICFGBase.h:60` says; an evaluated start point could change after its value was handed
on.  The backward ICFG breaks it (section 5); `NoLostValue` is checked for that
instance by TLC.

`NoInventedValue` is the upper bound, for every assignment of values that solves the
value equations.  Edge functions need not be monotone (a `BinOp` maps top to bottom),
so a solution must admit what an update gives for the value of its source *and for
every smaller one*; for monotone edge functions this is the usual equation.

### Edge functions

Assumptions: `IntAssumption` (a range of integers around 0, top and bottom outside of
it) and `GeneratorAssumption` (a problem's edge functions are canonical, as the
factories of the code make them, and none is `AllTop`, which stands for a flow that
does not exist; no edge function of the linear constant analysis is).  A sequence of
operations is applied by a recursive function, whose defining equation is proved by a
least counterexample rather than by induction over an operator.

`PathInv`: a register computes exactly what each of its paths does, or it is
`AllBottom`.  `PathSound` alone is not preserved: a function above its paths composed
with one that is not monotone need not stay above.  It does here because the join is
flat, and that is what `PathInv` says.

### The driver

`DriverInv` adds to the types: once the loop is left for good the worklist is empty, a
batch does not exceed its size, and before a cancellation, or the first step of an
asynchronous run, no pop has been late.

The module also proves what the jump-function table does with an arbitrary client.  The
reverse and the forward index are always equal.  `ByTargetExact(n)`, that `lookupByTarget(n)`
returns the records of `n` in the other indexes, is kept by every operation but a
`removeFunction` at `n`, which keeps it only if there is no other record of `n`
(section 5).

### IterativeIDESolver

Assumptions as for `IDESolver`, `SeedAssumption` (seeds are at nodes) and
`ConfigAssumption` (the modes that exist).  `SolverInv` is `RefCountExact` with what
makes it inductive: a job is on the worklist only if its jump function is stored, a
pending store is charged to its function once, the inter-procedural jobs found by
callee are jobs, and where in a round which worklist is empty.

The collector is right for a reason that none of its tables holds.  It drops a
function when its count is 0 and no candidate can reach it; that something *will not*
come back is a statement about the future.  `GCInv` therefore says that there is a set
`Q` of functions and source facts for which nothing is left to do and which have only
called members of `Q` (`Quiet`), and that each waiting call whose lookup was erased,
and each analysed function that is no candidate, is in it (`Relied`).  No step leaves such a set, and what is collected can be added to it.

Two hypotheses.  `KeptTargets`: the collector keeps the jump functions at the targets
of calls and returns.  The code keeps start points and return sites; with a sparse
ICFG the target is the next user, which it need not keep.  `DenseKeepsTargets` proves
that dense ICFGs satisfy it.  `SeedsAtEntries` (for `NoReanalysis`): seeds are at the
start points of their functions, and at all of them; a seed in the middle of a function can enter a
call again that was finished.

### MonoIFDSSolver

Assumptions: `CallGraphAssumption` (the components partition the functions),
`ProgramAssumption` (finitely many nodes, successors within the function, exits are not
calls and have none), `FlowAssumption` (the problem maps facts to facts) and, for
`NoLeakIsInvented` only, `SinkAssumption` (no node generates a fact that it leaks itself).
The code does not guarantee the last: it tests for leaks before it generates, but a
recursive call that is scheduled again has its generated facts in its environment
already (`MonoIFDSSolver.h:593`), and a problem with such a node may report a leak there
that the equations do not have.

`NoLostLeak` is not inductive: a call in `Driver` counts as someone who will tell the
caller, but with versioning it is skipped unless its environment is newer than the
analysed one.  `Told` says so: the call is in `Driver` *and*, with versioning, in `Stale`.
Marks are set only in recursion, so `ControlInv` has to say that `InRecursion` holds as
soon as a call is recorded, that recorded calls have an environment and belong to the
component, and what is empty in which phase.  When a component is finished no mark, no
scheduled call and no block is left, and `LeaksHandedOn` remains.

`NoLeakIsInvented` compares with every solution of the equations (`Solution`), as for
the IDE solver: environments, summaries, conditional and reported leaks stay below it,
however often a block is analysed and in whichever mode.  That the solver reaches
*all* of the least solution is `MonoResults`, checked by TLC, and false for direct
recursion (section 5).

### SparseCFG

`CFGAssumption`: finitely many instructions, successors among them, none of them the
entry; an instruction that is no terminator has exactly one successor, and is the only
predecessor of it.  `JumpInv` gives
the worklist its meaning: in an entry `<<From, To>>`, `From` is kept and `To` is
reached from it over skipped instructions.  From this no jump is invented.

For `ExactWithoutSkippedMerge`, `Handled` is the difficulty: it is one set for all
origins, and cuts every second visit.  If no merge point is skipped behind an origin,
what is skipped behind it has one predecessor each, so only entries of that origin get
there (`OneOwner`), and once the origin is expanded each successor of what was skipped
and handled is pending, recorded or handled (`Explored`).  `Frontier` and `HasPred` tie
`Handled` to what is reachable.  `ScanSkipsNoUser` is about a recursive function of the
number of steps; its invariant, that the same users are found first from here as from the
start, is carried over the steps by least counterexample.  That the scan stops is an
argument about more than its last step: each step without an answer goes to an instruction
with one predecessor, so a scan that came twice to the same place came there from the same
place, back to where it began; the instructions in between would have no predecessors
outside, and reachable code has no such cycle.

### Alias sets and call-graph construction

`Partition` is inductive only in its two directions together: merging redirects the
boxes of the freed set's *members*, so no other box may lead to that set, and every
member must be known.  What is in `Todo` does not matter to it.

It does to `MergeReady`.  `ReadyAssumption` says what the code's order of operations
guarantees: the analysis of a function merges values that it gave a set before, that
of a global's users values of functions computed before, and the constructor only computes.  `StepsReady` says
that each step in `Todo` finds what it needs in the tables or among what the steps
before it leave, also when a function is skipped because it counts as analysed.

`InstructionAssumption` and `ModuleAssumption` (instructions and functions are those
of one finite module, resolvers answer with its functions) give the same for the
builder.  It is composed by refinement: `BuilderUsesAliasSets` shows that each of its
steps is a request of a client or a step of the alias sets, and then their theorems are
those of the builder.  `BuilderInv` adds that the targets in the graph are among those
which the alias set yields *now*, which follows from `AliasesOnlyGrow`; hence
comparing the number of targets is enough to see that there are new ones.

### The Andersen analysis

`ProgramAssumption`: instructions, parameters and objects are nodes, resolvers answer
with functions, a call with a result has an object.  `AndersenInv` consists of

* `GraphOK`: representatives are idempotent, all relations are on representatives,
  and a pending pointee is a pointee of a node that is queued, maybe under
  another name;
* `Delivered`, the second half of `NoLostWave`, of a graph *and a wave*;
* `WaveOK`, `StepsOK`: outside `propagate` no wave is under way, and the types.

`Delivered` is stated of any graph and wave since a merge in the middle of a wave
passes through states that no action ends in: the successor is taken off the wave (it
has all of it), its node is merged away with its edges dropped (`withoutNode`), its
edges come back as edges of the other node, all of whose pointees become pending, and
the wave goes on from the new representative.  Each insertion `Kept`s what was
delivered, and insertions compose.

That nothing is lost does not mean that everything arrives.  `ResultIsClosed` needs
`DrainInv` (whenever something is queued, a `propagate` is still to come) and the
hypothesis `SummariesCalledDirectly`: no pointer leads to a function that has a library
summary.  Without it the statement is false, see section 5.

### Only model-checked

* Liveness (`Termination`, `Terminates`, `AsyncReturns`) and what compares with a
  recursive reference (`ValidPathResults`, `IterativeResults`, `MonoResults`,
  `LeastCallGraph`, `LeastSolution`): beyond the prover.
* `ConstraintsApplied`: false in general (section 5), so there is nothing to prove.
  Of the first and the third the proofs give the upper bound, and of Phase I and II of
  the IDE solver both bounds, with respect to the equations.  That the solution of the
  equations is the join over the valid paths is an induction over paths.
* `TypeOK` of the iterative solver's Phase II: its values are folds over sets.

One caution for whoever extends the proofs: tlapm reads `UNION A \cup B` as
`UNION (A \cup B)`, SANY and TLC as `(UNION A) \cup B`.  Modules with theorems put the
parentheses.

## 5. Where comments and code disagree

With a run whose counterexample shows it:

* `unbalanced_returns`: at an exit for whose source fact no call is registered,
  `processExit` propagates into the callers whatever the fact is (`IDESolver.h:1099`, the
  test for zero is commented out); the comment (`:1094`) says "we propagate that way only
  values that originate from ZERO".  A seed with another fact inside a callee is enough.
* `mono_leaks`: `applySummary` skips the leaks of a callee that is the caller itself
  (`MonoIFDSSolver.h:650`, "Prevent self-insertion"), and `rescheduleCalls` (`:366`)
  erases the mark of new leaks.  A function `s(a, b)` that calls `s(b, 0)` and then
  sinks `a` leaks its second argument, which is never reported;
  `MonoIFDSProblem.h:124` promises `onResult` "if LeakFacts holds at Inst".
* `alias_representatives`: `addPointer` keeps one representative of each type
  (`LLVMAliasSet.cpp:366`), and opaque pointers have one type.  With `p = phi x, y` the
  representative `y` goes, and `z = gep y`, which may alias only `y` and `p`, gets a set
  of its own; the comment (`:328`) says that sets that may alias must be merged.  A
  call target behind such a pointer is missed.
* `andersen_copies`: `onNewPointee` reads the points-to set of the other side of a
  `memcpy` under the id that was recorded (`AndersenOTFAA.cpp:743`), not its
  representative's; after a merge it is empty and later pointees get no edges.  The
  comments (`:637`, `:646`) say that every id is resolved first.  `mergeInto` reads
  `Nodes[D]` and `Nodes[S]` the same way (`:583`, `:596`).

Met while modelling, without a run of their own:

* `setVal` stores top (`Solver/IDESolver.h:777`), so after unbalanced returns
  `resultsAt` contains top, which its documentation (`:237`) excludes.
* `propagateValue` hands on the incoming value, not the joined one; the results are
  the same since the other parts were handed on before.
* `LLVMBasedBackwardICFG::allNonCallStartNodesImpl` returns the forward list
  (`LLVMBasedBackwardICFG.cpp:40`), so backward exits get no value, and backward start
  points are evaluated again after their values were handed on;
  `ICFGBase.h:60` says all nodes that are neither calls nor start points.
* A callee of the MonoIFDS solver with a special summary (`MonoIFDSSolver.h:607`) hands
  its leaks to a recursive caller in `handleLeaksForFun`, but not when the call itself is
  analysed.
* When a merge point is skipped, one of several next users is recorded
  (`SVFGCache.cpp:53`) where `SparseCFGBase.h:25` promises null.
* The number of iterations between two checks can decay to 0
  (`IDESolverAPIMixin.h:482`), after which `solveUntil` only polls.
* The end summary table of the iterative solver is not keyed by the exit
  (`IterativeIDESolver.h`; on by default, `StaticIDESolverConfig.h:77`): summaries of
  several exits are returned through the return flow of each of them, which is exact
  only for one exit per function.
* `propagateValueAtCall` follows callees with a special summary
  (`IDESolver.h:722`); `FlowFunctions.h:918` says they are not followed.
* composing `AllTop` with a `BinOp` is `AllTop` (`EdgeFunctionUtils.h:202`), though a
  `BinOp` maps top to bottom; the solver never extends an all-top jump function.
* `removeFunction` erases all records of the target from the index by target
  (`JumpFunctions.h:199`), its comment (`:175`) says one function and that of
  `lookupByTarget` (`:153`) promises all records of the target; its result is that of this
  erasure, not whether the function was there.  Nothing calls it.  The theorem
  `RemovalTakesAllRecords` states exactly when the index is wrong afterwards.
* A straight-line cycle without a branch keeps `analyzeBlockImpl` of the MonoIFDS
  solver in its inner loop for ever; instances have none.
* `LLVMAliasSet::mergeWith` does not keep the sets a partition; the function is
  not called by the analyses and not modelled.
* In the Andersen analysis `connectCallee` returns false after applying a library
  summary, without propagating (`AndersenOTFAA.cpp:1632`).  When a call through a pointer
  is resolved in the rounds of checks, nothing else propagates, and the analysis may
  end with work in `PropWorklist`: in `main: c = load T; s = c(p); set()` with
  `set: store strchr, T`, the result `s` never gets what `p` points to.  Found when the
  proof of `ResultIsClosed` needed a hypothesis; `AndersenOTFAA.h:117` promises a fixpoint.
* An allocation wrapper reached through a late pointer adds a pointee without applying
  the load and store constraints that exist already.
* In the monotone framework solvers `addCalleesToWorklist` stops at the first
  callee it has seen (`break`), and results are overwritten, not merged, at joins.

## 6. Not modelled

* Unit tests, examples and data; the readers of LLVM IR, debug information, vtables
  and configuration files; the tables of library summaries: input, not control.
* Client analyses: their flow and edge functions are the parameters of the solvers, and
  read LLVM instructions of every kind.
* WPDS solvers: rules for an external library.
* The monotone framework solvers, SCC computation, type propagation, the
  exploded super-graph, the union-find analyses, memoisation in the function cache:
  possible, see the plan.
* A trap of `INT64_MIN % -1`, undefined behaviour of the host: the model gives 0.

## 7. Plan

1. Done: the models of section 2, and the theorems of section 4.
2. Theorems next: the upper bounds of the iterative solver, the call graph and the
   Andersen analysis; Phase II of the iterative solver.
3. Further models: the monotone solvers (call strings), SCCs, equivalence classes,
   type propagation, the exploded super-graph, union-find analyses.
