# ChatPSE: a TLA+ verification project

ChatPSE turns a description of a chemical process into a DWSIM flowsheet with a
chain of language-model agents, solves it, and repairs it until the simulator
accepts it.  This directory models the parts of it whose correctness depends on
*order*: the two drivers of a run and their loop of solves and repairs, the
making of a flowsheet's topology and of its operating conditions, the solver
and language-model calls with their timeouts and retries, the search for
repairs, and what repairs teach later runs.  Paths below are relative to `src/`.

## 1. The system

### Components

| Component | State it keeps | Operations | Correct when |
|---|---|---|---|
| Pipeline driver `agents/graph_pipeline.py` | `PipelineState` (graph, flowsheet, execution, hash, counter, ceiling, package history, errors) | 9 nodes and their routing functions, `run`, `_to_result` | a verdict is about the flowsheet returned; bounded solver calls; every run ends; a stall means nothing is left to try |
| Sequential driver `agents/orchestrator_v2.py` | the same as local variables | `run`, `_record_repairs_in_store`, `_reference_guided_refine` | same contract as the graph driver |
| Rule store `agents/rule_store.py` | patterns in memory; `results/rule_store.json` | `record_fix`, `active_rules`, `apply_to_graph`, `save`, `load` | cleared runs start cold; nothing learned is lost; a torn file is recoverable |
| Margin model `ir/margin_model.py` | one window of margins per key and process | `record`, `get_margin`, `reset_global_margin_model` | learned only from repairs that worked; bounded |
| Benchmark driver `benchmark_runner.py`, `benchmark/runner.py`, `benchmark/ablation.py` | position in runs, modes, cases, samples | `_run_multi`, `run_ablation`, `_run_one`, `make_orchestrator` | runs reported as independent are; a mode sees only what it may |
| Classifier `agents/stage4/error_classifier.py` | none | `classify` | an unsolved result always gets a strategy |
| Repair agent `agents/stage4/repair_agent.py`, `ir/repair.py` | `RepairMemory` (attempts per unit) | `repair`, `record`, `tried_values`, `apply` | no value is tried again while remembered; a repair that finds nothing has nothing left |
| Beam search, explore/exploit, optimiser `agents/stage4/`, `ir/state_cache.py`, `ir/local_optimiser.py` | beam states, phase, validated graphs | `search`, `_pick_target`, `update`, `coordinate_descent` | every applied fix is recorded; one attempt per unit and call |
| IR graph `ir/graph.py` | units, streams, provenance of parameters | `set_param`, `correct_param`, `add_stream` | a described value is never overwritten by an estimate or a rule |
| Normalise and validate `ir/normalise.py`, `ir/validate.py` | none | passes over the graph | idempotent; output validates |
| Consistency `ir/consistency.py`, `ir/constraint_solver.py` | none | fixpoint passes | terminates; keeps described values |
| Stages 0-3 `agents/basis.py`, `agents/stage1`, `agents/stage2`, `agents/stage3` | none | extraction, guards, build, thermo | recycle flags survive; refusals are terminal |
| Serialiser, executor, DWSIM `ir/to_dwsim.py`, `agents/executor.py`, `dwsim/` | simulator objects | `to_dwsim`, `run` | a flowsheet without a package is refused |
| LLM client `agents/llm.py` | conversation, call count | `chat`, `send`, `_with_retry`, `_call_with_timeout` | retries bounded; conversation well formed |
| Best-of-N `benchmark/best_of_n.py` | samples | `select_best` | selection blind to the reference |
| Evaluation, reports, version 1 agents, scripts | none | - | arithmetic and text; not modelled |

### How they interact

`benchmark_runner.main` chooses a plan (one set, `--runs N`, `--ablation`).  Per
case `make_orchestrator` builds an orchestrator, which loads the rule file; a
case is run once, or `BEST_OF_N` times on that same orchestrator.  `run` invokes
the LangGraph machine: one node at a time, synchronously, state merged from the
dictionary a node returns, the next node chosen by a routing function from
`outcome`.  The thermo node applies active rules; the repair node records fixes
in the store and in the process-wide margin model and saves the store.

### What is hard

* a node raises half way (`_repair_node` catches, the others do not) while graph,
  flowsheet, hash, history and counter were updated by different nodes;
* three budgets at once: `max_iterations`, the beam ceiling that *replaces* it,
  and LangGraph's super-step limit, whose exception drops all progress;
* a way into the repair loop that skips the thermo node (topology hand-off);
* a gate that needs a hash, a flag and a package history to agree;
* a file rewritten in place by a process a batch scheduler may kill;
* one process-wide object that survives what the driver clears;
* a search that reads a memory it writes only at its end, over a graph that
  other passes rewrite meanwhile;
* threads that are given up after a timeout, go on, and answer late, while a
  retry runs on the same flowsheet object or in the same conversation;
* a dozen passes over one graph (guards, builder, normaliser, topology repair,
  serialiser), each of which allocates ports or recycle flags of its own;
* temperatures that one pass propagates, writes back and the next reads as given.

`PROJECT.json` lists each hazard at its line.

## 2. Modules

| Module | What it is |
|---|---|
| `Pipeline` | the node machine: one action per way a node returns |
| `PipelineRun` | `Pipeline` driven by `GraphPipeline.run`: super-steps, solver calls, the recursion abort |
| `RunContract` | abstract specification of `run`: refuse, admit, attempt, give up |
| `PipelineProofs` | TLAPS: inductive invariant of `Pipeline`; solver budget, package history and contract of `PipelineRun` |
| `Learning` | rule store, margin model and benchmark driver, with kills and relaunches |
| `RepairSearch` | repair memory, single-step repair, beam search and its scheduler |
| `RepairSearchProofs` | TLAPS: what the memory guarantees, for any width, depth and history limit |
| `Execution` | one call of `Executor.run` after another over the DWSIM wrapper: checks, build, solver threads, post-check |
| `ExecutionProofs` | TLAPS: types, own answers, complete flowsheets and bounded waiting, for any number of threads left behind |
| `LLMCalls` | `chat` and `LLMClient`: retries, timeouts, late answers, the conversation |
| `ServicesProofs` | TLAPS, of `Learning` and `LLMCalls`: cold start and blindness for any plan; own replies and the retry budget for any number of calls |
| `Assembly` | from the model's stream list to the connections DWSIM gets, for both drivers |
| `AssemblyProofs` | TLAPS: no dangling stream, the recycle guards, and sound connections, for any process, reply and number of repairs |
| `Conditions` | temperatures and pressures with their provenance, from description to solver |
| `FoldInduction` | TLAPS: induction over a fold, instantiated for each pass that walks a list |
| `ConditionsProofs` | TLAPS: every setpoint filled and its provenance true, for any flowsheet, rules and repairs |
| `OrchestratorLoop` | the sequential driver as a second implementation of `RunContract` |
| `OrchestratorLoopProofs` | TLAPS: coherence, blindness and the contract, for any budget |
| `MC...` | small instances for TLC |

The detailed modules look inside what the drivers leave open.  `Pipeline` and
`OrchestratorLoop` say *when* a graph is built, solved and repaired; `Assembly`
and `Conditions` say what a graph's structure and setpoints may become,
`RepairSearch` which repair is chosen, `Execution` what a solve may answer,
`LLMCalls` what a model call may answer.  Both drivers implement `RunContract`.

### Pipeline: state and actions

The variables are the fields of `PipelineState` that some guard reads, under
their names (`iteration`, `effMax` = `eff_max_iter`, `beamExtended`, `tried` =
`tried_packages`, `prev` = `prev_hash`, `noop` = `last_repair_noop`,
`flowsheet` = `dwsim_json`, `errors` = `current_errors`).  `pc` is the node the
routing function chose; `outcome` is the field it chose by.  `CRASH` is an
exception out of `run`.

| Code | Actions |
|---|---|
| `_basis_node`, `_topology_node`, `_reference_topology_node`, `_build_node` | `Basis`, `Topology`, `ReferenceTopology`, `Build` |
| `_validate_node`, `_topology_repair_node` | `Validate`, `TopologyRepair` |
| `_thermo_node` | `ThermoRefused`, `ThermoInvalid`, `ThermoBuilt` |
| `_execute_node` | `ExecuteRefuses`, `ExecuteStalls`, `ExecutePasses`, `ExecuteEscalates`, `ExecuteContinues` |
| `_repair_node` | `RepairApplied`, `RepairRaises` |
| uncaught exceptions | `NodeRaises`, `ClassifierRaises` |

Abstractions, all on the data side:

* A graph is its parameters, its package and its set of critical defects
  (`vessel`: a vessel without its second outlet; `cycle`; `other`: not
  repairable deterministically).  `to_dwsim` is a function of the graph that
  keeps package and structure and may forget parameters (`SentParams`), which
  is why a repair can change the graph and not the flowsheet.
* Language model, thermodynamic database, retriever and solver answer with any
  value the code accepts; two solves of one flowsheet may differ.
* The hash of a flowsheet stands for the flowsheet (eight hexadecimal digits of
  MD5; collisions are left out).
* A parameter assignment that is "reverted" by normalisation is covered: the
  repair yields `p`, normalisation and the Variant B reseed yield `q`; only
  Variant B can make them differ.
* `select_package` raising inside the stall gate is handled by the code as "no
  package left"; the model lets the retriever answer truthfully.

### PipelineRun

`visits` is LangGraph's super-step counter, external to the repository:
`invoke` raises `GraphRecursionError` when another node is due and the limit is
reached, and `RecursionAbort` is the handler, which answers with the *initial*
state.  `solves`, `ran` and `aborted` are history variables.

### Learning

An observation is one recorded fix and carries launch, run (arm), case and
number, so that "whose lesson is this" can be asked; values are not kept.
`save` is two steps, because `open(path, "w")` truncates before `json.dump`
writes; a kill may come between, and an `OSError` or `TypeError` in either is
caught by the caller (`SaveFails`).  `load` raises on a torn file, outside the
`try` around a case, and ends the launch (`failed`).  `Relaunch` is a new
process: memory and margins start empty, the file stays.

### RepairSearch

`RepairApplied` of `Pipeline` lets a repair change any parameters; this module
looks inside one.  `log` holds every attempt ever recorded, as a history; what
`RepairMemory` still has of a unit is `Remembered(u)`, the last `MaxHistory`
attempts, and `Tried` reads nothing else.  `task` is what `repair()` was called
with and does not change during the call.

| Code | Definitions |
|---|---|
| `RepairMemory.record`, `tried_values` | `Recorded`, `Attempt`, `Remembered`, `Tried` |
| `_deterministic_candidates`, `_llm_candidate` | `Candidates`, `LlmValues` |
| `_execute_node` (tick, classify) | `Solve` |
| `repair`, `_search_condition_fix` | `SingleFix`, `SingleFindsNothing`, `StartSearch` |
| `BeamRepairSearch.search` | `Successors`, `BeamStep`, `FinishSearch` |
| `_pick_target`, `get_coupled_boosts` | `Picked`, `Boosted` |
| `ExploreExploitScheduler` | `NewScheduler`, `Updated`, `EffectiveWidth` |
| consistency pass, settler, optimiser | `Settled`, `Tuned` |

Abstractions, all on the data side:

* the values on offer for a target are a function of the graph, chosen anew for
  each call; the widening by uncertainty and the oscillation escape are among
  the choices;
* generated values are round (`Rounded[v] = v`) and compared with the rounded
  tried values; the language model's are compared and recorded unrounded;
* of a score only the number of errors counts, which outweighs the rest (100 to
  at most a few points); warnings, magnitudes, credit, spacing and diversity
  decide among equals, and the model leaves that choice open;
* the beam is a set: equal states are one.  Pruning keeps any non-empty subset
  up to the effective width;
* the consistency pass and the settler may give the parameters in `Settles[t]`
  any value; coordinate descent ends in any graph with no more errors;
* stream targets, and errors no parameter can be inferred from, make no attempt
  and are left out, and so is what the driver does to a graph between two calls.

### Execution

`sims` are the `DWSIMFlowsheet` objects (created anew by each call, the old ones
stay referenced by threads that were given up), `passes` the solver threads.
`Stage` is one build step: it may find the simulator's object unfit and return
an error, it may raise, or it leaves `next`.

| Code | Actions |
|---|---|
| `Executor.run`, pre-checks | `Run`, `PreCheck` |
| `run`, build | `AddCompounds`, `SetPropertyPackage`, `DisableAutoEstimate`, `InjectParameters`, `AddStreams`, `AddUnits`, `OverridePackages`, `Connect`, `AddRecycleBlocks`, `SetFeeds`, `SetUnitConditions` |
| `_solve_once` | `StartPass`, `JoinReturns`, `JoinTimesOut` |
| its `_worker` thread | `CalculationReturns`, `CalculationRaises`, `Harvests` |
| `solve`, reflux tuning | `Tune` |
| post-check, result | `Read`, `PostCheck` |

A thread works on while the caller runs: `Worker` is interleaved with every other
action and is never forced to move.  Parameters are the *names* that are given
and the names that are out of range; mole balance is one flag.

### LLMCalls

`requests` holds every request ever sent with its reply and whether it was given
up (`late`); `history` is the conversation.  `Chat` and `Send` open a call,
`Request` is one attempt of `_with_retry`, `Answer` is the service, at any time
and in any order, `JoinReturns` and `TimesOut` end the wait, `Judge` is what
`_with_retry` does with the reply, `Return` strips thinking blocks and appends
the turn.  Its state and specification have names of their own (`phase`,
`CallSpec`, ...), so that `ServicesProofs` can extend it beside `Learning`.  Only Ollama requests run in a thread of their own; hosted providers
rely on their SDK's timeout, so `TimesOutNever` keeps them waiting for good.

### Assembly

`streams` is `SemanticTopology.streams`, `graph` the `IRGraph`, `flowsheet` the
connections of `dwsim_json`, `origin` what the model said of each recycle, as a
history.

| Code | Definitions |
|---|---|
| `StreamExtractor.extract` with its checks and retries | `Extract`, `DedupeTags`, `ReconcileRefs`, `Acceptable` |
| the three recycle guards | `Guards`: `ResolveTarget`, `DedupeRecycles`, `PhraseGuard` |
| `GraphBuilder.build` | `Build`, `Built` |
| `normalise` and its passes, in order | `Normalise`: `InsertMixer`, `InsertSplitter`, `CompleteOutlets`, `RepairVessel`, `RepairColumn`, `RepairDecanter`, `PropagatePhases` |
| `validate` | `Validate`, `Valid` |
| `_topology_repair_node`, `_repropagate_recycles` | `TopologyRepair`, `Lonely`, `Cycles`, `Repropagate` |
| `to_dwsim` | `ToDwsim`, `InletPort`, `Wires`, `Sent` |
| port repair of `ir/repair.py` | `Repair`, `FixPorts` |

A stream carries the phase words of its tag as a set (`words`).  The passes of
`normalise` are folds over the units (`OverUnits`) of one operator per pass;
what a pass does to a stream in place (`Phased`, `FixedPort`, `Relabel`) is an
operator of its own.  `SheetsAssumption` says what the extractor's parser
guarantees of a reply: it is a list of streams, or none at all.

Three operators serve the properties.  `Torn` is a vessel whose outlets are named
so that no assignment of ports suits both, `Overfull` a unit with more products
than outlet ports, and `Names` lists every node of the graph and every object of
the flowsheet with its name: units, streams, the INIT streams of recycles and
the dead ends of reactors.  In the code a node *is* its tag (networkx keys nodes
by it), so a second node of one name would replace the first; the model keeps
both and does not follow such a collision.  `NamesApart` says that none occurs.

### Conditions

A cell is a parameter with its value, its `Source` and the description sentinel;
temperatures are kelvin and pressures kPa on a coarse scale, the bubble point is
a constant operator.

| Code | Definitions |
|---|---|
| `ParamMapper` | `Assign`, `AssignedSoFar` (one unit of the walk), `AssignUnit`, `Pooled`, `Estimate`, `ReactorCell` |
| `ir/consistency.py` | `Consistency`, `Apply`: `Propagate` (`PassedOn`), `Monotonic` (`Corrected`: `FixHeater`, `FixCooler`, `FixRaiser`, `FixExpander`), `Backward`, `Coupling`, `WriteBack` |
| `RuleStore.apply_to_graph` | `ApplyRules`, `RuleApplied`, `Matches`, `Rule` |
| direction checks of `validate` | `Validate`, `Faults`, `WrongWay` |
| `_inlet_conditions`, `_deterministic_candidates` | `Seen` (`Upstream`, `OneFurther`), `Candidates` (`HeaterTiers`, `CoolerTiers`, `PhysicsCandidates`) |
| `fix_unit_conversions` of `ir/repair.py` | `ConvertUnit`, `ConvertStream`, `InKelvin` |
| parameter repairs, single and beam | `RepairOne`, `BeamStep`, `Settle` |
| coordinate descent | `Descend`, `EndRepair`, `Moves` (`TryTemperature`, `TryPressure`, `Clamp`) |
| `set_param`, `correct_param` | `Set`, `Authority`, `Correct` |

A unit conversion is the one repair that changes what a stream records.  The
pass therefore reads the feed's temperature from the graph (`FeedT`), not from
the description.

What a walk does to one unit is an operator of its own, so that it can be
proved about: the walks are folds of these steps.  The named assumptions say
what a flowsheet is after extraction: unit tags are unique, streams start at its
units, a feed with its temperature and pressure exists, and what is stated,
seeded or found in the text is a positive number of kelvin or kPa.  A text that
states 0 K or 0 kPa is thereby left out.

### OrchestratorLoop

One action per stage of `OrchestratorV2.run`: `Basis`, `Summarise`, `Extract`,
`Build`, `Map`, `LoadReference`, `Render`, then the loop with `Pass`,
`PassRefined`, `Escalate`, `ToRepair`, `Repair`, `RepairRaises`, `Exhausted`, and
`End` with the assertion of scored runs.  `Raise` and `SolveRaises` are the
exceptions that leave `run`.  `result` is written by the same five places as in
the code; a failed repair returns what the iteration before left there.  A graph
is its version and the marks the reference file left on it.

## 3. Runs

| Run | Question | Bounds and why they suffice |
|---|---|---|
| `pipeline_nodes` | node machine: coherence, ceiling, termination | `MaxIters {1,3}` around `BeamMaxIter 2` gives an extension that raises and one that lowers the ceiling; every defect kind; both entry modes; two parameters that the serialiser tells apart |
| `pipeline_run` | `run` against `RunContract`; solver budget, stall, history, recursion limit | `MaxIters {0,1,5}`, `BeamMaxIter 3`; two packages, so that one can be tried and one left; a parameter the serialiser hides, so that no-op flowsheets occur; limit 14: a run with budget 3 needs at most 13 super-steps and must end by itself, one with budget 5 can be aborted |
| `learning` | who sees what across runs, modes, samples, kills | two cases, two samples, threshold 2, two repairs a launch (the threshold is reached within a case and across cases), two launches; plans: cleared and accumulated multi-runs, ablation pairs with the null mode on either side |
| `repair_search` | what memory, beam and scheduler guarantee | two units, three targets (two at one unit), a round value and one of the language model's that rounds to it; a memory of one attempt and three repairs, so that a value is forgotten and retried; `Width` 1 (effective 3), `Depth` 2 as in the code; coupling, a settler that resets the cooler, a result with or without a failed unit, an empty error list, one error, several errors at one or three targets |
| `execution` | do answers belong to their flowsheet, is what is solved complete, how long can a call block | two calls, so that a thread of the first answers in the second; five flowsheets: a column with a package of its own (reflux tuning, two threads on one object), a reactor, one short of a parameter, a recycle with binary parameters, one the checks refuse |
| `llm_calls` | retries, late answers, conversations | two calls (a failed turn before an answered one); four model names: hosted, one that two families claim, local, one nobody serves; conversations with a threaded and an unthreaded provider; the providers' own retry counts and delays |
| `assembly` | what becomes of recycles, ports and cycles between reply and simulator | every subset of a candidate stream list for eight sheets: a loop of mixer, reactor, vessel with up to three rival recycles (with and without a recycle phrase); a heater with phantom source, repeated tag, near miss, self-loop, unsound feed, empty reply; column, decanter and pump; vessel and compressor, dry and wet; a splitter with three outlets; vessel and decanter with outlets named for gas and liquid both; both drivers; the code's three extraction tries; one repair |
| `conditions` | provenance and settling of setpoints | 28 plants, one or more per coupling rule: flash, cooler-heater train, reheat, subcooled pump, intercooler, let-down, chiller, reactor, unknown feed, a feed and a setpoint written in Celsius, loop with the recycle as first inlet; three rule books; two steps of a beam, one repair |
| `orchestrator_loop` | the sequential driver against `RunContract` | budgets 0, 1, 4 around a beam ceiling of 3, so that the ceiling is extended, lowered and absent; scored and ablation arm, both tiers, every stage failing or raising |
| `rules_accumulate` | a caveat in every multi-run summary | the `Learning` instance with the multi-run plans |
| `described_kept` | a statement of a test | the `Conditions` instance |
| `no_silent_estimate` | a docstring of the wrapper | `Execution` with one column flowsheet |

`Learning`, `RepairSearch`, `Execution`, `LLMCalls`, `Assembly` and `Conditions`
may stop (calls, launches and repairs are bounded), so their runs do not check
deadlock; the others do, with `Terminating` or a final stutter as the explicit
end.

Every property of a passing run has a mutant in `PROJECT.json`: a plausible bug
in a modelled definition under which TLC finds the property violated.  The
remaining `Claim_*.cfg` files reproduce the further disagreements of section 4;
each is run as `tlc -config Claim_X.cfg MC...` and ends in a counterexample.

**Fairness.**  `FairSpec` is weak fairness on `Step`, the disjunction of all
nodes: `invoke` calls the next node as soon as the previous one returned, and
every node returns or raises (simulator and model calls have timeouts).  No
fairness is assumed of any particular outcome: `Termination` holds even if the
solver never converges and repairs change nothing.

`Execution` assumes weak fairness of the calling thread only (`Main`), because
`Thread.join(timeout)` returns; the solver threads may hang for ever, which is
the case the timeout is for.  `LLMCalls` likewise assumes it of the caller
(`Client`) and not of the services, so `BoundedCall` is about Ollama, the one
provider with a wall-clock timeout in this code.

**What the passing runs show.**

* `ResultCoherent`: PASS, HUMAN and STALLED come with the execution of the
  flowsheet returned, after any number of repairs, failed ones too.  MAX_ITER
  is left out on purpose: its execution is of the flowsheet before the last
  repair.
* `FlowsheetOfGraph`: outside Variant B, `dwsim_json` is always the
  serialisation of `ir_graph`.
* `SolveBudget`: solver calls stay within `max(max_iterations, 15)`.  That the
  counter does (`WithinCeiling`) is proved and not in the run.
* `StallAfterEveryPackage`, `NoPackageRevisited`: a run stalls only after every
  package was solved with, and a switch never returns to one.
* `OwnTermination`: a run whose budget leaves room under LangGraph's limit ends
  by itself.  `SuperStepBound`, proved but not in the run, is the count behind
  it: at most `7 + 2 * budget` super-steps, so with the default limit 100 no run
  with a budget up to 46 is ever cut off.
* `ImplementsContract`: `run` implements `RunContract`.
* `ColdStart`, `NullModeBlind`, `LearningKept`, `ClearingRecovers`: a cleared
  run applies only its own lessons whatever earlier, killed launches left; the
  null mode applies nothing learned outside the case; a completed save never
  drops what an earlier one had put in the file; a torn file never stops a
  cleared run at its first case.
* `RetriedOnlyWhenForgotten`, `OneAttemptPerRepair`: a value is tried again only
  after `MaxHistory` other attempts at the unit, and one call makes at most one
  per unit, so forgetting takes as many calls.
* `SilentOnlyWhenExhausted`: a call with errors that records nothing met a
  target all of whose offered values had been tried on that parameter.  It need
  not be the only target: `_pick_target` prefers the most tried one, so one
  exhausted target can hide others.
* `AlwaysExploring`: every step of a search is taken in EXPLORE.  The scheduler
  is new for each search and told to explore for `max(1, depth - 1)` steps, so
  stagnation counting, EXPLOIT and the configured width are never in force.
* `OwnAnswer`, `AtMostTwoTimeouts`, `Answered`: a result comes from a thread of
  its own flowsheet however many older threads still run, a call waits out at
  most two timeouts, and returns though the solver never does.
* `SolvedOnlyComplete`: of the dozen build stages any may fail half way, but a
  result that says solved is about a flowsheet with everything in place.
* `OwnReply`: an answer is to the call's own last request; in a conversation it
  stands behind its question, failed turns before it included (they stay in the
  history and are sent again).
* `RetriesWithinBudget`, `BoundedCall`: a call sleeps at most the seven minutes a
  comment promises, uses exactly the attempts its provider has before it gives up,
  and a local call ends though the service hangs.
* `RecycleKept`: a unit that the model gave recycles keeps exactly one through
  all guards, an upstream one if there was one, and it becomes a recycle block.
* `FlowsheetSound`: a valid graph reaches DWSIM with every port used once and
  every loop cut, although normaliser, builder, topology repair and serialiser
  allocate ports separately.
* `NamesApart`: whatever tags the passes put together (`MIX-`, `SPL-`, `-INIT`,
  `-L2`, a number behind a tag in use), no two nodes or objects share one.
* `NormaliseSettles`: applied again to a validated graph, `normalise` inserts and
  rewires nothing, unless a unit has more products than ports; and unless a
  vessel's names contradict each other it changes no port either.
* `ProvenanceTruthful`: a value marked as read from the description is what the
  description says, and a guess is a temperature or pressure of the text or the
  feed's temperature (a cooler behind a compressor takes that one when the text
  repeats it), after any passes, rules and repairs.
* `PassSettles`: from every reachable state the consistency pass comes to rest,
  although it reads what it wrote; at rest no unit works against its type
  unless a floor is in the way.
* `VerdictCoherent`, `ScoredBlind`, `ImplementsContract` of `OrchestratorLoop`: the
  sequential driver's verdicts are about the flowsheet returned, a result
  without verdict lags by at most one repair, nothing of the reference file
  reaches a scored run, and the contract holds.

## 4. Disagreements between code and text

Three are runs of `PROJECT.json`; each of the others has a `Claim_*.cfg`.

1. *A described value is overwritten* (`DescribedKept`): a test says that a
   stated, plausible value survives; the backward pass works on the conditions
   of before the monotonic fixes and replaces a stated heater temperature.  In
   the trace a cooler stated at 378 K behind a feed of 310 K is corrected to
   285 K; the heater behind it, stated at 380 K and plausible for 285 K, is
   judged against 378 K and set to bubble point + 15 K.  The property is judged
   right after the pass, before any rule moves the inlet again.
2. *Missing interaction parameters are estimated* (`NoSilentEstimate`): the
   estimator is switched off for the flowsheet's package before the packages of
   single units exist, and a refusal is noted in `early_warnings`, which
   `post_warnings` replaces.
3. *Rules do not accumulate* (`RulesAccumulate`): the caveat written into every
   `multi_run_summary` says that the rule store accumulates across runs and
   later runs may benefit; unless `--accumulate-rules` is given, `_run_multi`
   deletes the file before each run, which is what `ColdStart` rests on.
4. *An invalid graph is solved* (`InvalidNeverSolved`, `MCConditions`):
   `_route_thermo` says it must never be, but after a repair the second validation
   only adds warnings.
   In the trace a feed is written as 80 (Celsius) and its heater set to 345 K by
   the text.  The flowsheet is valid and fails to solve; the language model
   classifies the failure as UNIT_CONVERSION at the feed, which becomes 353 K,
   and the heater that now cools is handed to the solver.  The run needs that
   repair: on the other plants TLC finds none that leaves a unit working
   against its type.
5. *The ceiling is lowered* (`CeilingOnlyExtended`, `MCPipeline`): the beam
   "extension" assigns 15, so `--max-iter 20` loses five iterations.
6. *No flowsheet, yet MAX_ITER* (`NoFlowsheetEscalated`, `MCPipeline`): the
   escalation comes after the ceiling test, which a failed repair has made true.
7. *The null mode writes* (`NullModeNeverWrites`, `MCLearning`): it saves its own
   store over the shared file.
8. *Runs share margins* (`RunsIndependent`, `MCLearning`): `_run_multi` does not
   reset the margin model.
9. *Margins of failed repairs* (`MarginsFromSuccess`, `MCLearning`): recorded on
   the IR validator's word, before the solver ran.
10. *A no-op with candidates left* (`NoopMeansNothingLeft`, `MCRepairSearch`): the
   value in force is no recorded attempt, is offered, and is the cheapest; the
   stall gate then reads "no applicable action".
11. *Greedy is wide* (`GreedyKeepsOne`, `MCRepairSearch`): the mode with
    `beam_width=1` runs the beam search and keeps three states.
12. *Empty replies* (`EmptyOnlyWhenExhausted`, `MCLLMCalls`): stripping the
    thinking block empties a reply the retry had accepted.
13. *Stuck means next case* (`StuckMeansNextCase`, `MCExecution`): after a timed-out
    first pass the reflux tuning starts a second thread on the object the first
    still calculates.
14. *Seeded setpoints are lost* (`SeededSurvive`, `MCConditions`): `ParamMapper`
    overwrites the heater and cooler temperatures it is said to preserve.
15. *A recycle that feeds nothing* (`RecycleClosed`, `MCAssembly`): its INIT stream
    is wired by `_insert_mixers`, which passes over a target that is a mixer
    or has no other inlet.
16. *normalise is not a no-op* (`NormaliseIsNoop`, `MCAssembly`): a vessel with two
    outlets named for one phase has its ports rewritten on every call.  It need
    not even leave the wiring alone: an outlet of a decanter named for gas and
    liquid both (`LIQUEFIED-GAS`) is no liquid to `_complete_separator_outlets`,
    which adds two, and not the vapour to `_repair_decanter_ports`.  With an
    off-gas beside it the decanter has four products on ports 0 to 3; `validate`
    computes `max_out` and never compares it, so the graph is valid, and the
    `normalise` of Stage 3 puts a splitter behind the decanter and completes
    its outlets once more.  `Overfull` is that case.

Met while modelling, without a property of their own: a recycle with a phantom
source crashes the builder, where the extractor's docstring speaks of "rather
than crashing validation"; a recycle target in natural language fails extraction,
so the first guard's fuzzy resolution is never reached; a unit with one product
and one recycle outlet gets port 0 twice and is refused; `_repropagate_recycles`
may pick a cycle that is already torn; the port repair resets the third outlet
of a splitter to port 0; a second pass over a loop whose recycle is its mixer's
first inlet multiplies a compressor's pressure again before it rests; a rule
applied after the pass can make the second validation fail; the molar balance
of the post-check flags mole-changing reactions; credit along a beam trajectory
is propagated before its attempts are in the log and reaches none of them.

## 5. Proofs

`PipelineProofs` proves `Spec => []IInv` for every set of packages, parameters,
defects and iteration budgets that satisfies the named assumptions of
`Pipeline`, and with it `TypeCorrect`, `ResultsAreCoherent`,
`FlowsheetIsOfGraph` and `CeilingHolds`.  The properties are not inductive
alone.  `IInv` adds:

* `Located`: the nodes from validate on have a graph, and before the loop no
  flowsheet, hash or count exists (otherwise `ThermoBuilt` could meet an old
  hash);
* `EmptyAtCeiling`: the execute node without a flowsheet is at its ceiling, so
  the unreachable HUMAN of a missing flowsheet does not break coherence;
* `HashOfExecution`: the execution kept is the one of the flowsheet last hashed,
  which turns "flowsheet unchanged" of the stall gate into a coherent verdict;
* `RepairBelowBudget`: repair is entered below one of the budgets, which is what
  makes one more iteration legal.

The second half of the module carries that invariant over to `run`, recursion abort
included, and adds how far a run has come at each node: `SolvesCounted` (one
solve per iteration while another solve is possible; needed because a failed
repair may *lower* the counter, but then only to the ceiling), `VisitsCounted`
(super-steps per node), `PackagesKnown` (what is tried was solved, but for the
package of a graph about to be; the flowsheet has the graph's package) and
`StallEnds`.  From it follow `SolverCallsBounded`, `StallLeavesNothingUntried`,
`SuperStepsBounded`, `PackagesNotRevisited` and, step by step,
`RunImplementsContract`: `RunSpec => Contract!Spec`.  The assumption used beside
those of `Pipeline` is that the recursion limit is at least six, the room the
preparation needs; below it the abort could hit a run that was never admitted.

`ServicesProofs` holds the proofs of two modules.  It proves the properties of
`Learning` for every plan, number of
cases and samples, threshold, and number of repairs and launches.  Its invariant
says what the *file* may hold: inside a cleared run only lessons of that run
(`FileCold`, from which `StoreCold` and `RulesCold` follow on loading), and
always the last store completely written unless it is torn (`FileIsSaved`, from
which `SavedIsLoaded`).  `Unapplied` says that a sample that raises before its
rules were applied has none.

`RepairSearchProofs` proves the five properties of the search for every set of
units, parameters and values, whatever is offered, coupled, settled or tuned, and
for every `MaxHistory`, `Width` and `Depth`.  Its invariant says what a state of
the beam may hold: fixes of different units with values not in the memory
(`BeamFresh`), and no fixes only if it is still the initial graph and, after a
step, a target is exhausted (`BeamSilent`); `Stamped` dates attempts before the
current call, and `InStep` ties the scheduler's counter to the step, which is
why its budget cannot run out.  The lemma `LogGrows` is the heart: recording such
a trajectory keeps the log's properties.  `ShortRunsNeverRetry` adds, by the
pigeonhole principle, that with `MaxRepairs <= MaxHistory + 1` no value is tried
twice at all: with the code's memory of 20, no run within the default of 10 or
the beam ceiling of 15 iterations does, and the trimming never matters there.

`OrchestratorLoopProofs` proves `LoopInv` for every budget: beside the types it
says, step by step, how many solves were made (`InLoop`: one per iteration) and
how graph, flowsheet, execution and the result written so far belong together
(`Pending`, `Judged`).  Without `InLoop` a failed repair could return a result of
two repairs ago.  From it follow `LoopTypeCorrect`, `LoopResultsCoherent`,
`ScoredRunsBlind` and `LoopImplementsContract`.  Assumed: budgets are naturals,
`None` is no graph or execution.

`ExecutionProofs` proves the types, `OwnAnswer`, `SolvedOnlyComplete` and
`AtMostTwoTimeouts` for every set of flowsheets and any number of calls and
threads left behind.  `OwnAnswer` is not inductive: `Owned` adds that the thread
waited for is the newest and on the current flowsheet and that the answer at
hand is of a thread of that flowsheet; `Counted` ties passes and timeouts to the
step.  `SolvedOnlyComplete` needs the whole order of the build: `BuiltSoFar`
says, stage by stage, what is already in the flowsheet object, and that holds
because no later stage takes anything out and because a solver thread, its own
or an abandoned one, changes only the verdict it leaves.  `Typed` adds who may
have answered what at each step.

The second half of `ServicesProofs` proves `CallTypeOK`, `OwnReply` and `RetriesWithinBudget` for any
number of calls and abandoned requests.  `Waiting` says that the request waited
for is the newest, of this call and not given up, `Conversing` that the last turn
of a waiting conversation is the one to be answered.  For the budget, `Numbered`
says that every request is of a call made so far, and `Spent` that a call has
sent one request per attempt begun and has slept at most 15, 45, 105, 225 or 345
seconds after its first to fifth attempt, errors and empty replies in any order;
a sixth request is the last, so the seven minutes hold.

`FoldInduction` makes the passes over lists accessible to proof.  Induction over
data is not to be had from the library, whose principles take an operator as
their argument.  Here the operators are CONSTANTs of a module: `op`, what a pass
does to one element, and `P`, what holds after the first `n`.  `FoldInvariant`
follows from the least member of a set of naturals, and each pass is an
INSTANCE of the module.  `FiniteMax` gives a finite set of naturals its greatest
member in the same way.

`ConditionsProofs` proves `TypeOK` and `ProvenanceTruthful` for every flowsheet,
every sequence of rules and any number of beam steps and repairs.  The invariant
`CondInv` (which TLC confirms on the run's instance) says of every setpoint that
it has the value its type of unit has (`Shaped`) and that what it claims is true
(`Sound`), and of every stream that its temperature and pressure are positive
or unknown (`CondsOK`): a correction is computed from what the streams carry, so
neither is inductive without the other.  The argument goes pass by pass
(`PropagateKeeps`, `MonotonicKeeps`, `BackwardKeeps`, `WriteBackKeeps`,
`RulesKeep`, `Kelvin`, `SettleKeeps`, `MovesKnown`), each on the one fact that a setpoint
is either left alone or corrected, and that correcting takes the claim away
(`Corrects`, `Sets`); `AssignKeeps` starts it, since every unit that needs a
setpoint is stated, pooled or estimated.  Assumed, beside the named assumptions
of `Conditions`: bubble points are positive temperatures (`BubbleKnown`), for
every pressure.  Nothing is assumed of their order, so the passes may disagree
as they like.

`AssemblyProofs` proves `TypeOK` and `RecycleKept` for every process and set of
replies, either driver, and any number of retries and repairs.  Neither is
inductive: `RecycleKept` speaks of the topology after its guards and of the
flowsheet blocks many passes later.  `AssemblyInv` (which TLC confirms on the
run's instance) adds in between

* `TopologyOK`: the streams run between units of the sheet, have distinct tags,
  and until the guards have run `origin` is exactly what the model said;
* `GuardedOK`: after the guards, what `RecycleKept` says of the topology alone;
* `GraphSound`: every stream of the graph has its fields and runs between units
  of the graph (`GraphOK`), and the streams of the topology are still its first
  ones, with their tags and, where they are recycles, their flags (`Carries`);
* `FlowsheetOK`: the flowsheet kept is the one `to_dwsim` makes of this graph.

`Carries` holds because no pass of `normalise` and no repair takes a stream out
or moves one: each appends, or rewrites in place, and leaves tag and flag alone
(`NormaliseKeeps`, `TopologyRepairKeeps`).  A pass is a fold over the units, so
`FoldInduction` is instantiated for each walk and every pass comes down to one lemma
about one unit.  The mixer and splitter passes bend streams to units they add,
which is why the units are appended in the same step (`Extends`).

For the guards, a fixed source turns `RanksBelow` into the order of the targets'
positions: the first recycle with the most upstream target is `Redundant` to
none, and every other recycle of the source is redundant to it.  So exactly one
stays, and if any target lies upstream its target does.

`FlowsheetsAreSound` proves `FlowsheetSound` of every behaviour in which names
stay apart: `Spec /\ []NamesApart => []FlowsheetSound`.  The hypothesis is the
property of the run, and is what the model cannot say of strings; that it may
be lost only by a collision of tags is the reason it stands in the theorem and
is not assumed of a constant.  `ValidIsSound` is the step from one graph to its
connections: of a graph with `GraphOK`, `Valid` and names apart,

* a connection is told by its name, which is a stream's tag, an INIT stream's or
  a dead end's (`NamesTell`), so two connections out of one port are two streams
  of one source and port, against `PortsDistinct`, or a stream and a dead end,
  which `OpenOutlets` excludes (`SourcesApart`);
* into a unit with one inlet there is one connection by `InletsFit`, and the
  inlets of a mixer are numbered by position, so a later one has a larger
  number (`MoreIndices`, `DestinationsApart`);
* connections from unit to unit are streams that are no recycle
  (`FeedsByStream`).  Were there a loop in which every unit is fed from the loop,
  a smallest such set of units would consist exactly of the sources of the
  streams within it and exactly of their destinations, a closed set of streams,
  against `Acyclic` (`StreamsWithin`, `FedFromWithin`, `NoLoops`).

`Judged` carries the verdict over time: with a flowsheet, `valid` is about the
graph at hand (`FlowsheetsAreJudged`).

Assumed: `SheetsAssumption`
(replies are lists of well-formed streams, near misses are corrected to tags of
the sheet, no unit is called `None`) and the two bounds.  That unit tags of a
sheet are unique is not needed.

Only model-checked:

* `Termination`, `Answered`, `BoundedCall` and everything under fairness
  (`ENABLED` is outside the prover);
* `PassSettles`: it compares a graph with what a number of further passes make
  of it and holds because temperatures meet the floors, an argument about values
  and not about steps;
* `NamesApart` of `Assembly`: tags are put together from strings (`MIX-` before a
  unit's tag), of which the provers know nothing (that `"MIX-" \o t` determines
  `t` is out of their reach);
* `NormaliseSettles`: it compares two runs of seven passes and rests on what each
  of them leaves for the next to find, unit by unit.

## 6. Not modelled

* Prompts, JSON repair, matching of compound and unit names in text, tokens in
  error messages: text processing; their outcomes are nondeterministic.
* Estimation formulas, column and reactor rules of the consistency pass, scores
  and credit of the beam search, medians and trimmed means: arithmetic on
  floats, of which the models keep what decides a branch.
* The .NET reflection calls of `dwsim/dwsim_wrapper.py` and DWSIM itself: any
  answer or exception.
* Evaluation, metrics, reports and the ranking of best-of-N: functions of
  finished results, without state.
* Version 1 agents (`agents/critic.py`, `agents/refiner.py` and the drivers
  around them): no version 2 driver reaches their loops.
* Reference data tools and job scripts: one-shot.
* In `Assembly.Validate`, the checks of schema, ranges and composition
  (`validate.py`, level 1 and 3a): what the flowsheet's structure may be does not
  depend on them.  The suffix `_repair_vessel_outlets` appends when the name it
  wants is taken (`_LIQUIDOUT2`) is left out as well; `NamesApart` would report
  the collision it avoids.
* In `Conditions`, conversions of a pressure below 500 Pa (the unit is the kPa),
  the candidates of the wider tiers for an uncertain estimate (more values of
  the kind modelled), and the settler's rule for an upstream heater that feeds
  a vessel too: after `normalise` a heater has one outlet, so it never applies.
* In `RepairSearch`, the repair the topology hand-off may run before Stage 3: it
  has a memory of its own, which is dropped, and works on a graph without
  setpoints.  `Tried` starts empty with the execution loop.
* Two benchmark processes on one rule file: the repository's job scripts give each
  process a directory of its own.

Where the project could grow: columns in `Conditions`, the ranking rules of the
retriever, and a proof that `RepairSearch` implements the repair step of
`Pipeline`.
