------------------------------ MODULE Pipeline ------------------------------
(***************************************************************************)
(* The LangGraph driver of ChatPSE, agents/graph_pipeline.py: a state      *)
(* machine over the nodes basis, topology, reference_topology, build,      *)
(* validate, topology_repair, thermo, execute and repair.  One action per  *)
(* way a node can return; `pc` is the node that runs next, chosen as the   *)
(* routing functions choose it from the outcome the node left.             *)
(*                                                                         *)
(* What the language model, the thermodynamic database and DWSIM answer is *)
(* data: unit parameters, property packages and error strategies are       *)
(* members of small sets, and an answer is any member the code accepts.    *)
(***************************************************************************)
EXTENDS Naturals, FiniteSets

CONSTANTS
    MaxIters,          \* values --max-iter may configure
    BeamMaxIter,       \* _BEAM_MAX_ITER (15 in the code)
    Packages,          \* packages ThermoRetriever can return for the compounds
    ActivityPackages,  \* those of them that are NRTL or UNIQUAC
    NoPkg,             \* the default property_package "" of a fresh graph
    Params,            \* unit-parameter assignments of a graph
    SentParams,        \* what to_dwsim keeps of each assignment
    Defects,           \* kinds of critical validation issue told apart
    VariantBModes,     \* whether VARIANT_B and a reference file may be set
    None               \* Python's None

ASSUME MaxItersAssumption == MaxIters \subseteq Nat
ASSUME BeamAssumption == BeamMaxIter \in Nat \ {0}
ASSUME PackageAssumption ==
    NoPkg \notin Packages /\ ActivityPackages \subseteq Packages
ASSUME ParamsAssumption == SentParams \in [Params -> Params]

(* A vessel without its second outlet, a cycle, and everything else.       *)
ASSUME DefectsAssumption == Defects \subseteq {"vessel", "cycle", "other"}
ASSUME VariantBAssumption == VariantBModes \subseteq BOOLEAN

(* Repair strategies the loop tells apart.  "other" stands for the         *)
(* deterministic fixes (TOPOLOGY_FIX, PARAM_INJECT, DEFAULT_FILL, ...).    *)
Strategies == {"condition", "switch", "other"}

Graphs == [params : Params, pkg : Packages \cup {NoPkg}, defects : SUBSET Defects]
Flowsheets == [sent : Params, pkg : Packages \cup {NoPkg}, defects : SUBSET Defects]
Executions == [of : Flowsheets, solved : BOOLEAN, clean : BOOLEAN]

ASSUME NoneAssumption == None \notin Graphs \cup Flowsheets \cup Executions

Nodes == {"basis", "topology", "reference_topology", "build", "validate",
          "topology_repair", "thermo", "execute", "repair"}
Stopped == {"END", "CRASH"}
Outcomes == {"BASIS_FAILED", "PLAN_FAILED", "INVALID_IR", "INVALID_TOPOLOGY",
             "TOPO_OK", "TOPO_INFEASIBLE", "TOPO_REPAIR_LLM", "PARAM_MISSING",
             "CONTINUE", "PASS", "HUMAN", "STALLED", "MAX_ITER"}

VARIABLES
    pc,              \* node to run next, "END", or "CRASH" (run() raised)
    outcome,         \* PipelineState.outcome
    maxIter,         \* max_iterations
    variantB,        \* variant_b_active
    refData,         \* reference_data is not None
    semTopo,         \* sem_units and sem_topo are not None
    missing,         \* sem_topo names a unit that is not in the unit list
    recycleDropped,  \* a recycle guard dropped a flag recycle_origin remembers
    graph,           \* ir_graph
    report,          \* ir_report.valid
    flowsheet,       \* dwsim_json
    tried,           \* tried_packages
    iteration,
    effMax,          \* eff_max_iter
    beamExtended,    \* beam_extended
    execution,       \* the last ExecutionResult, with the flowsheet it is of
    errors,          \* strategies of the errors handed to the repair node
    prev,            \* prev_hash: the flowsheet the hash was taken of
    noop             \* last_repair_noop

control == <<pc, outcome>>
inputs == <<maxIter, variantB>>
stage1 == <<semTopo, missing, recycleDropped>>
loop == <<tried, iteration, effMax, beamExtended, execution, errors, prev, noop>>
vars == <<control, inputs, refData, stage1, graph, report, flowsheet, loop>>

(* to_dwsim: parameters outside _UNIT_PARAM_KEYS are not sent, the package *)
(* and the structure are.                                                  *)
ToDwsim(g) == [sent |-> SentParams[g.params], pkg |-> g.pkg, defects |-> g.defects]

(* What executor.run may answer for flowsheet f: solved or not, with or    *)
(* without reported errors.  pre_execution_check refuses a package that    *)
(* has no mapping, so no flowsheet without a package comes back solved.    *)
Results(f) == {e \in [of : {f}, solved : BOOLEAN, clean : BOOLEAN] :
                  e.solved => f.pkg # NoPkg}

(* select_package(compounds, exclude = tried + the current package).       *)
Untried == Packages \ (tried \cup {graph.pkg})

RouteEntryUnregistered(b) == IF b THEN "reference" ELSE "basis"
RouteEntry(b) == IF b THEN "reference_topology" ELSE "basis"

Init ==
    /\ maxIter \in MaxIters
    /\ variantB \in VariantBModes
    /\ pc = RouteEntry(variantB)
    /\ outcome = "MAX_ITER"
    /\ refData = FALSE
    /\ semTopo = FALSE /\ missing = FALSE /\ recycleDropped = FALSE
    /\ graph = None /\ report = None /\ flowsheet = None
    /\ tried = {}
    /\ iteration = 0
    /\ effMax = maxIter
    /\ beamExtended = FALSE
    /\ execution = None
    /\ errors = {}
    /\ prev = None
    /\ noop = FALSE

-----------------------------------------------------------------------------
(* Stage 0-2: identify the compounds, extract the topology, build the IR.  *)

(* The extraction nodes refuse to run under Variant B (an AssertionError). *)
Basis ==
    /\ pc = "basis"
    /\ ~variantB
    /\ \/ pc' = "topology" /\ UNCHANGED outcome
       \/ pc' = "END" /\ outcome' = "BASIS_FAILED"
    /\ UNCHANGED <<inputs, refData, stage1, graph, report, flowsheet, loop>>

(* Extraction succeeds with any topology; the recycle guards may clear a   *)
(* flag the extractor had set, remembered in recycle_origin.               *)
Topology ==
    /\ pc = "topology"
    /\ ~variantB
    /\ \/ /\ pc' = "build"
          /\ semTopo' = TRUE
          /\ missing' \in BOOLEAN
          /\ recycleDropped' \in BOOLEAN
          /\ UNCHANGED outcome
       \/ /\ pc' = "END"
          /\ outcome' = "PLAN_FAILED"
          /\ UNCHANGED stage1
    /\ UNCHANGED <<inputs, refData, graph, report, flowsheet, loop>>

(* The edge to build is unconditional: a reference that cannot be loaded   *)
(* leaves PLAN_FAILED behind and goes on without a topology.               *)
ReferenceTopology ==
    /\ pc = "reference_topology"
    /\ pc' = "build"
    /\ \/ semTopo' = TRUE /\ refData' = TRUE /\ missing' \in BOOLEAN
          /\ UNCHANGED outcome
       \/ outcome' = "PLAN_FAILED" /\ UNCHANGED <<semTopo, refData, missing>>
    /\ UNCHANGED <<inputs, recycleDropped, graph, report, flowsheet, loop>>

Build ==
    /\ pc = "build"
    /\ semTopo
    /\ pc' = "validate"
    /\ \E p \in Params, d \in SUBSET Defects :
           graph' = [params |-> p, pkg |-> NoPkg, defects |-> d]
    /\ UNCHANGED <<outcome, inputs, refData, stage1, report, flowsheet, loop>>

-----------------------------------------------------------------------------
(* Validation and the deterministic topology repair.                       *)

Repairable(g) == "vessel" \in g.defects \/ "cycle" \in g.defects \/ missing

Validate ==
    /\ pc = "validate"
    /\ report' = (graph.defects = {})
    /\ CASE report'           -> pc' = "thermo" /\ UNCHANGED outcome
         [] ~report' /\ Repairable(graph) ->
                pc' = "topology_repair" /\ outcome' = "INVALID_TOPOLOGY"
         [] OTHER             -> pc' = "END" /\ outcome' = "INVALID_IR"
    /\ UNCHANGED <<inputs, refData, stage1, graph, flowsheet, loop>>

(* What _repair_vessel_outlets and _repropagate_recycles can leave of the  *)
(* defects d.  A vessel stays defective when its outlet is suppressed or   *)
(* when it has no outlet at all; a cycle goes only where a guard had       *)
(* dropped a flag, and the restored recycle_target may be invalid.         *)
Residue(d) ==
    {r \in SUBSET Defects :
        /\ r \ {"other"} \subseteq d
        /\ d \cap {"other"} \subseteq r
        /\ "cycle" \in d /\ ~recycleDropped => "cycle" \in r
        /\ "other" \in r \ d => "cycle" \in d /\ recycleDropped}

TopologyRepair ==
    /\ pc = "topology_repair"
    /\ \E r \in Residue(graph.defects), suppressed \in BOOLEAN :
        /\ suppressed => "vessel" \in r
        /\ graph' = [graph EXCEPT !.defects = r]
        /\ report' = (r = {})
        /\ IF r = {} /\ ~missing
             THEN pc' = "thermo" /\ outcome' = "TOPO_OK" /\ UNCHANGED errors
           ELSE IF suppressed
             THEN pc' = "END" /\ outcome' = "TOPO_INFEASIBLE" /\ UNCHANGED errors
           ELSE /\ pc' = "repair" /\ outcome' = "TOPO_REPAIR_LLM"
                /\ errors' \in SUBSET (Strategies \ {"switch"})
                /\ r = {} => errors' = {}
    /\ UNCHANGED <<inputs, refData, stage1, flowsheet, tried, iteration, effMax,
                   beamExtended, execution, prev, noop>>

-----------------------------------------------------------------------------
(* Stage 3: package and parameters, second validation, flowsheet.          *)

(* Mapping works on a copy of the graph; only Variant B seeds reference    *)
(* setpoints into the graph in place before it.                            *)
ThermoRefused ==
    /\ pc = "thermo"
    /\ pc' = "END"
    /\ outcome' \in {"PARAM_MISSING", "PLAN_FAILED"}
    /\ \E p \in (IF refData THEN Params ELSE {graph.params}) :
           graph' = [graph EXCEPT !.params = p]
    /\ UNCHANGED <<inputs, refData, stage1, report, flowsheet, loop>>

(* Mapping, the consistency pass, the stored rules and normalise may leave *)
(* any parameters and any structure; the structure is validated again.     *)
ThermoAssigned(g) ==
    \E p \in Params, k \in Packages, d \in SUBSET Defects :
        g = [params |-> p, pkg |-> k, defects |-> d]

ThermoInvalid ==
    /\ pc = "thermo"
    /\ pc' = "END"
    /\ outcome' = "INVALID_IR"
    /\ graph' \in Graphs /\ ThermoAssigned(graph') /\ graph'.defects # {}
    /\ report' = FALSE
    /\ UNCHANGED <<inputs, refData, stage1, flowsheet, loop>>

ThermoBuilt ==
    /\ pc = "thermo"
    /\ pc' = "execute"
    /\ graph' \in Graphs /\ ThermoAssigned(graph') /\ graph'.defects = {}
    /\ flowsheet' = ToDwsim(graph')
    /\ tried' = {graph'.pkg}
    /\ refData' \in (IF variantB THEN BOOLEAN ELSE {FALSE})
    /\ UNCHANGED <<outcome, inputs, stage1, report, iteration, effMax,
                   beamExtended, execution, errors, prev, noop>>

-----------------------------------------------------------------------------
(* Stage 4: the execute node.                                              *)

AtCeilingOffByOne == iteration > effMax
AtCeiling == iteration >= effMax

(* The ceiling is tested first, so a run that comes back from a failed     *)
(* repair without a flowsheet (iteration was set to effMax) is MAX_ITER.   *)
RefusalSwapped == IF flowsheet = None THEN "HUMAN" ELSE "MAX_ITER"
Refusal == IF AtCeiling THEN "MAX_ITER" ELSE "HUMAN"

ExecuteRefuses ==
    /\ pc = "execute"
    /\ AtCeiling \/ flowsheet = None
    /\ pc' = "END"
    /\ outcome' = Refusal
    /\ UNCHANGED <<inputs, refData, stage1, graph, report, flowsheet, loop>>

Ready == pc = "execute" /\ ~AtCeiling /\ flowsheet # None

(* The last repair changed neither the flowsheet nor a parameter, and the  *)
(* retriever has no further package to offer.                              *)
StalledUngated == iteration > 0 /\ flowsheet = prev /\ noop
Stalled == iteration > 0 /\ flowsheet = prev /\ noop /\ Untried = {}

ExecuteStalls ==
    /\ Ready
    /\ Stalled
    /\ pc' = "END"
    /\ outcome' = "STALLED"
    /\ UNCHANGED <<inputs, refData, stage1, graph, report, flowsheet, loop>>

(* Solved without critic failures.  Under Variant B the reference-guided   *)
(* refinement may overwrite T_out in the graph, in place, and solve again; *)
(* only a re-solve that converged replaces the flowsheet and its result.   *)
ExecutePasses ==
    /\ Ready
    /\ ~Stalled
    /\ \E e \in Results(flowsheet) :
        /\ e.solved /\ e.clean
        /\ \/ execution' = e /\ UNCHANGED <<graph, flowsheet>>
           \/ /\ variantB /\ refData
              /\ \E p \in Params, d \in SUBSET Defects :
                    LET refined == ToDwsim([graph EXCEPT !.params = p, !.defects = d])
                    IN  /\ graph' = [graph EXCEPT !.params = p]
                        /\ \/ execution' = e /\ UNCHANGED flowsheet
                           \/ /\ execution' \in {x \in Results(refined) : x.solved}
                              /\ flowsheet' = refined
    /\ pc' = "END"
    /\ outcome' = "PASS"
    /\ prev' = flowsheet
    /\ UNCHANGED <<inputs, refData, stage1, report, tried, iteration, effMax,
                   beamExtended, errors, noop>>

(* The classifier finds a terminal error: hand over to a human.            *)
ExecuteEscalates ==
    /\ Ready
    /\ ~Stalled
    /\ execution' \in {e \in Results(flowsheet) : ~(e.solved /\ e.clean)}
    /\ pc' = "END"
    /\ outcome' = "HUMAN"
    /\ errors' = {}
    /\ prev' = flowsheet
    /\ UNCHANGED <<inputs, refData, stage1, graph, report, flowsheet, tried,
                   iteration, effMax, beamExtended, noop>>

(* Strategies ErrorClassifier.classify can return for a result that is     *)
(* neither passed nor terminal: an unsolved one always has some, and an    *)
(* unsolved activity model has a package switch among them.                *)
Classified(e) ==
    {s \in SUBSET Strategies :
        ~e.solved => /\ s # {}
                     /\ e.of.pkg \in ActivityPackages => "switch" \in s}

(* The first time more than one CONDITION_FIX is found, the ceiling is     *)
(* set to BeamMaxIter, whatever it was.                                    *)
CeilingAfter(many) == IF many /\ ~beamExtended THEN BeamMaxIter ELSE effMax

ExecuteContinues ==
    /\ Ready
    /\ ~Stalled
    /\ \E e \in {r \in Results(flowsheet) : ~(r.solved /\ r.clean)}, many \in BOOLEAN :
        /\ execution' = e
        /\ errors' \in Classified(e)
        /\ many => "condition" \in errors'
        /\ beamExtended' = (beamExtended \/ many)
        /\ effMax' = CeilingAfter(many)
    /\ pc' = "repair"
    /\ outcome' = "CONTINUE"
    /\ prev' = flowsheet
    /\ UNCHANGED <<inputs, refData, stage1, graph, report, flowsheet, tried,
                   iteration, noop>>

-----------------------------------------------------------------------------
(* Stage 4: the repair node.                                               *)

(* switch_package takes an untried package and leaves the graph alone when *)
(* there is none; the other fixes may change parameters.  normalise runs   *)
(* afterwards and may add units, Variant B may seed parameters again, and  *)
(* the validation that follows only warns: the patched graph becomes the   *)
(* next flowsheet whatever its defects.                                    *)
TriedForgotten(k) == tried
TriedAfter(k) == tried \cup {k}

RepairApplied ==
    /\ pc = "repair"
    /\ \E p \in Params, q \in Params, k \in Packages \cup {NoPkg}, d \in SUBSET Defects :
        /\ errors \cap {"condition", "other"} = {} => p = graph.params
        /\ IF "switch" \in errors /\ Untried # {} THEN k \in Untried ELSE k = graph.pkg
        /\ ~refData => q = p
        /\ graph' = [params |-> q, pkg |-> k, defects |-> d]
        /\ tried' = TriedAfter(k)
        /\ noop' = (p = graph.params)
    /\ flowsheet' = ToDwsim(graph')
    /\ iteration' = iteration + 1
    /\ pc' = "execute"
    /\ outcome' = "CONTINUE"
    /\ UNCHANGED <<inputs, refData, stage1, report, effMax, beamExtended,
                   execution, errors, prev>>

(* Any exception: the graph and the flowsheet stay, and the counter jumps  *)
(* to the ceiling so that the execute node ends the run.                   *)
CounterKept == iteration
CounterAfterFailure == effMax

RepairRaisesHalfWay ==
    /\ pc = "repair"
    /\ graph # None
    /\ \E p \in Params : graph' = [graph EXCEPT !.params = p]
    /\ iteration' = CounterAfterFailure
    /\ pc' = "execute"
    /\ outcome' = "CONTINUE"
    /\ UNCHANGED <<inputs, refData, stage1, report, flowsheet, tried,
                   effMax, beamExtended, execution, errors, prev, noop>>

RepairRaises ==
    /\ pc = "repair"
    /\ iteration' = CounterAfterFailure
    /\ pc' = "execute"
    /\ outcome' = "CONTINUE"
    /\ UNCHANGED <<inputs, refData, stage1, graph, report, flowsheet, tried,
                   effMax, beamExtended, execution, errors, prev, noop>>

-----------------------------------------------------------------------------
(* Exceptions no node catches leave run() by raising: construction errors  *)
(* of the graph builder, a build without a topology, serialisation errors, *)
(* unexpected exceptions of the agents, and a classifier call that fails   *)
(* after the executor ran.                                                 *)

NodeRaises ==
    /\ pc \in {"basis", "topology", "reference_topology", "build", "thermo"}
    /\ pc' = "CRASH"
    /\ UNCHANGED <<outcome, inputs, refData, stage1, graph, report, flowsheet, loop>>

ClassifierRaises ==
    /\ Ready
    /\ ~Stalled
    /\ pc' = "CRASH"
    /\ UNCHANGED <<outcome, inputs, refData, stage1, graph, report, flowsheet, loop>>

Prepare == Basis \/ Topology \/ ReferenceTopology \/ Build \/ Validate
              \/ TopologyRepair \/ ThermoRefused \/ ThermoInvalid \/ ThermoBuilt
Solve == ExecutePasses \/ ExecuteEscalates \/ ExecuteContinues \/ ClassifierRaises
Decline == ExecuteRefuses \/ ExecuteStalls
Repair == RepairApplied \/ RepairRaises

Step == Prepare \/ Solve \/ Decline \/ Repair \/ NodeRaises

Terminating == pc \in Stopped /\ UNCHANGED vars

Next == Step \/ Terminating

Spec == Init /\ [][Next]_vars

(* LangGraph invokes the next node as soon as the previous one returned,   *)
(* and every node returns or raises.                                       *)
FairSpec == Spec /\ WF_vars(Step)

-----------------------------------------------------------------------------
(* Properties.                                                             *)

(* Every field of PipelineState has its type.                              *)
TypeOK ==
    /\ pc \in Nodes \cup Stopped
    /\ outcome \in Outcomes
    /\ maxIter \in Nat /\ variantB \in BOOLEAN
    /\ refData \in BOOLEAN
    /\ semTopo \in BOOLEAN /\ missing \in BOOLEAN /\ recycleDropped \in BOOLEAN
    /\ graph \in Graphs \cup {None}
    /\ report \in BOOLEAN \cup {None}
    /\ flowsheet \in Flowsheets \cup {None}
    /\ tried \subseteq Packages \cup {NoPkg}
    /\ iteration \in Nat /\ effMax \in Nat
    /\ beamExtended \in BOOLEAN
    /\ execution \in Executions \cup {None}
    /\ errors \subseteq Strategies
    /\ prev \in Flowsheets \cup {None}
    /\ noop \in BOOLEAN

(* A verdict about a flowsheet is a verdict about the flowsheet returned:  *)
(* final_execution belongs to final_flowsheet whenever the run ends PASS,  *)
(* HUMAN or STALLED, after however many repairs.                           *)
ResultCoherent ==
    pc = "END" /\ outcome \in {"PASS", "HUMAN", "STALLED"} =>
        execution # None /\ execution.of = flowsheet

(* In a scored run the flowsheet in the state is always the serialisation  *)
(* of the graph in the state, across repairs that fail half way.  (Under   *)
(* Variant B the refinement changes the graph and may keep the flowsheet.) *)
FlowsheetOfGraph ==
    ~variantB /\ flowsheet # None => flowsheet = ToDwsim(graph)

(* The counter never passes the larger of the two budgets.  It can pass    *)
(* effMax: extending the ceiling lowers it when maxIter > BeamMaxIter, and *)
(* the topology hand-off repairs once before any ceiling was tested.       *)
WithinCeiling ==
    /\ iteration <= maxIter \/ iteration <= BeamMaxIter
    /\ effMax = IF beamExtended THEN BeamMaxIter ELSE maxIter

(* Every run ends, by its own rules: no cycle of repair and execute lasts. *)
Termination == <>(pc \in Stopped)

-----------------------------------------------------------------------------
(* What the comments of the source say, and the code does not keep.        *)

(* "With no flowsheet there is nothing to run - escalate" (_execute_node): *)
(* a run that never had a flowsheet goes to a human.  The ceiling is       *)
(* tested before it, so after a failed repair it is reported as MAX_ITER.  *)
NoFlowsheetEscalated ==
    pc = "END" /\ outcome = "MAX_ITER" => flowsheet # None

(* "extending max_iter": the beam-search extension never takes iterations  *)
(* away.  It assigns the constant 15, whatever --max-iter was.             *)
CeilingOnlyExtended == [][beamExtended' # beamExtended => effMax' >= effMax]_vars

=============================================================================
