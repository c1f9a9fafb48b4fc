--------------------------- MODULE PipelineProofs ---------------------------
(***************************************************************************)
(* Proofs about Pipeline and PipelineRun, for every set of packages,       *)
(* parameters and iteration budgets.                                       *)
(*                                                                         *)
(* Pipeline's properties are not inductive by themselves: IInv adds where  *)
(* the graph and the flowsheet exist, that the execution kept in the state *)
(* is the one of the flowsheet last hashed, and that the repair node is    *)
(* entered below one of the two budgets.                                   *)
(*                                                                         *)
(* Of PipelineRun: how often a run calls the solver and how many           *)
(* super-steps it takes, that a stall leaves no package unsolved and that  *)
(* no package is taken up twice, and that run() implements RunContract.    *)
(* RunInv adds to IInv how far solves, super-steps and packages have come  *)
(* at each node.                                                           *)
(***************************************************************************)
EXTENDS PipelineRun, TLAPS

Preparing == {"basis", "topology", "reference_topology", "build", "validate",
              "topology_repair", "thermo"}

(* The nodes from validate on have a graph; no flowsheet exists, and no    *)
(* iteration has been counted, before thermo has built one.                *)
Located ==
    /\ pc \in {"validate", "topology_repair", "thermo", "execute", "repair"}
          => graph \in Graphs
    /\ pc \in Preparing => flowsheet = None /\ iteration = 0 /\ prev = None

(* An execute node without a flowsheet is at its ceiling: only a failed    *)
(* repair leads there.                                                     *)
EmptyAtCeiling == pc = "execute" /\ flowsheet = None => iteration >= effMax

(* prev_hash and execution describe the same flowsheet until the run ends. *)
HashOfExecution ==
    pc # "END" /\ prev # None => execution # None /\ execution.of = prev

(* The repair node is entered below one of the budgets.                    *)
RepairBelowBudget ==
    pc = "repair" => iteration < maxIter \/ iteration < BeamMaxIter

IInv ==
    /\ TypeOK
    /\ Located
    /\ EmptyAtCeiling
    /\ HashOfExecution
    /\ RepairBelowBudget
    /\ ResultCoherent
    /\ FlowsheetOfGraph
    /\ WithinCeiling

-----------------------------------------------------------------------------

(* The serialisation of a graph is a flowsheet. *)
LEMMA ToDwsimType == \A g \in Graphs : ToDwsim(g) \in Flowsheets
BY ParamsAssumption DEF ToDwsim, Graphs, Flowsheets

(* A result of a flowsheet is an execution of that flowsheet. *)
LEMMA ResultsType ==
    \A f \in Flowsheets : \A e \in Results(f) : e \in Executions /\ e.of = f
BY DEF Results, Executions

(* None is none of the records the state holds. *)
LEMMA NoneIsNot ==
    /\ None \notin Graphs
    /\ None \notin Flowsheets
    /\ None \notin Executions
BY NoneAssumption

(* The invariant holds when the run starts. *)
LEMMA InitInv == Init => IInv
<1> SUFFICES ASSUME Init PROVE IInv
  OBVIOUS
<1> USE MaxItersAssumption, BeamAssumption, VariantBAssumption
<1>1. TypeOK
  BY DEF Init, TypeOK, RouteEntry, Nodes, Stopped, Outcomes
<1>2. Located /\ EmptyAtCeiling /\ HashOfExecution /\ RepairBelowBudget
  BY DEF Init, RouteEntry, Located, EmptyAtCeiling, HashOfExecution,
         RepairBelowBudget, Preparing
<1>3. ResultCoherent /\ FlowsheetOfGraph /\ WithinCeiling
  BY DEF Init, RouteEntry, ResultCoherent, FlowsheetOfGraph, WithinCeiling
<1> QED
  BY <1>1, <1>2, <1>3 DEF IInv

(* Every lemma below takes one group of actions.  Its leaves use the whole *)
(* invariant; what they differ in is the action and the facts it needs.    *)

(* Reading and preparing the graph preserves the invariant. *)
LEMMA PrepareInv == IInv /\ Prepare => IInv'
<1> SUFFICES ASSUME IInv, Prepare PROVE IInv'
  OBVIOUS
<1> USE NoneIsNot DEF IInv, TypeOK, Nodes, Stopped, Outcomes, Located, Preparing,
        EmptyAtCeiling, HashOfExecution, RepairBelowBudget, ResultCoherent,
        FlowsheetOfGraph, WithinCeiling, inputs, stage1, loop, AtCeiling,
        Refusal, CeilingAfter, TriedAfter, CounterAfterFailure
<1>1. CASE Basis
  BY <1>1 DEF Basis
<1>2. CASE Topology
  <2>1. CASE pc' = "build"
    BY <1>2, <2>1 DEF Topology
  <2>2. CASE pc' = "END"
    BY <1>2, <2>2 DEF Topology
  <2> QED
    BY <1>2, <2>1, <2>2 DEF Topology
<1>3. CASE ReferenceTopology
  <2>1. semTopo' \in BOOLEAN /\ refData' \in BOOLEAN /\ missing' \in BOOLEAN
    BY <1>3 DEF ReferenceTopology
  <2>2. pc' = "build" /\ outcome' \in Outcomes
    BY <1>3 DEF ReferenceTopology
  <2> QED
    BY <1>3, <2>1, <2>2 DEF ReferenceTopology
<1>4. CASE Build
  BY <1>4 DEF Build, Graphs
<1>5. CASE Validate
  BY <1>5 DEF Validate
<1>6. CASE TopologyRepair
  BY <1>6, BeamAssumption DEF TopologyRepair, Residue, Strategies, Graphs
<1>7. CASE ThermoRefused
  <2>1. graph' \in Graphs
    BY <1>7 DEF ThermoRefused, Graphs
  <2> QED
    BY <1>7, <2>1 DEF ThermoRefused
<1>8. CASE ThermoInvalid
  BY <1>8 DEF ThermoInvalid
<1>9. CASE ThermoBuilt
  <2>1. graph' \in Graphs /\ flowsheet' \in Flowsheets
    BY <1>9, ToDwsimType DEF ThermoBuilt
  <2>2. tried' \subseteq Packages \cup {NoPkg}
    BY <1>9, <2>1 DEF ThermoBuilt, Graphs
  <2>3. refData' \in BOOLEAN
    BY <1>9 DEF ThermoBuilt
  <2>4. flowsheet' = ToDwsim(graph)'
    BY <1>9 DEF ThermoBuilt, ToDwsim
  <2> QED
    BY <1>9, <2>1, <2>2, <2>3, <2>4 DEF ThermoBuilt
<1> QED
  BY <1>1, <1>2, <1>3, <1>4, <1>5, <1>6, <1>7, <1>8, <1>9 DEF Prepare

(* A solve and its classification preserve the invariant. *)
LEMMA SolveInv == IInv /\ Solve => IInv'
<1> SUFFICES ASSUME IInv, Solve PROVE IInv'
  OBVIOUS
<1> USE NoneIsNot DEF IInv, TypeOK, Nodes, Stopped, Outcomes, Located, Preparing,
        EmptyAtCeiling, HashOfExecution, RepairBelowBudget, ResultCoherent,
        FlowsheetOfGraph, WithinCeiling, inputs, stage1, loop, AtCeiling,
        Refusal, CeilingAfter, TriedAfter, CounterAfterFailure
<1>1. CASE ExecutePasses
  <2>1. flowsheet \in Flowsheets /\ graph \in Graphs /\ prev' = flowsheet
    BY <1>1 DEF ExecutePasses, Ready
  <2>2. graph' \in Graphs /\ (~variantB => graph' = graph)
    BY <1>1, <2>1 DEF ExecutePasses, Graphs
  <2>3. /\ flowsheet' \in Flowsheets /\ (~variantB => flowsheet' = flowsheet)
        /\ execution' \in Executions /\ execution'.of = flowsheet'
    <3>1. PICK e \in Results(flowsheet) :
             \/ execution' = e /\ flowsheet' = flowsheet
             \/ /\ variantB
                /\ \E p \in Params, d \in SUBSET Defects :
                      /\ flowsheet' = ToDwsim([graph EXCEPT !.params = p, !.defects = d])
                      /\ execution' \in Results(flowsheet')
      BY <1>1 DEF ExecutePasses
    <3>2. CASE execution' = e /\ flowsheet' = flowsheet
      BY <3>2, <2>1, ResultsType
    <3>3. ASSUME variantB, NEW p \in Params, NEW d \in SUBSET Defects,
                 flowsheet' = ToDwsim([graph EXCEPT !.params = p, !.defects = d]),
                 execution' \in Results(flowsheet')
          PROVE  /\ flowsheet' \in Flowsheets
                 /\ execution' \in Executions /\ execution'.of = flowsheet'
      <4>1. [graph EXCEPT !.params = p, !.defects = d] \in Graphs
        BY <2>1 DEF Graphs
      <4>2. flowsheet' \in Flowsheets
        BY <3>3, <4>1, ToDwsimType
      <4> QED
        BY <3>3, <4>2, ResultsType
    <3> QED
      BY <3>1, <3>2, <3>3
  <2>4. ~variantB' => flowsheet' = ToDwsim(graph)'
    BY <1>1, <2>1, <2>2, <2>3 DEF ExecutePasses, ToDwsim
  <2> QED
    BY <1>1, <2>1, <2>2, <2>3, <2>4 DEF ExecutePasses
<1>2. CASE ExecuteEscalates
  BY <1>2, ResultsType DEF ExecuteEscalates, Ready
<1>3. CASE ExecuteContinues
  BY <1>3, ResultsType, BeamAssumption DEF ExecuteContinues, Classified, Ready
<1>4. CASE ClassifierRaises
  BY <1>4 DEF ClassifierRaises, Ready
<1> QED
  BY <1>1, <1>2, <1>3, <1>4 DEF Solve

(* Refusing or stalling preserves the invariant. *)
LEMMA DeclineInv == IInv /\ Decline => IInv'
<1> SUFFICES ASSUME IInv, Decline PROVE IInv'
  OBVIOUS
<1> USE NoneIsNot DEF IInv, TypeOK, Nodes, Stopped, Outcomes, Located, Preparing,
        EmptyAtCeiling, HashOfExecution, RepairBelowBudget, ResultCoherent,
        FlowsheetOfGraph, WithinCeiling, inputs, stage1, loop, AtCeiling,
        Refusal, CeilingAfter, TriedAfter, CounterAfterFailure
<1>1. CASE ExecuteRefuses
  BY <1>1 DEF ExecuteRefuses
<1>2. CASE ExecuteStalls
  BY <1>2 DEF ExecuteStalls, Stalled, Ready
<1> QED
  BY <1>1, <1>2 DEF Decline

(* A repair, applied or failed, preserves the invariant. *)
LEMMA RepairInv == IInv /\ Repair => IInv'
<1> SUFFICES ASSUME IInv, Repair PROVE IInv'
  OBVIOUS
<1> USE NoneIsNot, BeamAssumption
    DEF IInv, TypeOK, Nodes, Stopped, Outcomes, Located, Preparing,
        EmptyAtCeiling, HashOfExecution, RepairBelowBudget, ResultCoherent,
        FlowsheetOfGraph, WithinCeiling, inputs, stage1, loop, AtCeiling,
        Refusal, CeilingAfter, TriedAfter, CounterAfterFailure
<1>1. CASE RepairApplied
  BY <1>1, ToDwsimType DEF RepairApplied, Graphs
<1>2. CASE RepairRaises
  BY <1>2 DEF RepairRaises
<1> QED
  BY <1>1, <1>2 DEF Repair

(* An exception that leaves run() preserves the invariant. *)
LEMMA RaiseInv == IInv /\ NodeRaises => IInv'
BY DEF IInv, NodeRaises, TypeOK, Nodes, Stopped, Outcomes, Located, Preparing,
       EmptyAtCeiling, HashOfExecution, RepairBelowBudget, ResultCoherent,
       FlowsheetOfGraph, WithinCeiling, inputs, stage1, loop, AtCeiling,
        Refusal, CeilingAfter, TriedAfter, CounterAfterFailure

(* A stuttering step preserves the invariant. *)
LEMMA StutterInv == IInv /\ UNCHANGED vars => IInv'
BY DEF IInv, vars, control, TypeOK, Located, EmptyAtCeiling, HashOfExecution,
       RepairBelowBudget, ResultCoherent, FlowsheetOfGraph, WithinCeiling,
       inputs, stage1, loop, AtCeiling,
        Refusal, CeilingAfter, TriedAfter, CounterAfterFailure, ToDwsim

(* The strengthened invariant holds throughout every run. *)
THEOREM Invariance == Spec => []IInv
<1>1. IInv /\ [Next]_vars => IInv'
  BY PrepareInv, SolveInv, DeclineInv, RepairInv, RaiseInv, StutterInv
     DEF Next, Step, Terminating
<1> QED
  BY InitInv, <1>1, PTL DEF Spec

-----------------------------------------------------------------------------

(* Every field of the pipeline state keeps its type. *)
THEOREM TypeCorrect == Spec => []TypeOK
BY Invariance, PTL DEF IInv

(* PASS, HUMAN and STALLED are returned with the execution of the very     *)
(* flowsheet that is returned, for any number of repairs.                  *)
THEOREM ResultsAreCoherent == Spec => []ResultCoherent
BY Invariance, PTL DEF IInv

(* In a scored run the flowsheet is always the serialisation of the graph. *)
THEOREM FlowsheetIsOfGraph == Spec => []FlowsheetOfGraph
BY Invariance, PTL DEF IInv

(* No run counts more iterations than the larger of its two budgets.       *)
THEOREM CeilingHolds == Spec => []WithinCeiling
BY Invariance, PTL DEF IInv

-----------------------------------------------------------------------------
(* How far a run has come. *)

(* Before the loop nothing was solved.  At an execute node that will solve *)
(* again, at most one solve was made per iteration; at a repair node, one  *)
(* more.  A failed repair may lower the counter, but only to the ceiling.  *)
SolvesCounted ==
    /\ pc \in Preparing => solves = 0 /\ ran = {}
    /\ pc = "execute" /\ iteration < effMax => solves <= iteration
    /\ pc = "repair" => solves <= iteration + 1
    /\ solves <= Budget

(* Super-steps taken when a node is about to run. *)
VisitsCounted ==
    /\ pc \in {"basis", "reference_topology"} => visits = 0
    /\ pc = "topology" => visits <= 1
    /\ pc = "build" => visits <= 2
    /\ pc = "validate" => visits <= 3
    /\ pc = "topology_repair" => visits <= 4
    /\ pc = "thermo" => visits <= 5
    /\ pc = "execute" /\ iteration < effMax => visits <= 6 + 2 * iteration
    /\ pc = "repair" => visits <= 7 + 2 * iteration
    /\ pc = "execute" => visits <= 6 + 2 * Budget
    /\ visits <= 7 + 2 * Budget
    /\ aborted => RecursionLimit < 7 + 2 * Budget

(* The flowsheet has the package of the graph, which is recorded as tried. *)
(* What was solved is recorded; what is recorded was solved, but for the   *)
(* package of a graph that is about to be.                                 *)
PackagesKnown ==
    /\ pc \in Preparing => tried = {}
    /\ pc \in {"execute", "repair"} =>
        /\ flowsheet # None => flowsheet.pkg = graph.pkg /\ graph.pkg \in tried
        /\ ran \subseteq tried
        /\ prev # None => prev.pkg \in ran
        /\ pc = "execute" => tried \ {graph.pkg} \subseteq ran
        /\ pc = "repair" => tried \subseteq ran

StallEnds == outcome = "STALLED" => pc = "END" /\ Packages \subseteq ran

RunInv ==
    /\ IInv
    /\ RunTypeOK
    /\ SolvesCounted
    /\ VisitsCounted
    /\ PackagesKnown
    /\ StallEnds

-----------------------------------------------------------------------------

(* The budget is a number and no smaller than either of its two parts. *)
LEMMA BudgetFacts ==
    ASSUME IInv
    PROVE  /\ Budget \in Nat /\ maxIter <= Budget /\ BeamMaxIter <= Budget
           /\ effMax <= Budget
           /\ pc = "repair" => iteration + 1 <= Budget
BY BeamAssumption
   DEF IInv, TypeOK, Budget, Larger, WithinCeiling, RepairBelowBudget

(* The invariant holds when a run starts. *)
LEMMA RunInitInv == RunInit => RunInv
<1> SUFFICES ASSUME RunInit PROVE RunInv
  OBVIOUS
<1>1. IInv
  BY InitInv DEF RunInit
<1>2. Budget \in Nat
  BY <1>1, BudgetFacts
<1>3. pc \in {"basis", "reference_topology"} /\ outcome # "STALLED"
  BY DEF RunInit, Init, RouteEntry
<1>4. RunTypeOK
  <2>1. visits \in 0..RecursionLimit /\ solves \in Nat
    BY LimitAssumption DEF RunInit
  <2>2. TypeOK /\ ran \subseteq Packages \cup {NoPkg}
    BY <1>1 DEF RunInit, IInv
  <2>3. aborted \in BOOLEAN
    BY DEF RunInit
  <2> QED
    BY <2>1, <2>2, <2>3 DEF RunTypeOK
<1>5. SolvesCounted /\ VisitsCounted
  BY <1>2, <1>3 DEF RunInit, SolvesCounted, VisitsCounted
<1>6. PackagesKnown /\ StallEnds
  BY <1>3 DEF RunInit, Init, PackagesKnown, StallEnds
<1> QED
  BY <1>1, <1>4, <1>5, <1>6 DEF RunInv

(* The abort resets the state to the initial one and ends the run: it      *)
(* preserves the invariant of Pipeline.                                    *)
LEMMA AbortKeepsPipelineInv == IInv /\ RecursionAbort => IInv'
<1> SUFFICES ASSUME IInv, RecursionAbort PROVE IInv'
  OBVIOUS
<1>1. TypeOK'
  BY DEF RecursionAbort, IInv, TypeOK, Stopped, Outcomes, inputs
<1>2. /\ Located' /\ EmptyAtCeiling' /\ HashOfExecution' /\ RepairBelowBudget'
      /\ ResultCoherent' /\ FlowsheetOfGraph' /\ WithinCeiling'
  BY DEF RecursionAbort, IInv, TypeOK, inputs, Located, Preparing, EmptyAtCeiling,
         HashOfExecution, RepairBelowBudget, ResultCoherent, FlowsheetOfGraph,
         WithinCeiling
<1> QED
  BY <1>1, <1>2 DEF IInv

(* So does every other step of a run. *)
LEMMA RunStepKeepsPipelineInv == IInv /\ RunStep => IInv'
BY PrepareInv, SolveInv, DeclineInv, RepairInv, RaiseInv, AbortKeepsPipelineInv
   DEF RunStep, SolvingVisit, OtherVisit

(* No action touches the configured number of iterations, nor the budget.  *)
LEMMA BudgetFixed == RunStep => maxIter' = maxIter /\ Budget' = Budget
<1> SUFFICES ASSUME RunStep PROVE maxIter' = maxIter
  BY DEF Budget
<1>1. CASE Prepare
  BY <1>1 DEF Prepare, Basis, Topology, ReferenceTopology, Build, Validate,
     TopologyRepair, ThermoRefused, ThermoInvalid, ThermoBuilt, inputs
<1>2. CASE Solve
  BY <1>2 DEF Solve, ExecutePasses, ExecuteEscalates, ExecuteContinues,
     ClassifierRaises, inputs
<1>3. CASE Decline \/ Repair \/ NodeRaises \/ RecursionAbort
  BY <1>3 DEF Decline, ExecuteRefuses, ExecuteStalls, Repair, RepairApplied,
     RepairRaises, NodeRaises, RecursionAbort, inputs
<1> QED
  BY <1>1, <1>2, <1>3 DEF RunStep, SolvingVisit, OtherVisit

-----------------------------------------------------------------------------

(* A preparing node changes no counter and no hash, and goes forward: the  *)
(* loop is entered with a flowsheet of the graph, by thermo, or without    *)
(* one, by the topology repair.                                            *)
LEMMA PrepareMoves ==
    ASSUME IInv, Prepare
    PROVE  /\ pc \in Preparing
           /\ iteration' = iteration /\ effMax' = effMax /\ prev' = None
           /\ outcome' = outcome \/ outcome' # "STALLED"
           /\ tried' = tried \/ pc' = "execute"
           /\ pc' = "END" => outcome' \notin {"PASS", "HUMAN", "MAX_ITER", "STALLED"}
           /\ \/ pc' = "END"
              \/ pc = "basis" /\ pc' = "topology"
              \/ pc \in {"topology", "reference_topology"} /\ pc' = "build"
              \/ pc = "build" /\ pc' = "validate"
              \/ pc = "validate" /\ pc' \in {"thermo", "topology_repair"}
              \/ pc = "topology_repair" /\ pc' = "thermo"
              \/ pc = "topology_repair" /\ pc' = "repair" /\ flowsheet' = None
              \/ /\ pc = "thermo" /\ pc' = "execute"
                 /\ flowsheet'.pkg = graph'.pkg /\ tried' = {graph'.pkg}
<1> USE DEF IInv, Located, Preparing, loop
<1>1. CASE Basis
  BY <1>1 DEF Basis
<1>2. CASE Topology
  BY <1>2 DEF Topology
<1>3. CASE ReferenceTopology
  BY <1>3 DEF ReferenceTopology
<1>4. CASE Build
  BY <1>4 DEF Build
<1>5. CASE Validate
  BY <1>5 DEF Validate
<1>6. CASE TopologyRepair
  BY <1>6 DEF TopologyRepair
<1>7. CASE ThermoRefused \/ ThermoInvalid
  BY <1>7 DEF ThermoRefused, ThermoInvalid
<1>8. CASE ThermoBuilt
  BY <1>8 DEF ThermoBuilt, ToDwsim
<1> QED
  BY <1>1, <1>2, <1>3, <1>4, <1>5, <1>6, <1>7, <1>8 DEF Prepare

(* A solve happens below the ceiling, counts no iteration and leaves the   *)
(* package and the history alone.                                          *)
LEMMA SolveMoves ==
    ASSUME IInv, Solve
    PROVE  /\ pc = "execute" /\ iteration < effMax
           /\ graph \in Graphs /\ flowsheet \in Flowsheets
           /\ iteration' = iteration /\ tried' = tried
           /\ pc' \in {"END", "CRASH", "repair"}
           /\ pc' = "END" => outcome' \in {"PASS", "HUMAN"}
           /\ pc' = "repair" =>
                  graph' = graph /\ flowsheet' = flowsheet /\ prev' = flowsheet
           /\ outcome' = outcome \/ outcome' # "STALLED"
<1> USE DEF IInv, TypeOK, Located, Ready, AtCeiling
<1>1. CASE ExecutePasses
  <2>1. /\ pc = "execute" /\ iteration < effMax
        /\ graph \in Graphs /\ flowsheet \in Flowsheets
    <3>1. Ready
      BY <1>1 DEF ExecutePasses
    <3> QED
      BY <3>1
  <2>2. /\ pc' = "END" /\ outcome' = "PASS"
        /\ iteration' = iteration /\ tried' = tried
    BY <1>1 DEF ExecutePasses
  <2> QED
    BY <2>1, <2>2
<1>2. CASE ExecuteEscalates
  BY <1>2 DEF ExecuteEscalates
<1>3. CASE ExecuteContinues
  BY <1>3 DEF ExecuteContinues
<1>4. CASE ClassifierRaises
  BY <1>4 DEF ClassifierRaises, loop
<1> QED
  BY <1>1, <1>2, <1>3, <1>4 DEF Solve

(* A repair leads to the execute node one iteration later, with a new      *)
(* flowsheet of the graph whose package is the old one or an untried one,  *)
(* or, when it raises, at the ceiling with everything as it was.           *)
LEMMA RepairMoves ==
    ASSUME IInv, Repair
    PROVE  /\ pc = "repair" /\ pc' = "execute" /\ outcome' = "CONTINUE"
           /\ effMax' = effMax /\ prev' = prev
           /\ \/ /\ iteration' = iteration + 1
                 /\ flowsheet'.pkg = graph'.pkg
                 /\ graph'.pkg = graph.pkg \/ graph'.pkg \in Untried
                 /\ tried' = tried \cup {graph'.pkg}
              \/ /\ iteration' = effMax
                 /\ graph' = graph /\ flowsheet' = flowsheet /\ tried' = tried
<1>1. CASE RepairApplied
  <2>1. PICK p \in Params, q \in Params, k \in Packages \cup {NoPkg},
             d \in SUBSET Defects :
           /\ k \in Untried \/ k = graph.pkg
           /\ graph' = [params |-> q, pkg |-> k, defects |-> d]
           /\ tried' = tried \cup {k}
    BY <1>1 DEF RepairApplied, TriedAfter
  <2>2. flowsheet'.pkg = graph'.pkg
    BY <1>1 DEF RepairApplied, ToDwsim
  <2> QED
    BY <1>1, <2>1, <2>2 DEF RepairApplied
<1>2. CASE RepairRaises
  BY <1>2 DEF RepairRaises, CounterAfterFailure
<1> QED
  BY <1>1, <1>2 DEF Repair

-----------------------------------------------------------------------------

(* Solver calls stay counted. *)
LEMMA SolvesStayCounted == RunInv /\ RunStep => SolvesCounted'
<1> SUFFICES ASSUME RunInv, RunStep PROVE SolvesCounted'
  OBVIOUS
<1>1. /\ IInv /\ SolvesCounted /\ solves \in Nat /\ iteration \in Nat /\ effMax \in Nat
      /\ Budget' = Budget
  BY BudgetFixed DEF RunInv, RunTypeOK, IInv, TypeOK
<1>2. CASE SolvingVisit
  BY <1>1, <1>2, SolveMoves, BudgetFacts DEF SolvingVisit, SolvesCounted, Preparing
<1>3. CASE Prepare /\ UNCHANGED history
  BY <1>1, <1>3, PrepareMoves DEF SolvesCounted, Preparing, history, IInv, Located
<1>4. CASE Repair /\ UNCHANGED history
  BY <1>1, <1>4, RepairMoves DEF SolvesCounted, Preparing, history
<1>5. CASE UNCHANGED <<solves, ran>> /\ pc' \in Stopped
  BY <1>1, <1>5 DEF SolvesCounted, Preparing, Stopped
<1> QED
  BY <1>2, <1>3, <1>4, <1>5
     DEF RunStep, OtherVisit, history, Decline, ExecuteRefuses, ExecuteStalls,
         NodeRaises, RecursionAbort, Stopped

(* Super-steps stay counted, and the abort needs a limit in their range.   *)
LEMMA VisitsStayCounted == RunInv /\ RunStep => VisitsCounted'
<1> SUFFICES ASSUME RunInv, RunStep PROVE VisitsCounted'
  OBVIOUS
<1>1. /\ IInv /\ VisitsCounted /\ visits \in Nat /\ iteration \in Nat /\ effMax \in Nat
      /\ Budget \in Nat /\ Budget' = Budget /\ pc \in Nodes \cup Stopped
      /\ RecursionLimit \in Nat /\ effMax <= Budget
      /\ pc = "repair" => iteration + 1 <= Budget
  BY BudgetFixed, BudgetFacts, LimitAssumption DEF RunInv, RunTypeOK, IInv, TypeOK
<1>2. CASE SolvingVisit
  BY <1>1, <1>2, SolveMoves DEF SolvingVisit, Visit, VisitsCounted
<1>3. CASE Prepare /\ Visit /\ UNCHANGED history
  <2>1. pc \in Preparing /\ iteration = 0
    BY <1>1, <1>3, PrepareMoves DEF IInv, Located
  <2> QED
    BY <1>1, <1>3, <2>1, PrepareMoves DEF VisitsCounted, Visit, Preparing, history
<1>4. CASE Repair /\ Visit /\ UNCHANGED history
  BY <1>1, <1>4, RepairMoves DEF VisitsCounted, Visit, history
<1>5. CASE (Decline \/ NodeRaises) /\ Visit /\ UNCHANGED history
  <2>1. pc \notin Stopped /\ pc # "repair" /\ pc' \in Stopped
    BY <1>5 DEF Decline, ExecuteRefuses, ExecuteStalls, Ready, NodeRaises, Stopped
  <2> QED
    BY <1>1, <1>5, <2>1 DEF VisitsCounted, Visit, history, Nodes, Stopped
<1>6. CASE RecursionAbort
  <2>1. visits <= 6 + 2 * Budget
    BY <1>1, <1>6 DEF RecursionAbort, VisitsCounted, Nodes, Stopped
  <2> QED
    BY <1>1, <1>6, <2>1 DEF RecursionAbort, VisitsCounted
<1> QED
  BY <1>2, <1>3, <1>4, <1>5, <1>6 DEF RunStep, OtherVisit

(* What is tried and what is solved stay related. *)
LEMMA PackagesStayKnown == RunInv /\ RunStep => PackagesKnown'
<1> SUFFICES ASSUME RunInv, RunStep PROVE PackagesKnown'
  OBVIOUS
<1>1. IInv /\ PackagesKnown /\ SolvesCounted
  BY DEF RunInv
<1>2. CASE SolvingVisit
  <2>1. CASE pc' = "repair"
    <3>1. /\ graph' = graph /\ flowsheet' = flowsheet /\ prev' = flowsheet
          /\ tried' = tried /\ ran' = ran \cup {flowsheet.pkg}
      BY <1>1, <1>2, <2>1, SolveMoves DEF SolvingVisit
    <3>2. /\ flowsheet # None
          /\ flowsheet.pkg = graph.pkg /\ graph.pkg \in tried
          /\ ran \subseteq tried /\ tried \ {graph.pkg} \subseteq ran
      BY <1>1, <1>2, SolveMoves, NoneIsNot DEF SolvingVisit, PackagesKnown
    <3> QED
      BY <2>1, <3>1, <3>2 DEF PackagesKnown, Preparing
  <2>2. CASE pc' \in {"END", "CRASH"}
    BY <2>2 DEF PackagesKnown, Preparing
  <2> QED
    BY <1>1, <1>2, <2>1, <2>2, SolveMoves DEF SolvingVisit
<1>3. CASE Prepare /\ UNCHANGED history
  <2>1. ran' = {} /\ prev' = None
    BY <1>1, <1>3, PrepareMoves DEF SolvesCounted, history
  <2>2. CASE pc' = "execute"
    BY <1>1, <1>3, <2>1, <2>2, PrepareMoves DEF PackagesKnown, Preparing
  <2>3. CASE pc' # "execute"
    BY <1>1, <1>3, <2>1, <2>3, PrepareMoves DEF PackagesKnown, Preparing
  <2> QED
    BY <2>2, <2>3
<1>4. CASE Repair /\ UNCHANGED history
  BY <1>1, <1>4, RepairMoves DEF PackagesKnown, history, Preparing
<1>5. CASE pc' \in Stopped
  BY <1>5 DEF PackagesKnown, Stopped, Preparing
<1> QED
  BY <1>2, <1>3, <1>4, <1>5
     DEF RunStep, OtherVisit, Decline, ExecuteRefuses, ExecuteStalls,
         NodeRaises, RecursionAbort, Stopped

(* The history variables keep their types. *)
LEMMA RunTypesKept == RunInv /\ RunStep => RunTypeOK'
<1> SUFFICES ASSUME RunInv, RunStep PROVE RunTypeOK'
  OBVIOUS
<1>1. IInv /\ RunTypeOK
  BY DEF RunInv
<1>2. TypeOK'
  BY <1>1, RunStepKeepsPipelineInv DEF IInv
<1>3. visits' \in 0..RecursionLimit
  BY <1>1, LimitAssumption
     DEF RunTypeOK, RunStep, SolvingVisit, OtherVisit, RecursionAbort, Visit
<1>4. solves' \in Nat
  BY <1>1 DEF RunTypeOK, RunStep, SolvingVisit, OtherVisit, RecursionAbort, history
<1>5. ran' \subseteq Packages \cup {NoPkg}
  <2>1. CASE SolvingVisit
    BY <1>1, <2>1, SolveMoves DEF SolvingVisit, RunTypeOK, Flowsheets
  <2>2. CASE OtherVisit \/ RecursionAbort
    BY <1>1, <2>2 DEF RunTypeOK, OtherVisit, RecursionAbort, history
  <2> QED
    BY <2>1, <2>2 DEF RunStep
<1>6. aborted' \in BOOLEAN
  BY <1>1 DEF RunTypeOK, RunStep, SolvingVisit, OtherVisit, RecursionAbort, history
<1> QED
  BY <1>2, <1>3, <1>4, <1>5, <1>6 DEF RunTypeOK

(* A stall is declared when everything tried was solved, the package of    *)
(* the graph too, since its flowsheet was hashed, and nothing is untried.  *)
LEMMA StallsEnd == RunInv /\ RunStep => StallEnds'
<1> SUFFICES ASSUME RunInv, RunStep, outcome' = "STALLED"
             PROVE  pc' = "END" /\ Packages \subseteq ran'
  BY DEF StallEnds
<1>1. IInv /\ PackagesKnown /\ StallEnds /\ (pc \notin Stopped => outcome # "STALLED")
  BY DEF RunInv, StallEnds, Stopped
<1>2. CASE ExecuteStalls /\ UNCHANGED history
  <2>1. pc = "execute" /\ flowsheet # None /\ flowsheet = prev /\ Untried = {}
    BY <1>2 DEF ExecuteStalls, Ready, Stalled
  <2>2. graph.pkg \in ran /\ tried \ {graph.pkg} \subseteq ran
    BY <1>1, <2>1 DEF PackagesKnown
  <2> QED
    BY <1>2, <2>1, <2>2 DEF ExecuteStalls, Untried, history
<1>3. CASE SolvingVisit
  BY <1>1, <1>3, SolveMoves DEF SolvingVisit, Stopped
<1>4. CASE Prepare
  BY <1>1, <1>4, PrepareMoves DEF Stopped, Preparing
<1>5. CASE Repair
  BY <1>1, <1>5, RepairMoves
<1>6. CASE ExecuteRefuses \/ NodeRaises \/ RecursionAbort
  BY <1>1, <1>6
     DEF ExecuteRefuses, Refusal, NodeRaises, RecursionAbort, Stopped
<1> QED
  BY <1>2, <1>3, <1>4, <1>5, <1>6 DEF RunStep, OtherVisit, Decline

-----------------------------------------------------------------------------

(* The strengthened invariant holds throughout every run. *)
THEOREM RunInvariance == RunSpec => []RunInv
<1>1. RunInv /\ RunStep => RunInv'
  BY RunStepKeepsPipelineInv, RunTypesKept, SolvesStayCounted, VisitsStayCounted,
     PackagesStayKnown, StallsEnd DEF RunInv
<1>2. RunInv /\ UNCHANGED runVars => RunInv'
  <2> SUFFICES ASSUME RunInv, UNCHANGED runVars PROVE RunInv'
    OBVIOUS
  <2>1. IInv'
    BY StutterInv DEF RunInv, runVars
  <2>2. RunTypeOK'
    BY <2>1 DEF RunInv, RunTypeOK, IInv, runVars, history
  <2>3. SolvesCounted' /\ VisitsCounted'
    BY DEF RunInv, SolvesCounted, VisitsCounted, Budget, runVars, vars, history,
           control, inputs, loop
  <2>4. PackagesKnown' /\ StallEnds'
    BY DEF RunInv, PackagesKnown, StallEnds, runVars, vars, history, control, loop
  <2> QED
    BY <2>1, <2>2, <2>3, <2>4 DEF RunInv
<1>3. RunInv /\ [RunNext]_runVars => RunInv'
  BY <1>1, <1>2 DEF RunNext
<1> QED
  BY RunInitInv, <1>3, PTL DEF RunSpec

(* No run calls the solver more often than its larger budget allows. *)
THEOREM SolverCallsBounded == RunSpec => []SolveBudget
<1>1. RunInv => SolveBudget
  BY DEF RunInv, SolvesCounted, SolveBudget
<1> QED
  BY <1>1, RunInvariance, PTL

(* A run stalls only after every package has been solved with. *)
THEOREM StallLeavesNothingUntried == RunSpec => []StallAfterEveryPackage
<1>1. RunInv => StallAfterEveryPackage
  BY DEF RunInv, StallEnds, StallAfterEveryPackage
<1> QED
  BY <1>1, RunInvariance, PTL

(* No run takes more super-steps than its budget accounts for, and one     *)
(* whose limit covers them is never cut off.                               *)
THEOREM SuperStepsBounded == RunSpec => [](SuperStepBound /\ OwnTermination)
<1>1. RunInv => SuperStepBound /\ OwnTermination
  <2> SUFFICES ASSUME RunInv PROVE SuperStepBound /\ OwnTermination
    OBVIOUS
  <2>1. Budget \in Nat /\ RecursionLimit \in Nat
    BY BudgetFacts, LimitAssumption DEF RunInv
  <2> QED
    BY <2>1 DEF RunInv, VisitsCounted, SuperStepBound, OwnTermination
<1> QED
  BY <1>1, RunInvariance, PTL

(* A package switch never goes back to a package already solved with. *)
THEOREM PackagesNotRevisited == RunSpec => NoPackageRevisited
<1>1. RunInv /\ [RunNext]_runVars =>
          [pc = "repair" /\ pc' = "execute" /\ graph'.pkg # graph.pkg
              => graph'.pkg \notin ran]_runVars
  <2> SUFFICES ASSUME RunInv, RunNext, pc = "repair", pc' = "execute",
                      graph'.pkg # graph.pkg
               PROVE  graph'.pkg \notin ran
    OBVIOUS
  <2>1. Repair
    <3>1. ~Prepare
      BY PrepareMoves DEF RunInv, Preparing
    <3>2. ~Solve
      BY SolveMoves DEF RunInv
    <3> QED
      BY <3>1, <3>2 DEF RunNext, RunStep, SolvingVisit, OtherVisit, RecursionAbort,
         Decline, ExecuteRefuses, ExecuteStalls, NodeRaises, Stopped
  <2>2. graph'.pkg \in Untried
    BY <2>1, RepairMoves DEF RunInv
  <2> QED
    BY <2>2 DEF RunInv, PackagesKnown, Untried
<1> QED
  BY <1>1, RunInvariance, PTL DEF RunSpec, NoPackageRevisited

-----------------------------------------------------------------------------
(* run() implements its contract.                                          *)

(* A node that solves is an attempt within the budget. *)
LEMMA SolvingImplements ==
    RunInv /\ SolvingVisit /\ Budget' = Budget => Contract!Attempt
<1> SUFFICES ASSUME RunInv, SolvingVisit, Budget' = Budget PROVE Contract!Attempt
  OBVIOUS
<1>1. Phase = "working" /\ Verdict = "none" /\ solves < Budget /\ solves' = solves + 1
  BY SolveMoves, BudgetFacts
     DEF RunInv, IInv, TypeOK, RunTypeOK, SolvesCounted, SolvingVisit, Phase, Verdict
<1>2. CASE pc' = "repair"
  BY <1>1, <1>2 DEF Contract!Attempt, Phase, Verdict
<1>3. CASE pc' = "CRASH"
  BY <1>1, <1>3 DEF Contract!Attempt, Phase, Verdict
<1>4. CASE pc' = "END"
  BY <1>1, <1>4, SolveMoves DEF RunInv, SolvingVisit, Contract!Attempt, Phase, Verdict
<1> QED
  BY <1>2, <1>3, <1>4, SolveMoves DEF RunInv, SolvingVisit

(* A preparing node refuses, admits, or is not seen. *)
LEMMA PreparingImplements ==
    RunInv /\ Prepare /\ solves' = solves /\ Budget' = Budget
        => Contract!Refuse \/ Contract!Admit \/ UNCHANGED Contract!vars
<1> SUFFICES ASSUME RunInv, Prepare, solves' = solves, Budget' = Budget
             PROVE  Contract!Refuse \/ Contract!Admit \/ UNCHANGED Contract!vars
  OBVIOUS
<1>1. Phase = "preparing" /\ Verdict = "none"
  BY PrepareMoves DEF RunInv, Phase, Verdict, Preparing
<1>2. CASE pc' = "END"
  BY <1>1, <1>2, PrepareMoves DEF RunInv, Contract!Refuse, Phase, Verdict
<1>3. CASE pc' \in {"execute", "repair"}
  BY <1>1, <1>3 DEF Contract!Admit, Phase, Verdict
<1>4. CASE pc' \in Preparing
  BY <1>1, <1>4 DEF Contract!vars, Phase, Verdict, Preparing
<1> QED
  BY <1>2, <1>3, <1>4, PrepareMoves DEF RunInv, Preparing

(* The recursion abort gives up on a run that has reached the loop: the    *)
(* limit leaves room for the preparation.                                  *)
LEMMA AbortImplements ==
    RunInv /\ RecursionAbort /\ Budget' = Budget => Contract!GiveUp
<1> SUFFICES ASSUME RunInv, RecursionAbort, Budget' = Budget PROVE Contract!GiveUp
  OBVIOUS
<1>1. pc \in {"execute", "repair"}
  BY LimitAssumption
     DEF RunInv, RunTypeOK, TypeOK, RecursionAbort, VisitsCounted, Nodes, Stopped
<1>2. Phase = "working" /\ Phase' = "done" /\ Verdict' = "gave_up"
  BY <1>1 DEF Phase, Verdict, RecursionAbort
<1> QED
  BY <1>2 DEF RecursionAbort, Contract!GiveUp

(* Every step of a run is a step of its contract, or is not seen. *)
LEMMA StepImplements ==
    RunInv /\ [RunNext]_runVars => [Contract!Next]_(Contract!vars)
<1> SUFFICES ASSUME RunInv, [RunNext]_runVars
             PROVE  Contract!Next \/ UNCHANGED Contract!vars
  OBVIOUS
<1>1. CASE SolvingVisit
  BY <1>1, SolvingImplements, BudgetFixed DEF RunStep, Contract!Next
<1>2. CASE OtherVisit
  <2>1. solves' = solves /\ Budget' = Budget
    BY <1>2, BudgetFixed DEF RunStep, OtherVisit, history
  <2>2. CASE Prepare
    BY <2>1, <2>2, PreparingImplements DEF Contract!Next
  <2>3. CASE Repair
    BY <2>1, <2>3, RepairMoves DEF RunInv, Contract!vars, Phase, Verdict
  <2>4. CASE Decline
    <3>1. pc = "execute" /\ pc' = "END" /\ outcome' \in {"MAX_ITER", "STALLED"}
      BY <2>4 DEF Decline, ExecuteRefuses, ExecuteStalls, Ready, Refusal, AtCeiling,
         RunInv, IInv, EmptyAtCeiling
    <3> QED
      BY <2>1, <3>1 DEF Contract!Next, Contract!GiveUp, Phase, Verdict
  <2>5. CASE NodeRaises
    BY <2>1, <2>5 DEF NodeRaises, Contract!Next, Contract!Crash, Phase, Verdict
  <2> QED
    BY <1>2, <2>2, <2>3, <2>4, <2>5 DEF OtherVisit
<1>3. CASE RecursionAbort
  BY <1>3, AbortImplements, BudgetFixed DEF RunStep, Contract!Next
<1>4. CASE UNCHANGED runVars
  BY <1>4 DEF runVars, vars, control, inputs, history, Contract!vars, Phase, Verdict,
     Budget
<1> QED
  BY <1>1, <1>2, <1>3, <1>4 DEF RunNext, RunStep

(* run() implements RunContract, for every set of packages and parameters, *)
(* every budget and every recursion limit of at least six.                 *)
THEOREM RunImplementsContract == RunSpec => ImplementsContract
<1>1. RunInit => Contract!Init
  BY DEF RunInit, Init, RouteEntry, Contract!Init, Phase, Verdict, Budget
<1> QED
  BY <1>1, StepImplements, RunInvariance, PTL
     DEF RunSpec, ImplementsContract, Contract!Spec

=============================================================================
