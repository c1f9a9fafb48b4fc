--------------------------- MODULE OrchestratorLoop ---------------------------
(***************************************************************************)
(* OrchestratorV2.run() with USE_LANGGRAPH off: the sequential twin of the *)
(* node machine in Pipeline, written as one method with early returns, a   *)
(* for loop over solve attempts and one try block around the repair.       *)
(* What the stages compute is in Assembly, Conditions and RepairSearch;    *)
(* here a graph is its version (how many repairs changed it) and the marks *)
(* the reference file left on it, a flowsheet is the graph it was rendered *)
(* from, an execution is the flowsheet it is of and whether it may pass.   *)
(***************************************************************************)
EXTENDS Naturals, FiniteSets

CONSTANTS
    MaxIters,      \* values of the constructor's max_iterations
    BeamMaxIter,   \* _BEAM_MAX_ITER (15)
    None

ASSUME LoopAssumption == MaxIters \subseteq Nat /\ BeamMaxIter \in Nat

(* What the reference file can leave on a graph: the validation tier's     *)
(* reactor parameters, the refinement's setpoints.                         *)
Marks == {"reactor", "setpoint"}
Graphs == [ver : Nat, marks : SUBSET Marks]
Executions == [of : Graphs, clean : BOOLEAN]

ASSUME NoneAssumption == None \notin Graphs \cup Executions

VARIABLES
    maxIter,     \* self._max_iter
    scored,      \* VARIANT_B is off
    hasRef,      \* the caller named a reference file
    tier,        \* "standard" or "validation"
    long,        \* the description has more than 200 words
    pc,          \* the step run() is at
    unitText,    \* what the unit extractor is given of the description
    refData,     \* _reference_data is loaded
    graph, flowsheet, execution,
    iteration, ceiling, extended,
    result,      \* PipelineResult
    records,     \* len(result.iterations)
    solves       \* executor.run calls of the loop (history)

inputs == <<maxIter, scored, hasRef, tier, long>>
data == <<graph, flowsheet, execution>>
loop == <<iteration, ceiling, extended, records, solves>>
vars == <<inputs, pc, unitText, refData, data, loop, result>>

Larger(a, b) == IF a >= b THEN a ELSE b
Budget == Larger(maxIter, BeamMaxIter)

Texts == {"full", "summary", "empty", "tight"}
Refusals == {"BASIS_FAILED", "PLAN_FAILED", "INVALID_IR", "INVALID_JSON"}
Outcomes == Refusals \cup {"PASS", "HUMAN", "MAX_ITER"}
Results == [outcome : Outcomes, graph : Graphs \cup {None}, flowsheet : Graphs \cup {None},
            execution : Executions \cup {None}]
Stopped == {"done", "crashed"}

NoResult == [outcome |-> "MAX_ITER", graph |-> None, flowsheet |-> None, execution |-> None]

Init ==
    /\ maxIter \in MaxIters
    /\ scored \in BOOLEAN /\ hasRef \in BOOLEAN /\ long \in BOOLEAN
    /\ tier \in {"standard", "validation"}
    /\ pc = "basis" /\ unitText = "full" /\ refData = FALSE
    /\ graph = None /\ flowsheet = None /\ execution = None
    /\ iteration = 0 /\ ceiling = maxIter /\ extended = FALSE
    /\ records = 0 /\ solves = 0
    /\ result = NoResult

-----------------------------------------------------------------------------
(* Preparing the flowsheet.                                                *)

Refuse(verdict) ==
    /\ pc' = "done"
    /\ result' = [result EXCEPT !.outcome = verdict]
    /\ UNCHANGED <<inputs, unitText, refData, data, loop>>

(* An exception no handler of run() catches: there is no result.           *)
Raise == pc' = "crashed" /\ UNCHANGED <<inputs, unitText, refData, data, loop, result>>

Go(step) == pc' = step /\ UNCHANGED <<inputs, unitText, refData, data, loop, result>>

Basis ==
    /\ pc = "basis"
    /\ \/ Go("summarise")
       \/ Refuse("BASIS_FAILED")

CondensedLong == long
Condensed == long /\ tier # "validation"

(* The summary is used as it comes, the empty one included; a second pass  *)
(* over a summary that is still long counts when it is not empty; an       *)
(* exception of the first call leaves the full text.                       *)
Summarise ==
    /\ pc = "summarise"
    /\ pc' = "extract"
    /\ unitText' \in IF Condensed THEN Texts ELSE {"full"}
    /\ UNCHANGED <<inputs, refData, data, loop, result>>

Extract ==
    /\ pc = "extract"
    /\ \/ Go("build")
       \/ Refuse("PLAN_FAILED")       \* RuntimeError
       \/ Raise                       \* any other exception

(* GraphBuilder, reconciliation and back-fill of compounds, normalise and  *)
(* the first validation.                                                   *)
Build ==
    /\ pc = "build"
    /\ \/ /\ pc' = "map" /\ graph' = [ver |-> 0, marks |-> {}]
          /\ UNCHANGED <<inputs, unitText, refData, flowsheet, execution, loop, result>>
       \/ Refuse("INVALID_IR")
       \/ Raise

(* Stage 3 catches everything; the normalise and validate behind it do not.*)
Map ==
    /\ pc = "map"
    /\ \/ /\ pc' = "load_reference"
          /\ result' = [result EXCEPT !.graph = graph]
          /\ UNCHANGED <<inputs, unitText, refData, data, loop>>
       \/ Refuse("PLAN_FAILED")
       \/ Refuse("INVALID_JSON")
       \/ Raise

(* The reference file is read in the ablation arm only.                    *)
MayReadAlways == hasRef
MayRead == hasRef /\ ~scored

(* The file may be missing on both candidate paths or unreadable.          *)
LoadReference ==
    /\ pc = "load_reference"
    /\ pc' = "render"
    /\ refData' \in IF MayRead THEN BOOLEAN ELSE {FALSE}
    /\ UNCHANGED <<inputs, unitText, data, loop, result>>

(* In the validation tier the reactors' reaction and conversion are copied *)
(* into the graph, in place and without a provenance tag.                  *)
Seeded(g) == [g EXCEPT !.marks = @ \cup {"reactor"}]

Render ==
    /\ pc = "render"
    /\ \/ \E g \in IF tier = "validation" /\ refData THEN {graph, Seeded(graph)} ELSE {graph} :
            /\ pc' = "execute"
            /\ graph' = g /\ flowsheet' = g
            /\ result' = [result EXCEPT !.graph = g]
            /\ UNCHANGED <<inputs, unitText, refData, execution, loop>>
       \/ Raise

-----------------------------------------------------------------------------
(* The loop.                                                               *)

OneMore == iteration <= ceiling
MoreIterations == iteration < Budget /\ iteration < ceiling

SolveOnce ==
    /\ pc = "execute" /\ MoreIterations
    /\ solves' = solves + 1

Answer(f, clean) == [of |-> f, clean |-> clean]

(* PASS with the execution as it is. *)
Pass ==
    /\ SolveOnce
    /\ pc' = "end" /\ records' = records + 1
    /\ execution' = Answer(flowsheet, TRUE)
    /\ result' = [result EXCEPT !.outcome = "PASS", !.flowsheet = flowsheet,
                                !.execution = execution']
    /\ UNCHANGED <<inputs, unitText, refData, graph, flowsheet, iteration, ceiling, extended>>

(* Reference-guided refinement: setpoints of the graph are overwritten in  *)
(* place and tagged; the re-solve replaces flowsheet and execution when it *)
(* is solved, whatever else it reports.                                    *)
Refined(g) == [g EXCEPT !.marks = @ \cup {"setpoint"}]

PassRefined ==
    /\ SolveOnce
    /\ refData
    /\ pc' = "end" /\ records' = records + 1
    /\ graph' = Refined(graph)
    /\ \/ /\ flowsheet' = graph'
          /\ \E clean \in BOOLEAN : execution' = Answer(flowsheet', clean)
       \/ /\ execution' = Answer(flowsheet, TRUE)     \* re-solve failed
          /\ UNCHANGED flowsheet
    /\ result' = [outcome |-> "PASS", graph |-> graph', flowsheet |-> flowsheet',
                  execution |-> execution']
    /\ UNCHANGED <<inputs, unitText, refData, iteration, ceiling, extended>>

(* A terminal error among the classified ones. *)
Escalate ==
    /\ SolveOnce
    /\ pc' = "end" /\ records' = records + 1
    /\ execution' = Answer(flowsheet, FALSE)
    /\ result' = [result EXCEPT !.outcome = "HUMAN", !.flowsheet = flowsheet,
                                !.execution = execution']
    /\ UNCHANGED <<inputs, unitText, refData, graph, flowsheet, iteration, ceiling, extended>>

(* Errors to repair: the first time more than one is a CONDITION_FIX the   *)
(* ceiling becomes that of the beam search, also when it was higher.       *)
ToRepair ==
    /\ SolveOnce
    /\ pc' = "repair"
    /\ execution' = Answer(flowsheet, FALSE)
    /\ \E severalConditionFixes \in BOOLEAN :
         IF severalConditionFixes /\ ~extended
         THEN extended' = TRUE /\ ceiling' = BeamMaxIter
         ELSE UNCHANGED <<extended, ceiling>>
    /\ UNCHANGED <<inputs, unitText, refData, graph, flowsheet, iteration, records, result>>

(* The classifier, or the refinement, raises. *)
SolveRaises ==
    /\ SolveOnce
    /\ pc' = "crashed"
    /\ UNCHANGED <<inputs, unitText, refData, data, iteration, ceiling, extended, records, result>>

RenderedStale(g) == flowsheet
Rendered(g) == g

(* The repaired graph is normalised and rendered; a failed validation only *)
(* warns. The result pairs the new graph and flowsheet with the execution  *)
(* of the previous flowsheet.                                              *)
Repair ==
    /\ pc = "repair"
    /\ \/ UNCHANGED graph
       \/ graph' = [graph EXCEPT !.ver = @ + 1]
    /\ flowsheet' = Rendered(graph')
    /\ result' = [result EXCEPT !.graph = graph', !.flowsheet = flowsheet',
                                !.execution = execution]
    /\ pc' = "execute" /\ iteration' = iteration + 1 /\ records' = records + 1
    /\ UNCHANGED <<inputs, unitText, refData, execution, ceiling, extended, solves>>

(* Repair, normalise, validate or to_dwsim raises: the loop breaks with    *)
(* the result as the previous iteration left it, empty in the first one.   *)
(* Repair and normalise copy their graph, so the result's is untouched.    *)
RepairRaises ==
    /\ pc = "repair"
    /\ pc' = "end" /\ records' = records + 1
    /\ UNCHANGED <<inputs, unitText, refData, data, iteration, ceiling, extended, solves, result>>

Exhausted ==
    /\ pc = "execute" /\ ~MoreIterations
    /\ Go("end")

(* The non-circularity assertion sees tagged values only.                  *)
Leaks == scored /\ result.graph # None /\ "setpoint" \in result.graph.marks

End ==
    /\ pc = "end"
    /\ IF Leaks THEN Raise ELSE Go("done")

Prepare == Basis \/ Summarise \/ Extract \/ Build \/ Map \/ LoadReference \/ Render
Solve == Pass \/ PassRefined \/ Escalate \/ ToRepair \/ SolveRaises
Step == Prepare \/ Solve \/ Repair \/ RepairRaises \/ Exhausted \/ End

Next == Step \/ (pc \in Stopped /\ UNCHANGED vars)

Spec == Init /\ [][Next]_vars

-----------------------------------------------------------------------------
(* The contract of run() is the one the node machine implements.           *)

Phase ==
    IF pc = "crashed" THEN "crashed"
    ELSE IF pc \in {"end", "done"} THEN "done"
    ELSE IF pc \in {"execute", "repair"} THEN "working"
    ELSE "preparing"

Verdict ==
    IF Phase # "done" THEN "none"
    ELSE IF result.outcome \in {"PASS", "HUMAN"} THEN result.outcome
    ELSE IF result.outcome = "MAX_ITER" THEN "gave_up"
    ELSE "refused"

Contract == INSTANCE RunContract WITH
    Budgets <- {Larger(m, BeamMaxIter) : m \in MaxIters},
    phase <- Phase, budget <- Budget, attempts <- solves, verdict <- Verdict

(* The sequential loop implements the contract of run(): it refuses before *)
(* any solve, gives a verdict with an attempt only, attempts no more than  *)
(* the larger of its budgets, and once it has an answer nothing (the       *)
(* assertion behind the loop included) takes it back.                      *)
ImplementsContract == Contract!Spec

-----------------------------------------------------------------------------
(* Properties.                                                             *)

(* Every variable has its type; a text condensed for the unit extractor    *)
(* is never used in the validation tier; every solve but the one being     *)
(* repaired has its iteration record.                                      *)
TypeOK ==
    /\ maxIter \in MaxIters
    /\ scored \in BOOLEAN /\ hasRef \in BOOLEAN /\ long \in BOOLEAN
    /\ refData \in BOOLEAN /\ extended \in BOOLEAN
    /\ tier \in {"standard", "validation"}
    /\ pc \in {"basis", "summarise", "extract", "build", "map", "load_reference",
               "render", "execute", "repair", "end", "done", "crashed"}
    /\ unitText \in Texts /\ (tier = "validation" => unitText = "full")
    /\ graph \in Graphs \cup {None} /\ flowsheet \in Graphs \cup {None}
    /\ execution \in Executions \cup {None}
    /\ iteration \in Nat /\ ceiling \in {maxIter, BeamMaxIter}
    /\ solves \in Nat /\ records \in Nat
    /\ pc # "crashed" => solves = records + (IF pc = "repair" THEN 1 ELSE 0)
    /\ result \in Results

(* A result is written at five places, field by field. A verdict comes     *)
(* with the execution of the very flowsheet it returns; in a scored run    *)
(* that is the flowsheet of the graph it returns, and a PASS is clean. A   *)
(* result without a verdict may carry an execution one repair older than   *)
(* its flowsheet, never more.                                              *)
VerdictCoherent ==
    pc = "done" =>
      /\ result.outcome \in {"PASS", "HUMAN"} =>
           /\ result.execution # None /\ result.execution.of = result.flowsheet
           /\ scored => result.flowsheet = result.graph
           /\ scored => result.execution.clean = (result.outcome = "PASS")
      /\ result.outcome = "MAX_ITER" /\ result.flowsheet # None =>
           /\ result.flowsheet = result.graph
           /\ result.graph.ver <= result.execution.of.ver + 1

(* A scored run is blind to the reference: nothing of it reaches the graph *)
(* or a flowsheet, tagged (which the assertion would see) or not.          *)
ScoredBlind ==
    scored => /\ ~refData
              /\ \A g \in {graph, flowsheet, result.graph, result.flowsheet} \ {None} :
                    g.marks = {}

=============================================================================
