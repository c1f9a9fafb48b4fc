------------------------ MODULE OrchestratorLoopProofs ------------------------
(***************************************************************************)
(* Proofs about OrchestratorLoop: types, the coherence of its result, the  *)
(* blindness of scored runs, and that the sequential loop implements the   *)
(* contract of run(), for every budget.  The invariant says, for each step *)
(* of run(), how many solves were made and how the graph, the flowsheet,   *)
(* the execution and the result written so far belong together.            *)
(***************************************************************************)
EXTENDS OrchestratorLoop, TLAPS

Early == {"basis", "summarise", "extract", "build", "map", "load_reference", "render"}

(* Before the loop nothing was solved and no verdict was written. *)
BeforeLoop ==
    /\ pc \in Early => /\ solves = 0 /\ iteration = 0
                       /\ result.outcome = "MAX_ITER"
                       /\ flowsheet = None /\ result.flowsheet = None
    /\ pc \in {"map", "load_reference", "render"} => graph \in Graphs
    /\ pc \in {"execute", "repair"} => graph \in Graphs /\ flowsheet = graph

(* In the loop one solve is made per iteration, each below the budget, and *)
(* the result is that of the last repair.                                  *)
InLoop ==
    /\ pc = "execute" => solves = iteration /\ iteration <= Budget
    /\ pc = "repair" => /\ solves = iteration + 1 /\ iteration < Budget
                        /\ execution \in Executions /\ execution.of = flowsheet
    /\ pc \in {"execute", "repair"} => result.outcome = "MAX_ITER" /\ result.graph = graph

(* A result without a verdict is of one graph, or of no flowsheet. *)
Pending ==
    result.outcome = "MAX_ITER" /\ result.flowsheet # None =>
        /\ result.flowsheet = result.graph /\ result.graph \in Graphs
        /\ result.execution \in Executions
        /\ result.graph.ver <= result.execution.of.ver + 1

(* A verdict is of the execution it was read from. *)
Judged ==
    pc \in {"end", "done"} /\ result.outcome \in {"PASS", "HUMAN"} =>
        /\ result.execution # None /\ result.execution.of = result.flowsheet
        /\ scored => result.flowsheet = result.graph
        /\ scored => result.execution.clean = (result.outcome = "PASS")

LoopInv == TypeOK /\ BeforeLoop /\ InLoop /\ Pending /\ Judged /\ ScoredBlind

-----------------------------------------------------------------------------

(* The budget is a number. *)
LEMMA BudgetType == TypeOK => Budget \in Nat
BY LoopAssumption DEF TypeOK, Budget, Larger

(* It does not change. *)
LEMMA BudgetFixed == [Next]_vars => Budget' = Budget
<1> SUFFICES ASSUME [Next]_vars PROVE maxIter' = maxIter
  BY DEF Budget
<1> QED
  BY DEF Next, Step, Prepare, Solve, vars, inputs, Basis, Summarise, Extract, Build, Map,
     LoadReference, Render, Pass, PassRefined, Escalate, ToRepair, SolveRaises, Repair,
     RepairRaises, Exhausted, End, Refuse, Raise, Go

(* The invariant holds when run() starts. *)
LEMMA LoopInitInv == Init => LoopInv
<1> SUFFICES ASSUME Init PROVE LoopInv
  OBVIOUS
<1>1. TypeOK
  <2>1. result \in Results
    BY DEF Init, NoResult, Results, Outcomes
  <2>2. /\ scored \in BOOLEAN /\ hasRef \in BOOLEAN /\ long \in BOOLEAN
        /\ refData \in BOOLEAN /\ extended \in BOOLEAN
    BY DEF Init
  <2>3. /\ iteration \in Nat /\ solves \in Nat /\ records \in Nat
        /\ pc # "crashed" => solves = records + (IF pc = "repair" THEN 1 ELSE 0)
    BY DEF Init
  <2> QED
    BY <2>1, <2>2, <2>3 DEF Init, TypeOK, Texts
<1>2. BeforeLoop /\ InLoop /\ Pending /\ Judged /\ ScoredBlind
  BY DEF Init, BeforeLoop, InLoop, Pending, Judged, ScoredBlind, NoResult, Early
<1> QED
  BY <1>1, <1>2 DEF LoopInv

(* Writing a refusal, raising and going on preserve it. *)
LEMMA RefuseInv ==
    ASSUME LoopInv, pc \in Early, NEW v \in Refusals, Refuse(v)
    PROVE  LoopInv'
BY DEF LoopInv, Refuse, TypeOK, BeforeLoop, InLoop, Pending, Judged, ScoredBlind, Early,
       Refusals, Results, Outcomes, inputs, data, loop, Budget

(* An exception out of run leaves nothing half written. *)
LEMMA RaiseInv == ASSUME LoopInv, Raise PROVE LoopInv'
BY DEF LoopInv, Raise, TypeOK, BeforeLoop, InLoop, Pending, Judged, ScoredBlind, Early,
       inputs, data, loop, Budget

(* Preparing the flowsheet preserves it. *)
LEMMA PrepareInv == LoopInv /\ Prepare => LoopInv'
<1> SUFFICES ASSUME LoopInv, Prepare PROVE LoopInv'
  OBVIOUS
<1> USE NoneAssumption
<1>1. CASE Basis
  <2>1. CASE Go("summarise")
    BY <1>1, <2>1 DEF Basis, Go, LoopInv, TypeOK, BeforeLoop, InLoop, Pending, Judged,
       ScoredBlind, Early, inputs, data, loop, Budget
  <2> QED
    BY <1>1, <2>1, RefuseInv DEF Basis, Early, Refusals
<1>2. CASE Summarise
  BY <1>2 DEF Summarise, Condensed, Texts, LoopInv, TypeOK, BeforeLoop, InLoop, Pending,
     Judged, ScoredBlind, Early, inputs, data, loop, Budget
<1>3. CASE Extract
  <2>1. CASE Go("build")
    BY <1>3, <2>1 DEF Extract, Go, LoopInv, TypeOK, BeforeLoop, InLoop, Pending, Judged,
       ScoredBlind, Early, inputs, data, loop, Budget
  <2> QED
    BY <1>3, <2>1, RefuseInv, RaiseInv DEF Extract, Early, Refusals
<1>4. CASE Build
  <2>1. CASE pc' = "map"
    BY <1>4, <2>1 DEF Build, Refuse, Raise, Graphs, Marks, LoopInv, TypeOK, BeforeLoop, InLoop,
       Pending, Judged, ScoredBlind, Early, inputs, data, loop, Budget
  <2> QED
    BY <1>4, <2>1, RefuseInv, RaiseInv DEF Build, Early, Refusals
<1>5. CASE Map
  <2>1. CASE pc' = "load_reference"
    BY <1>5, <2>1 DEF Map, Refuse, Raise, Results, LoopInv, TypeOK, BeforeLoop, InLoop,
       Pending, Judged, ScoredBlind, Early, inputs, data, loop, Budget
  <2> QED
    BY <1>5, <2>1, RefuseInv, RaiseInv DEF Map, Early, Refusals
<1>6. CASE LoadReference
  BY <1>6 DEF LoadReference, MayRead, LoopInv, TypeOK, BeforeLoop, InLoop, Pending,
     Judged, ScoredBlind, Early, inputs, data, loop, Budget
<1>7. CASE Render
  <2>1. CASE pc' = "execute"
    <3>1. PICK g \in IF tier = "validation" /\ refData THEN {graph, Seeded(graph)} ELSE {graph} :
            /\ graph' = g /\ flowsheet' = g /\ result' = [result EXCEPT !.graph = g]
            /\ UNCHANGED <<inputs, unitText, refData, execution, loop>>
      BY <1>7, <2>1 DEF Render, Raise
    <3>2. g \in Graphs /\ (scored => g = graph)
      BY <1>7, <3>1 DEF Render, Seeded, Graphs, Marks, LoopInv, TypeOK, BeforeLoop,
         ScoredBlind
    <3>3. Budget \in Nat /\ Budget' = Budget
      BY <3>1, BudgetType DEF LoopInv, inputs, Budget
    <3> QED
      BY <1>7, <2>1, <3>1, <3>2, <3>3 DEF Render, Results, LoopInv, TypeOK, BeforeLoop,
         InLoop, Pending, Judged, ScoredBlind, Early, inputs, data, loop
  <2> QED
    BY <1>7, <2>1, RaiseInv DEF Render
<1> QED
  BY <1>1, <1>2, <1>3, <1>4, <1>5, <1>6, <1>7 DEF Prepare

(* What a solve is made of: the flowsheet of the current graph. *)
LEMMA SolveFacts ==
    ASSUME LoopInv, SolveOnce
    PROVE  /\ solves' = iteration + 1 /\ iteration \in Nat /\ iteration < Budget
           /\ graph \in Graphs /\ flowsheet = graph
           /\ solves' \in Nat /\ solves' = records + 1
           /\ \A c \in BOOLEAN : Answer(flowsheet, c) \in Executions
BY DEF LoopInv, SolveOnce, MoreIterations, TypeOK, BeforeLoop, InLoop, Answer, Executions

(* A solve preserves the invariant. *)
LEMMA SolveInv == LoopInv /\ Solve => LoopInv'
<1> SUFFICES ASSUME LoopInv, Solve PROVE LoopInv'
  OBVIOUS
<1> USE NoneAssumption
<1>0. SolveOnce
  BY DEF Solve, Pass, PassRefined, Escalate, ToRepair, SolveRaises
<1> DEFINE f == flowsheet
<1>1. CASE Pass \/ Escalate
  <2>1. PICK c \in BOOLEAN : /\ execution' = Answer(flowsheet, c)
                             /\ result' = [result EXCEPT !.outcome = IF c THEN "PASS" ELSE "HUMAN",
                                           !.flowsheet = flowsheet, !.execution = execution']
    BY <1>1 DEF Pass, Escalate
  <2>2. result' \in Results
    BY <1>0, <2>1, SolveFacts DEF LoopInv, TypeOK, Results, Outcomes
  <2>3. TypeOK'
    <3>1. execution' \in Executions
      BY <1>0, <2>1, SolveFacts
    <3>2. pc' = "end" /\ records' = records + 1 /\ solves' = records' /\ solves' \in Nat
      BY <1>0, <1>1, SolveFacts DEF Pass, Escalate
    <3>3. UNCHANGED <<inputs, unitText, refData, graph, flowsheet, iteration, ceiling, extended>>
      BY <1>1 DEF Pass, Escalate
    <3> QED
      BY <2>2, <3>1, <3>2, <3>3 DEF LoopInv, TypeOK, inputs
  <2>4. BeforeLoop' /\ InLoop' /\ Pending'
    BY <1>1, <2>1 DEF Pass, Escalate, BeforeLoop, InLoop, Pending, Early, LoopInv, TypeOK, Results
  <2>5. Judged'
    BY <1>0, <1>1, <2>1, SolveFacts
       DEF Pass, Escalate, Judged, LoopInv, TypeOK, InLoop, Results, Answer, SolveOnce, inputs
  <2>6. ScoredBlind'
    BY <1>1, <2>1 DEF Pass, Escalate, ScoredBlind, LoopInv, TypeOK, Results, inputs
  <2> QED
    BY <2>3, <2>4, <2>5, <2>6 DEF LoopInv
<1>2. CASE PassRefined
  <2>1. graph' \in Graphs /\ flowsheet' \in Graphs
    BY <1>0, <1>2, SolveFacts DEF PassRefined, Refined, Graphs, Marks
  <2>2. execution' \in Executions /\ execution'.of = flowsheet'
    <3>1. CASE flowsheet' = graph'
      <4>1. PICK c \in BOOLEAN : execution' = Answer(flowsheet', c)
        BY <1>2, <3>1 DEF PassRefined
      <4> QED
        BY <2>1, <4>1 DEF Answer, Executions
    <3>2. CASE execution' = Answer(flowsheet, TRUE) /\ flowsheet' = flowsheet
      BY <1>0, <3>2, SolveFacts DEF Answer
    <3> QED
      BY <1>2, <3>1, <3>2 DEF PassRefined
  <2>3. ~scored
    BY <1>2 DEF PassRefined, LoopInv, ScoredBlind
  <2>4. TypeOK'
    BY <1>0, <1>2, <2>1, <2>2, SolveFacts
       DEF PassRefined, LoopInv, TypeOK, Results, Outcomes, inputs
  <2> QED
    BY <1>2, <2>1, <2>2, <2>3, <2>4
       DEF PassRefined, LoopInv, BeforeLoop, InLoop, Pending, Judged, ScoredBlind, Early, inputs
<1>3. CASE ToRepair
  <2>1. execution' \in Executions /\ execution'.of = flowsheet
    BY <1>0, <1>3, SolveFacts DEF ToRepair, Answer
  <2>2. ceiling' \in {maxIter, BeamMaxIter} /\ extended' \in BOOLEAN
    BY <1>3 DEF ToRepair, LoopInv, TypeOK
  <2>3. TypeOK'
    BY <1>0, <1>3, <2>1, <2>2, SolveFacts DEF ToRepair, LoopInv, TypeOK, inputs
  <2>4. BeforeLoop' /\ InLoop' /\ Pending'
    BY <1>0, <1>3, <2>1, SolveFacts
       DEF ToRepair, SolveOnce, BeforeLoop, InLoop, Pending, Early, LoopInv, Budget, inputs
  <2>5. Judged' /\ ScoredBlind'
    BY <1>3 DEF ToRepair, Judged, ScoredBlind, LoopInv, inputs
  <2> QED
    BY <2>3, <2>4, <2>5 DEF LoopInv
<1>4. CASE SolveRaises
  <2>1. TypeOK'
    BY <1>0, <1>4, SolveFacts DEF SolveRaises, LoopInv, TypeOK, inputs, data
  <2> QED
    BY <1>4, <2>1 DEF SolveRaises, LoopInv, BeforeLoop, InLoop, Pending, Judged,
       ScoredBlind, Early, inputs, data
<1> QED
  BY <1>1, <1>2, <1>3, <1>4 DEF Solve

(* A repair, failed or not, preserves it: the result pairs the new graph   *)
(* with the execution of the one it was made from.                         *)
LEMMA RepairInv == LoopInv /\ (Repair \/ RepairRaises) => LoopInv'
<1> SUFFICES ASSUME LoopInv, Repair \/ RepairRaises PROVE LoopInv'
  OBVIOUS
<1> USE NoneAssumption
<1>1. CASE Repair
  <2>1. /\ graph' \in Graphs /\ graph'.marks = graph.marks
        /\ graph'.ver \in Nat /\ graph.ver \in Nat /\ graph'.ver <= graph.ver + 1
    BY <1>1 DEF Repair, LoopInv, BeforeLoop, Graphs
  <2>2. flowsheet' = graph' /\ execution \in Executions /\ execution.of = graph
    BY <1>1 DEF Repair, Rendered, LoopInv, BeforeLoop, InLoop
  <2>3. result' \in Results /\ result'.outcome = "MAX_ITER" /\ result'.graph = graph'
        /\ result'.flowsheet = graph' /\ result'.execution = execution
    BY <1>1, <2>1, <2>2 DEF Repair, LoopInv, TypeOK, InLoop, Results
  <2>4. TypeOK'
    BY <1>1, <2>1, <2>2, <2>3 DEF Repair, LoopInv, TypeOK, inputs
  <2>5. BeforeLoop' /\ Judged'
    BY <1>1, <2>1, <2>2, <2>3 DEF Repair, BeforeLoop, Judged, Early
  <2>6. InLoop'
    <3>1. Budget \in Nat /\ Budget' = Budget
      BY <1>1, BudgetType DEF Repair, LoopInv, inputs, Budget
    <3> QED
      BY <1>1, <2>3, <3>1 DEF Repair, LoopInv, TypeOK, InLoop
  <2>7. Pending'
    BY <2>1, <2>2, <2>3 DEF Pending
  <2>8. ScoredBlind'
    BY <1>1, <2>1, <2>2, <2>3 DEF Repair, ScoredBlind, LoopInv, BeforeLoop, inputs
  <2> QED
    BY <2>4, <2>5, <2>6, <2>7, <2>8 DEF LoopInv
<1>2. CASE RepairRaises
  <2>1. TypeOK'
    BY <1>2 DEF RepairRaises, LoopInv, TypeOK, inputs, data
  <2> QED
    BY <1>2, <2>1 DEF RepairRaises, LoopInv, BeforeLoop, InLoop, Pending, Judged,
       ScoredBlind, Early, inputs, data
<1> QED
  BY <1>1, <1>2

(* Leaving the loop and run() preserves it. *)
LEMMA LeaveInv == LoopInv /\ (Exhausted \/ End) => LoopInv'
<1> SUFFICES ASSUME LoopInv, Exhausted \/ End PROVE LoopInv'
  OBVIOUS
<1>1. CASE Raise
  BY <1>1, RaiseInv
<1>2. CASE pc' \in {"end", "done"} /\ ~Raise
  BY <1>2 DEF Exhausted, End, Go, LoopInv, TypeOK, BeforeLoop, InLoop, Pending, Judged,
     ScoredBlind, Early, inputs, data, loop, Budget
<1> QED
  BY <1>1, <1>2 DEF Exhausted, End, Go, Raise

(* Every step preserves it. *)
LEMMA LoopStepInv == LoopInv /\ [Next]_vars => LoopInv'
<1> SUFFICES ASSUME LoopInv, [Next]_vars PROVE LoopInv'
  OBVIOUS
<1>1. CASE Step
  BY <1>1, PrepareInv, SolveInv, RepairInv, LeaveInv DEF Step
<1>2. CASE UNCHANGED vars
  BY <1>2 DEF vars, inputs, data, loop, LoopInv, TypeOK, BeforeLoop, InLoop, Pending,
     Judged, ScoredBlind, Budget
<1> QED
  BY <1>1, <1>2 DEF Next

(* The invariant holds in every state of every run. *)
THEOREM LoopInvariance == Spec => []LoopInv
<1> QED
  BY LoopInitInv, LoopStepInv, PTL DEF Spec

(* Every variable has its type and every solve its record, for every       *)
(* budget.                                                                 *)
THEOREM LoopTypeCorrect == Spec => []TypeOK
<1>1. LoopInv => TypeOK
  BY DEF LoopInv
<1> QED
  BY <1>1, LoopInvariance, PTL

(* The result run() returns is coherent, whichever of its five writers     *)
(* wrote it.                                                               *)
THEOREM LoopResultsCoherent == Spec => []VerdictCoherent
<1>1. LoopInv => VerdictCoherent
  BY DEF LoopInv, Judged, Pending, VerdictCoherent
<1> QED
  BY <1>1, LoopInvariance, PTL

(* A scored run never holds anything of the reference. *)
THEOREM ScoredRunsBlind == Spec => []ScoredBlind
<1>1. LoopInv => ScoredBlind
  BY DEF LoopInv
<1> QED
  BY <1>1, LoopInvariance, PTL

-----------------------------------------------------------------------------
(* run() implements its contract.                                          *)

(* A solve is an attempt of the contract. *)
LEMMA SolveImplements ==
    ASSUME LoopInv, Solve, Budget' = Budget
    PROVE  Contract!Attempt
<1>0. SolveOnce /\ pc = "execute" /\ pc' \in {"end", "repair", "crashed"}
  BY DEF Solve, Pass, PassRefined, Escalate, ToRepair, SolveRaises, SolveOnce
<1>1. Phase = "working" /\ Verdict = "none" /\ solves < Budget /\ solves' = solves + 1
  BY <1>0, SolveFacts DEF LoopInv, InLoop, SolveOnce, Phase, Verdict
<1>2. CASE pc' \in {"repair", "crashed"}
  BY <1>1, <1>2 DEF Contract!Attempt, Phase, Verdict
<1>3. CASE pc' = "end"
  <2>1. result'.outcome \in {"PASS", "HUMAN"}
    <3>1. CASE Pass
      BY <3>1 DEF Pass, LoopInv, TypeOK, Results
    <3>2. CASE PassRefined
      BY <3>2 DEF PassRefined
    <3>3. CASE Escalate
      BY <3>3 DEF Escalate, LoopInv, TypeOK, Results
    <3> QED
      BY <1>3, <3>1, <3>2, <3>3 DEF Solve, ToRepair, SolveRaises
  <2> QED
    BY <1>1, <1>3, <2>1 DEF Contract!Attempt, Phase, Verdict
<1> QED
  BY <1>0, <1>2, <1>3

(* Everything before the first solve is admission, refusal or a stutter. *)
LEMMA PrepareImplements ==
    ASSUME LoopInv, Prepare, Budget' = Budget
    PROVE  Contract!Next \/ UNCHANGED Contract!vars
<1>1. Phase = "preparing" /\ Verdict = "none" /\ solves' = solves
  BY DEF Prepare, Basis, Summarise, Extract, Build, Map, LoadReference, Render, Refuse,
     Raise, Go, loop, Phase, Verdict
<1>2. CASE pc' = "done"
  <2>1. result'.outcome \in Refusals
    BY <1>2 DEF Prepare, Basis, Summarise, Extract, Build, Map, LoadReference, Render,
       Refuse, Raise, Go, Refusals, LoopInv, TypeOK, Results
  <2>2. Verdict' = "refused" /\ Phase' = "done"
    BY <1>2, <2>1 DEF Phase, Verdict, Refusals
  <2> QED
    BY <1>1, <2>2 DEF Contract!Next, Contract!Refuse
<1>3. CASE pc' \in {"execute", "crashed"}
  BY <1>1, <1>3 DEF Contract!Next, Contract!Admit, Contract!Crash, Phase, Verdict
<1>4. CASE pc' \in Early
  BY <1>1, <1>4 DEF Contract!vars, Phase, Verdict, Early
<1> QED
  BY <1>2, <1>3, <1>4 DEF Prepare, Basis, Summarise, Extract, Build, Map, LoadReference,
     Render, Refuse, Raise, Go, Early

(* Every step is a step of the contract or a stutter. *)
LEMMA LoopStepImplements ==
    LoopInv /\ [Next]_vars => [Contract!Next]_(Contract!vars)
<1> SUFFICES ASSUME LoopInv, [Next]_vars
             PROVE  Contract!Next \/ UNCHANGED Contract!vars
  OBVIOUS
<1>0. Budget' = Budget
  BY BudgetFixed
<1>1. CASE Prepare
  BY <1>0, <1>1, PrepareImplements
<1>2. CASE Solve
  BY <1>0, <1>2, SolveImplements DEF Contract!Next
<1>3. CASE Repair
  BY <1>0, <1>3 DEF Repair, Contract!vars, Phase, Verdict
<1>4. CASE RepairRaises
  <2>1. result'.outcome = "MAX_ITER" /\ solves' = solves
    BY <1>4 DEF RepairRaises, LoopInv, InLoop
  <2> QED
    BY <1>0, <1>4, <2>1 DEF RepairRaises, Contract!Next, Contract!GiveUp, Phase, Verdict
<1>5. CASE Exhausted
  <2>1. result'.outcome = "MAX_ITER" /\ solves' = solves
    BY <1>5 DEF Exhausted, Go, loop, LoopInv, InLoop
  <2> QED
    BY <1>0, <1>5, <2>1 DEF Exhausted, Go, Contract!Next, Contract!GiveUp, Phase, Verdict
<1>6. CASE End
  <2>1. ~Leaks
    BY DEF LoopInv, ScoredBlind, Leaks
  <2> QED
    BY <1>0, <1>6, <2>1 DEF End, Go, loop, Contract!vars, Phase, Verdict
<1>7. CASE UNCHANGED vars
  BY <1>7 DEF vars, inputs, loop, Contract!vars, Phase, Verdict, Budget
<1> QED
  BY <1>1, <1>2, <1>3, <1>4, <1>5, <1>6, <1>7 DEF Next, Step

(* The sequential loop implements RunContract, for every budget: with      *)
(* RunImplementsContract, both drivers keep the same promise.              *)
THEOREM LoopImplementsContract == Spec => ImplementsContract
<1>1. Init => Contract!Init
  BY DEF Init, Contract!Init, Phase, Verdict, Budget
<1> QED
  BY <1>1, LoopStepImplements, LoopInvariance, PTL
     DEF Spec, ImplementsContract, Contract!Spec

=============================================================================
