---------------------------- MODULE PipelineRun ----------------------------
(***************************************************************************)
(* GraphPipeline.run(): the node machine of Pipeline driven by LangGraph's *)
(* invoke, which counts every node visit against recursion_limit, and the  *)
(* handler that turns GraphRecursionError into a MAX_ITER result.          *)
(* `solves`, `ran` and `aborted` are history: they only record.            *)
(***************************************************************************)
EXTENDS Pipeline

CONSTANT RecursionLimit    \* recursion_limit of the constructor (100)

(* The limit leaves room for the six nodes of the longest preparation.     *)
ASSUME LimitAssumption == RecursionLimit \in Nat /\ RecursionLimit >= 6

VARIABLES
    visits,    \* super-steps LangGraph has counted
    solves,    \* executor.run calls of the execute loop
    ran,       \* packages of the flowsheets those calls were given
    aborted    \* the run ended in GraphRecursionError

history == <<solves, ran, aborted>>
runVars == <<vars, visits, history>>

RunInit ==
    /\ Init
    /\ visits = 0 /\ solves = 0 /\ ran = {} /\ aborted = FALSE

VisitUnlimited == visits <= RecursionLimit /\ visits' = visits + 1
Visit == visits < RecursionLimit /\ visits' = visits + 1

SolvingVisit ==
    /\ Visit
    /\ Solve
    /\ solves' = solves + 1
    /\ ran' = ran \cup {flowsheet.pkg}
    /\ UNCHANGED aborted

OtherVisit ==
    /\ Visit
    /\ Prepare \/ Decline \/ Repair \/ NodeRaises
    /\ UNCHANGED history

(* The handler answers with dict(initial): all progress is dropped.        *)
RecursionAbort ==
    /\ visits = RecursionLimit
    /\ pc \notin Stopped
    /\ pc' = "END" /\ outcome' = "MAX_ITER"
    /\ refData' = FALSE
    /\ semTopo' = FALSE /\ missing' = FALSE /\ recycleDropped' = FALSE
    /\ graph' = None /\ report' = None /\ flowsheet' = None
    /\ tried' = {} /\ iteration' = 0 /\ effMax' = maxIter
    /\ beamExtended' = FALSE /\ execution' = None /\ errors' = {}
    /\ prev' = None /\ noop' = FALSE
    /\ aborted' = TRUE
    /\ UNCHANGED <<inputs, visits, solves, ran>>

RunStep == SolvingVisit \/ OtherVisit \/ RecursionAbort

RunNext == RunStep \/ (pc \in Stopped /\ UNCHANGED runVars)

RunSpec == RunInit /\ [][RunNext]_runVars

-----------------------------------------------------------------------------
(* The contract of run().                                                  *)

Larger(a, b) == IF a >= b THEN a ELSE b
Budget == Larger(maxIter, BeamMaxIter)

Phase == IF pc = "END" THEN "done"
         ELSE IF pc = "CRASH" THEN "crashed"
         ELSE IF pc \in {"execute", "repair"} THEN "working"
         ELSE "preparing"

Verdict == IF pc # "END" THEN "none"
           ELSE IF outcome \in {"PASS", "HUMAN"} THEN outcome
           ELSE IF outcome \in {"MAX_ITER", "STALLED"} THEN "gave_up"
           ELSE "refused"

Contract == INSTANCE RunContract WITH
    Budgets <- {Larger(m, BeamMaxIter) : m \in MaxIters},
    phase <- Phase, budget <- Budget, attempts <- solves, verdict <- Verdict

(* run() implements the contract.                                          *)
ImplementsContract == Contract!Spec

-----------------------------------------------------------------------------
(* Properties.                                                             *)

(* The history variables have their types.                                 *)
RunTypeOK ==
    /\ TypeOK
    /\ visits \in 0..RecursionLimit
    /\ solves \in Nat
    /\ ran \subseteq Packages \cup {NoPkg}
    /\ aborted \in BOOLEAN

(* The loop never calls the solver more often than the larger of the two   *)
(* budgets, through extension, stalls and failed repairs.                  *)
SolveBudget == solves <= Budget

(* "No untried packages remain" is true of what was solved, not only of    *)
(* what was recorded: a run stalls only after every package the retriever  *)
(* can offer has been in a flowsheet the solver was given.                 *)
StallAfterEveryPackage == outcome = "STALLED" => Packages \subseteq ran

(* A package switch never goes back to a package already solved with.      *)
NoPackageRevisited ==
    [][pc = "repair" /\ pc' = "execute" /\ graph'.pkg # graph.pkg
          => graph'.pkg \notin ran]_runVars

(* A run takes at most five nodes to the loop, or six through a topology   *)
(* repair that succeeds, and two per solve: LangGraph's limit is out of    *)
(* reach while it is larger than that, so the run ends by its own rules.   *)
SuperStepBound == visits <= 7 + 2 * Budget
OwnTermination == RecursionLimit >= 7 + 2 * Budget => ~aborted

=============================================================================
