------------------------------ MODULE Learning ------------------------------
(***************************************************************************)
(* What ChatPSE learns from its repairs and which later runs see it: the   *)
(* rule store (agents/rule_store.py), kept in each orchestrator and in the *)
(* file results/rule_store.json, and the margin model (ir/margin_model.py) *)
(* kept in one object per process.  The driver is benchmark_runner.py: a   *)
(* launch works through a plan of arms (the runs of --runs N, the modes of *)
(* --ablation, or one), an arm through its cases, a case through the       *)
(* samples of BEST_OF_N, and a sample through solves and repairs.          *)
(*                                                                         *)
(* An observation is one recorded repair; what matters of it is the run    *)
(* that made it.  Processes are killed (a batch job's time limit) and      *)
(* launched again; only the file survives.                                 *)
(***************************************************************************)
EXTENDS Naturals, Sequences, FiniteSets

CONSTANTS
    Plans,          \* the plans a launch may have: sequences of Arms
    Modes, Null,    \* ablation modes; Null is no_rule_store
    Keys,           \* (unit type, error code, downstream type) of a pattern
    NCases, NSamples,
    RuleThreshold,  \* RULE_THRESHOLD (3 in the code)
    MinObs, MaxObs, \* MIN_OBS and MAX_OBS of the margin model (3 and 20)
    MaxRepairs,     \* bound: repairs of one launch
    MaxLaunches     \* bound: launches of benchmark_runner

Arms == [mode : Modes, clear : BOOLEAN]

ASSUME PlansAssumption == Plans \subseteq Seq(Arms) \ {<<>>}
ASSUME ModesAssumption == Null \in Modes
ASSUME BoundsAssumption ==
    /\ NCases \in Nat \ {0} /\ NSamples \in Nat \ {0}
    /\ RuleThreshold \in Nat \ {0} /\ MinObs \in Nat /\ MaxObs \in Nat \ {0}
    /\ MaxRepairs \in Nat /\ MaxLaunches \in Nat \ {0}

(* An observation names the repair that made it; a margin also says (as    *)
(* history) whether the solver failed again right after the repair.        *)
Observations == [launch : 1..MaxLaunches, arm : Nat, case : 1..NCases,
                 n : 1..MaxRepairs, key : Keys]
Margins == [arm : Nat, refuted : BOOLEAN]

(* The file: missing, cut short (json.load rejects it), or a store.        *)
Absent == [state |-> "absent", obs |-> {}]
Torn == [state |-> "torn", obs |-> {}]
Stored(m) == [state |-> "store", obs |-> m]

VARIABLES
    launch, plan, arm, case, sample,  \* where the driver is
    pc,        \* arm, orch, sample, solve, repair, save, write, next,
               \* done, failed (load raised), killed
    file,      \* results/rule_store.json
    mem,       \* _patterns of the orchestrator's rule store
    applied,   \* observations behind the rules this sample applied
    margins,   \* the window of the process's margin model
    repairs,   \* repairs of this launch
    fresh,     \* history: the last margin is of the repair just made
    saved      \* history: the last store completely written to the file

where == <<launch, plan, arm, case, sample>>
store == <<file, saved>>
lessons == <<margins, fresh>>
vars == <<where, pc, store, mem, applied, repairs, lessons>>

Mode == plan[arm].mode
Clear == plan[arm].clear

Init ==
    /\ launch = 1 /\ plan \in Plans /\ arm = 0 /\ case = 1 /\ sample = 1
    /\ pc = "arm"
    /\ file = Absent /\ saved = {}
    /\ mem = {} /\ applied = {} /\ repairs = 0
    /\ margins = <<>> /\ fresh = FALSE

-----------------------------------------------------------------------------
(* The driver.                                                             *)

(* _run_multi deletes the file before each run, unless --accumulate-rules; *)
(* the thermodynamic caches it clears as well hold no observations.        *)
ClearedNever(f, clear) == f
Cleared(f, clear) == IF clear THEN Absent ELSE f

StartArm ==
    /\ pc = "arm"
    /\ arm < Len(plan)
    /\ arm' = arm + 1 /\ case' = 1
    /\ file' = Cleared(file, plan[arm'].clear)
    /\ saved' = IF plan[arm'].clear THEN {} ELSE saved
    /\ pc' = "orch"
    /\ UNCHANGED <<launch, plan, sample, mem, applied, repairs, lessons>>

(* OrchestratorV2.__init__ loads the file, then make_orchestrator replaces *)
(* the store of the Null mode.  The load is outside every try: a file that *)
(* is no JSON ends the launch.                                             *)
LoadedAlways(f, mode) == f.obs
LoadedNever(f, mode) == {}
Loaded(f, mode) == IF mode = Null THEN {} ELSE f.obs

MakeOrchestrator ==
    /\ pc = "orch"
    /\ IF file = Torn
         THEN pc' = "failed" /\ UNCHANGED <<mem, sample>>
         ELSE pc' = "sample" /\ mem' = Loaded(file, Mode) /\ sample' = 1
    /\ UNCHANGED <<launch, plan, arm, case, store, applied, repairs, lessons>>

(* Stage 3: the active rules are applied to the fresh graph.               *)
Active(m) == {o \in m : Cardinality({x \in m : x.key = o.key}) >= RuleThreshold}

StartSample ==
    /\ pc = "sample"
    /\ applied' = Active(mem)
    /\ pc' = "solve"
    /\ UNCHANGED <<where, store, mem, repairs, lessons>>

(* A result that is not PASS refutes the repair it follows.                *)
Solve ==
    /\ pc = "solve"
    /\ \/ pc' = "next" /\ UNCHANGED margins
       \/ /\ pc' \in {"repair", "next"}
          /\ margins' = IF fresh THEN [margins EXCEPT ![Len(margins)].refuted = TRUE]
                                 ELSE margins
    /\ fresh' = FALSE
    /\ UNCHANGED <<where, store, mem, applied, repairs>>

(* A condition fix.  The store records it unless it replaced a value that  *)
(* the description had specified; the margin model records it when the     *)
(* patched graph passes the IR validator and the margin is positive.       *)
Windowed(s) == SubSeq(s, Len(s) - MaxObs + 1, Len(s))
RecordedUnbounded(s, o) == Append(s, o)
Recorded(s, o) == IF Len(s) < MaxObs THEN Append(s, o) ELSE Windowed(Append(s, o))

Repair ==
    /\ pc = "repair"
    /\ repairs < MaxRepairs
    /\ repairs' = repairs + 1
    /\ \E k \in Keys, specified \in BOOLEAN, valid \in BOOLEAN :
        /\ mem' = IF specified THEN mem
                  ELSE mem \cup {[launch |-> launch, arm |-> arm, case |-> case,
                                  n |-> repairs', key |-> k]}
        /\ margins' = IF valid THEN Recorded(margins, [arm |-> arm, refuted |-> FALSE])
                      ELSE margins
        /\ fresh' = valid
    /\ pc' = "save"
    /\ UNCHANGED <<where, store, applied>>

(* save(): open(path, "w") empties the file, json.dump fills it.  The      *)
(* caller catches what either raises and goes on.                          *)
SaveOpens ==
    /\ pc = "save"
    /\ file' = Torn
    /\ pc' = "write"
    /\ UNCHANGED <<where, saved, mem, applied, repairs, lessons>>

SaveWrites ==
    /\ pc = "write"
    /\ file' = Stored(mem) /\ saved' = mem
    /\ pc' = "solve"
    /\ UNCHANGED <<where, mem, applied, repairs, lessons>>

SaveFails ==
    /\ pc \in {"save", "write"}
    /\ pc' = "solve"
    /\ UNCHANGED <<where, store, mem, applied, repairs, lessons>>

(* _one_run turns an exception of the pipeline into a failed result; the   *)
(* next sample of the case goes on with the same orchestrator.             *)
SampleRaises ==
    /\ pc \in {"sample", "solve", "repair"}
    /\ pc' = "next"
    /\ fresh' = FALSE
    /\ UNCHANGED <<where, store, mem, applied, repairs, margins>>

NextSample ==
    /\ pc = "next"
    /\ sample < NSamples
    /\ pc' = "sample"
    /\ sample' = sample + 1
    /\ applied' = {}
    /\ UNCHANGED <<launch, plan, arm, case, store, mem, repairs, lessons>>

(* The last sample: _run_set takes the next case, with an orchestrator of  *)
(* its own, or the run ends and the next one of the plan begins.           *)
NextCase ==
    /\ pc = "next"
    /\ sample = NSamples
    /\ \/ case < NCases /\ case' = case + 1 /\ pc' = "orch"
       \/ /\ case = NCases
          /\ pc' = IF arm < Len(plan) THEN "arm" ELSE "done"
          /\ UNCHANGED case
    /\ applied' = {}
    /\ UNCHANGED <<launch, plan, arm, sample, store, mem, repairs, lessons>>

Ended == {"done", "failed", "killed"}

Killed ==
    /\ pc \notin Ended
    /\ pc' = "killed"
    /\ UNCHANGED <<where, store, mem, applied, repairs, lessons>>

(* A new process: only the file is left of what was learned.               *)
Relaunch ==
    /\ pc \in Ended
    /\ launch < MaxLaunches
    /\ launch' = launch + 1 /\ plan' \in Plans
    /\ arm' = 0 /\ case' = 1 /\ sample' = 1
    /\ pc' = "arm"
    /\ mem' = {} /\ applied' = {} /\ repairs' = 0 /\ margins' = <<>> /\ fresh' = FALSE
    /\ UNCHANGED store

Next == \/ StartArm \/ MakeOrchestrator \/ StartSample \/ Solve \/ Repair
        \/ SaveOpens \/ SaveWrites \/ SaveFails \/ SampleRaises \/ NextSample
        \/ NextCase \/ Killed \/ Relaunch

Spec == Init /\ [][Next]_vars

-----------------------------------------------------------------------------
(* Properties.                                                             *)

TypeOK ==
    /\ launch \in 1..MaxLaunches /\ plan \in Plans /\ arm \in 0..Len(plan)
    /\ case \in 1..NCases /\ sample \in 1..NSamples
    /\ pc \in {"arm", "orch", "sample", "solve", "repair", "save", "write",
               "next"} \cup Ended
    /\ file.obs \subseteq Observations
    /\ file \in {Absent, Torn, Stored(file.obs)}
    /\ mem \subseteq Observations /\ applied \subseteq Observations
    /\ saved \subseteq Observations
    /\ margins \in Seq(Margins) /\ Len(margins) <= MaxObs
    /\ repairs \in 0..MaxRepairs
    /\ fresh \in BOOLEAN /\ (fresh => margins # <<>>)

Running == pc \in {"solve", "repair", "save", "write", "next"}
OfThisArm(o) == o.launch = launch /\ o.arm = arm
OfThisCase(o) == OfThisArm(o) /\ o.case = case

(* The rules a cleared run applies rest on repairs of that run alone,      *)
(* whatever earlier runs and launches, killed ones too, left in the file.  *)
ColdStart == Running /\ Clear => \A o \in applied \cup mem : OfThisArm(o)

(* no_rule_store applies no rule learned outside the case: only another    *)
(* sample of the same case can have taught it.                             *)
NullModeBlind == Running /\ Mode = Null => \A o \in applied : OfThisCase(o)

(* Without clearing and outside the Null mode, a completed save never      *)
(* drops an observation an earlier one had put in the file.                *)
LearningKept ==
    [][saved' # saved /\ pc = "write" /\ Mode # Null => saved \subseteq saved']_vars

(* A file torn by a kill or a failure in the middle of save() stops every  *)
(* launch that reads it, but no cleared run at its first case, whatever    *)
(* was left behind: later in the run only a save of its own can have torn  *)
(* the file.                                                               *)
ClearingRecovers == pc = "failed" /\ Clear => case > 1

-----------------------------------------------------------------------------
(* What the documentation says, and the code does not keep.                *)

(* PIPELINE.md on no_rule_store: "Store not written to during the run".    *)
NullModeNeverWrites ==
    [][arm > 0 /\ pc \in {"save", "write"} /\ Mode = Null => file' = file]_vars

(* _run_multi: "every run starts from a cold rule store and results are    *)
(* statistically independent".  The margin model is not reset.             *)
RunsIndependent ==
    Running /\ Clear /\ Len(margins) >= MinObs =>
        \A i \in DOMAIN margins : margins[i].arm = arm

(* The caveat written into every multi_run_summary: "FailureRuleStore      *)
(* accumulates knowledge across runs in multi-run mode. Later runs may     *)
(* benefit from rules learned in earlier runs".  Unless --accumulate-rules *)
(* is given, the next run of a launch begins by deleting them.             *)
RulesAccumulate == [][arm > 0 /\ arm' = arm + 1 => file.obs \subseteq file'.obs]_vars

(* margin_model.py: "learned from successful repair outcomes".  What the   *)
(* recorder asks is the IR validator, before the solver has seen the fix.  *)
MarginsFromSuccess == \A i \in DOMAIN margins : ~margins[i].refuted

=============================================================================
