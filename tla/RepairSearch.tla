---------------------------- MODULE RepairSearch ----------------------------
(***************************************************************************)
(* The repair agent's search for operating conditions                      *)
(* (agents/stage4/repair_agent.py): one error is repaired in a single      *)
(* step, several by a beam search (agents/stage4/beam_search.py) under the *)
(* explore/exploit scheduler (agents/stage4/explore_exploit.py).  Both     *)
(* consult RepairMemory, which keeps the last attempts at every unit and   *)
(* lives as long as the run.                                               *)
(*                                                                         *)
(* A target is a unit's parameter that an error asks to change (stream     *)
(* targets and errors whose parameter cannot be inferred make no attempt   *)
(* and are left out).  Which values the generators propose in a graph,     *)
(* which of them win, and what the consistency pass and the optimiser do   *)
(* to a graph is data.                                                     *)
(***************************************************************************)
EXTENDS Integers, Sequences, FiniteSets

CONSTANTS
    Units, Params, Values,
    Targets,      \* the <<unit, parameter>> pairs that errors are about
    Rounded,      \* round(value, 2)
    Offers,       \* what the generators may propose for a target in a graph
    ErrorSets,    \* the sets of targets of a result's CONDITION_FIX errors
    FailedSets,   \* the sets of units that a result names as failed
    Faulty,       \* the <<target, value>> pairs that validation rejects
    Coupled,      \* how much a target just fixed boosts the other units
    Settles,      \* targets that consistency and settling may then rewrite
    Tunings,      \* graphs that coordinate descent may arrive at
    Starts,       \* graphs that a run may hand over to repair first
    UseLlm,       \* FALSE is disable_llm
    MaxHistory,   \* _MAX_HISTORY_PER_TAG (20 in the code)
    Width, Depth, \* beam_width and beam_depth (3 and 2 in the code)
    MaxRepairs    \* bound: repairs of one run, the driver's budget

Graphs == [Targets -> Values]

ASSUME TargetsAssumption == Targets \subseteq Units \X Params /\ IsFiniteSet(Targets)
ASSUME DataAssumption ==
    /\ Rounded \in [Values -> Values]
    /\ Offers \subseteq [Graphs -> [Targets -> SUBSET {v \in Values : Rounded[v] = v}]]
    /\ ErrorSets \subseteq SUBSET Targets
    /\ FailedSets \subseteq SUBSET Units
    /\ Starts \subseteq Graphs /\ Tunings \subseteq Graphs
    /\ Coupled \in [Targets -> [Units -> Nat]]
    /\ Settles \in [Targets -> SUBSET Targets]
ASSUME LimitsAssumption ==
    /\ UseLlm \in BOOLEAN
    /\ MaxHistory \in Nat /\ MaxRepairs \in Nat
    /\ Width \in Nat \ {0} /\ Depth \in Nat \ {0}

VARIABLES
    graph,    \* the operating conditions of the flowsheet's IR
    log,      \* every attempt recorded; RepairMemory keeps Remembered(u) of it
    repairs,  \* RepairMemory._iteration
    pc,       \* idle (the driver solves), repair, beam
    task,     \* what repair() was called with
    beam,     \* the beam's states
    step,     \* search steps made
    clean,    \* the best state has neither errors nor warnings
    sched     \* the scheduler of this search

search == <<beam, step, clean, sched>>
vars == <<graph, log, repairs, pc, task, beam, step, clean, sched>>

-----------------------------------------------------------------------------
(* RepairMemory.                                                           *)

Attempts(u) == {i \in DOMAIN log : log[i].unit = u}

(* A log trimmed as one, not per unit. *)
RememberedOverall(u) ==
    {i \in Attempts(u) : Cardinality({j \in DOMAIN log : i < j}) < MaxHistory}

(* What trimming leaves: attempts followed by fewer than MaxHistory others *)
(* at the same unit, whatever parameter those were about.                  *)
Remembered(u) ==
    {i \in Attempts(u) : Cardinality({j \in Attempts(u) : i < j}) < MaxHistory}

TriesOf(t) == {i \in Remembered(t[1]) : log[i].param = t[2]}
(* The parameter of an attempt overlooked. *)
TriedOnUnit(t) == {log[i].value : i \in Remembered(t[1])}

Tried(t) == {log[i].value : i \in TriesOf(t)}

(* Stamped before the tick. *)
AttemptUnticked(t, v) ==
    [unit |-> t[1], param |-> t[2], value |-> v, iteration |-> repairs - 1]

Attempt(t, v) ==
    [unit |-> t[1], param |-> t[2], value |-> v, iteration |-> repairs]

-----------------------------------------------------------------------------
(* Candidates for a target, each not tried before.  The generators round   *)
(* what they propose and what was tried; the LLM's value is compared as it *)
(* is, and recorded as it is.                                              *)

Candidates(g, t) == task.offer[g][t] \ {Rounded[v] : v \in Tried(t)}

(* The model is asked twice and may fail to give a new admissible value.   *)
LlmValues(t) == IF UseLlm THEN Values \ Tried(t) ELSE {}

(* Errors of IR validation. *)
NErrors(g) == Cardinality({t \in Targets : <<t, g[t]>> \in Faulty})

-----------------------------------------------------------------------------
(* ExploreExploitScheduler.                                                *)

StagnationWindow == 2
RecoveryWindow == 2
ExplorationSteps == IF Depth > 1 THEN Depth - 1 ELSE 1
NoErrorsYet == -1

(* The phase a scheduler without an exploration budget would start in. *)
NewSchedulerExploiting ==
    [steps |-> 0, last |-> NoErrorsYet, stagnant |-> 0, improving |-> 0,
     phase |-> "exploit"]

NewScheduler ==
    [steps |-> 0, last |-> NoErrorsYet, stagnant |-> 0, improving |-> 0,
     phase |-> "explore"]

Counted(s, n) ==
    IF s.last = NoErrorsYet THEN s
    ELSE IF n < s.last
    THEN [s EXCEPT !.improving = @ + 1, !.stagnant = 0]
    ELSE [s EXCEPT !.stagnant = @ + 1, !.improving = 0]

PhaseOf(s) ==
    IF s.stagnant >= StagnationWindow THEN "exploit"
    ELSE IF s.improving >= RecoveryWindow THEN "explore"
    ELSE s.phase

Updated(s, n) ==
    IF s.steps + 1 <= ExplorationSteps
    THEN [s EXCEPT !.steps = @ + 1, !.last = n, !.phase = "explore"]
    ELSE LET c == Counted(s, n)
         IN  [c EXCEPT !.steps = @ + 1, !.last = n, !.phase = PhaseOf(c)]

EffectiveWidth(s) == IF s.phase = "explore" THEN Width + 2 ELSE Width

-----------------------------------------------------------------------------
(* Beam states: a graph and the fixes that led to it.                      *)

Fix(t, v) == [target |-> t, value |-> v]
Recorded(trajectory) ==
    [i \in DOMAIN trajectory |-> Attempt(trajectory[i].target, trajectory[i].value)]

FixedTags(s) == {s.trajectory[i].target[1] : i \in DOMAIN s.trajectory}
(* Fixed errors told apart by their parameter. *)
UnfixedTargets(s) ==
    {t \in task.errors : \A i \in DOMAIN s.trajectory : s.trajectory[i].target # t}

Unfixed(s) == {t \in task.errors : t[1] \notin FixedTags(s)}

BoostOf(s, t) ==
    IF s.trajectory = <<>> THEN 0
    ELSE Coupled[s.trajectory[Len(s.trajectory)].target][t[1]]

Boosted(s) ==
    {t \in Unfixed(s) : \A o \in Unfixed(s) : BoostOf(s, o) <= BoostOf(s, t)}

(* The order of _pick_target: most coupled to the last fix, failed in the  *)
(* simulation, most tried; the finer criteria are data.                    *)
Picked(s) ==
    LET failed == {t \in Boosted(s) : t[1] \in task.failed}
        first == IF failed = {} THEN Boosted(s) ELSE failed
    IN  {t \in first : \A o \in first :
            Cardinality(TriesOf(o)) <= Cardinality(TriesOf(t))}

(* A state that nothing can be proposed for is passed through unchanged.   *)
Passes(s) == Unfixed(s) = {} \/ \E t \in Picked(s) : Candidates(s.graph, t) = {}

(* The graph after the consistency pass and the coupled settler. *)
Settled(g, t) ==
    {h \in Graphs : \A o \in Targets \ Settles[t] : h[o] = g[o]}

FixesOf(s, t, v) ==
    {[graph |-> h, trajectory |-> Append(s.trajectory, Fix(t, v))] :
        h \in Settled([s.graph EXCEPT ![t] = v], t)}

Successors(s) ==
    (IF Passes(s) THEN {s} ELSE {})
    \cup UNION {UNION {FixesOf(s, t, v) :
                            v \in Candidates(s.graph, t) \cup LlmValues(t)} :
                    t \in Picked(s)}

-----------------------------------------------------------------------------

Idle == [errors |-> {}, several |-> FALSE,
         offer |-> [g \in Graphs |-> [t \in Targets |-> {}]], failed |-> {}]
Start(g) == [graph |-> g, trajectory |-> <<>>]

Init ==
    /\ graph \in Starts
    /\ log = <<>> /\ repairs = 0
    /\ pc = "idle" /\ task = Idle
    /\ beam = {} /\ step = 0 /\ clean = FALSE /\ sched = NewScheduler

(* The driver ticks the memory, solves, classifies and calls repair().     *)
(* Several errors may be about one target.                                 *)
Solve ==
    /\ pc = "idle" /\ repairs < MaxRepairs
    /\ repairs' = repairs + 1
    /\ \E errors \in ErrorSets, several \in BOOLEAN,
          offer \in Offers, failed \in FailedSets :
        /\ several => errors # {}
        /\ ~several => \A t, o \in errors : t = o
        /\ task' = [errors |-> errors, several |-> several,
                     offer |-> offer, failed |-> failed]
    /\ pc' = "repair"
    /\ UNCHANGED <<graph, log, search>>

(* _search_condition_fix: the candidate with the best score is applied and *)
(* recorded; errors weigh more than everything else in the score.          *)
SingleFix ==
    /\ pc = "repair" /\ ~task.several
    /\ \E t \in task.errors :
        \E v \in Candidates(graph, t) \cup LlmValues(t) :
            /\ \A w \in Candidates(graph, t) :
                NErrors([graph EXCEPT ![t] = v]) <= NErrors([graph EXCEPT ![t] = w])
            /\ graph' = [graph EXCEPT ![t] = v]
            /\ log' = log \o Recorded(<<Fix(t, v)>>)
    /\ pc' = "idle"
    /\ UNCHANGED <<repairs, task, search>>

SingleFindsNothing ==
    /\ pc = "repair" /\ ~task.several
    /\ \A t \in task.errors : Candidates(graph, t) = {}
    /\ pc' = "idle"
    /\ UNCHANGED <<graph, log, repairs, task, search>>

StartSearch ==
    /\ pc = "repair" /\ task.several
    /\ beam' = {Start(graph)}
    /\ pc' = "beam"
    /\ UNCHANGED <<graph, log, repairs, task, step, clean, sched>>

(* Every state of the beam is expanded; the best and the most diverse of   *)
(* the rest are kept.  The search ends early on a clean state.             *)
BeamStep ==
    /\ pc = "beam" /\ step < Depth /\ ~clean
    /\ beam' \in SUBSET UNION {Successors(s) : s \in beam}
    /\ \E n \in 1..EffectiveWidth(sched) : Cardinality(beam') = n
    /\ \E best \in beam' :
        /\ sched' = Updated(sched, NErrors(best.graph))
        /\ clean' \in {FALSE, NErrors(best.graph) = 0}
    /\ step' = step + 1
    /\ UNCHANGED <<graph, log, repairs, pc, task>>

(* What coordinate descent makes of the winner: never more errors.         *)
Tuned(g) == {g} \cup {h \in Tunings : NErrors(h) <= NErrors(g)}

FinishSearch ==
    /\ pc = "beam" /\ (step = Depth \/ clean)
    /\ \E best \in beam :
        /\ clean => NErrors(best.graph) = 0
        /\ log' = log \o Recorded(best.trajectory)
        /\ graph' \in Tuned(best.graph)
    /\ pc' = "idle"
    /\ beam' = {} /\ step' = 0 /\ clean' = FALSE /\ sched' = NewScheduler
    /\ UNCHANGED <<repairs, task>>

Next ==
    \/ Solve \/ SingleFix \/ SingleFindsNothing
    \/ StartSearch \/ BeamStep \/ FinishSearch

Spec == Init /\ [][Next]_vars

-----------------------------------------------------------------------------
(* Properties.                                                             *)

BeamStates ==
    [graph : Graphs, trajectory : Seq([target : Targets, value : Values])]
Phases == {"explore", "exploit"}

(* Every variable has its type; in particular beam states are graphs with  *)
(* a trajectory of fixes, and an attempt is stamped with the repair it was *)
(* made in (_AttemptRecord.iteration).                                     *)
TypeOK ==
    /\ graph \in Graphs
    /\ log \in Seq([unit : Units, param : Params, value : Values,
                    iteration : 1..MaxRepairs])
    /\ repairs \in 0..MaxRepairs
    /\ pc \in {"idle", "repair", "beam"}
    /\ task \in [errors : SUBSET Targets, several : BOOLEAN,
                 offer : [Graphs -> [Targets -> SUBSET Values]], failed : SUBSET Units]
    /\ beam \in SUBSET BeamStates
    /\ step \in 0..Depth /\ clean \in BOOLEAN
    /\ sched \in [steps : 0..Depth, last : Nat \cup {NoErrorsYet},
                  stagnant : Nat, improving : Nat, phase : Phases]

Same(a, b) == a.unit = b.unit /\ a.param = b.param /\ a.value = b.value

(* A value is tried again on a parameter only after MaxHistory other       *)
(* attempts at that unit: neither the beam, which records only its winner, *)
(* nor attempts at other units make the memory forget earlier.             *)
RetriedOnlyWhenForgotten ==
    \A i, j \in DOMAIN log :
        i < j /\ Same(log[i], log[j]) =>
            Cardinality({k \in Attempts(log[i].unit) : i < k /\ k < j}) >= MaxHistory

(* One repair() call makes at most one attempt at a unit, though the beam  *)
(* takes several steps and a unit may have errors about both parameters:   *)
(* the memory of a unit cannot turn over within a search.                  *)
OneAttemptPerRepair ==
    \A i, j \in DOMAIN log :
        i # j /\ log[i].unit = log[j].unit => log[i].iteration # log[j].iteration

HadValue(t, v) ==
    \E i \in DOMAIN log :
        /\ log[i].unit = t[1] /\ log[i].param = t[2]
        /\ Rounded[log[i].value] = v

(* A call that has errors and records no attempt found some target of them *)
(* with all values offered in this graph tried, up to rounding, for that   *)
(* very parameter: the candidate filter never hides a value this parameter *)
(* has not had, and a fix that the beam applies is always recorded.        *)
SilentOnlyWhenExhausted ==
    [][pc # "idle" /\ pc' = "idle" /\ log' = log /\ task.errors # {} =>
        \E t \in task.errors : \A v \in task.offer[graph][t] : HadValue(t, v)]_vars

(* The scheduler is in its exploration phase whenever a step reads it: the *)
(* budget of max(1, depth - 1) forced steps outlasts every search, so the  *)
(* hysteresis counters and the narrow beam of EXPLOIT never take effect.   *)
AlwaysExploring == pc = "beam" /\ step < Depth => sched.phase = "explore"

(* What graph_pipeline.py says of a STALLED run: the repair changed no     *)
(* parameter because it "has no applicable action".                        *)
NoopMeansNothingLeft ==
    [][pc # "idle" /\ pc' = "idle" /\ graph' = graph =>
        \A t \in task.errors : Candidates(graph, t) = {}]_vars

(* What benchmark/ablation.py says of its greedy mode: beam_width=1 is     *)
(* "single-candidate repair, no beam search".                              *)
GreedyKeepsOne == Width = 1 => Cardinality(beam) <= 1
=============================================================================
