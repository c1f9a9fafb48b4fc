----------------------------- MODULE Execution -----------------------------
(***************************************************************************)
(* agents/executor.py over dwsim/dwsim_wrapper.py: Executor.run checks a   *)
(* flowsheet, builds it object by object in a DWSIM flowsheet of its own,  *)
(* and solves it in a daemon thread that is waited for no longer than a    *)
(* timeout and cannot be stopped: a pass that was given up goes on         *)
(* calculating beside everything that follows.  A shortcut column whose    *)
(* reflux is below its minimum gets a second pass.                         *)
(*                                                                         *)
(* Values are abstracted to what the checks tell apart: which parameters   *)
(* are given, which of them are out of range.  What DWSIM answers is open. *)
(***************************************************************************)
EXTENDS Naturals, Sequences, FiniteSets

CONSTANTS
    Flowsheets,   \* flowsheets run() is called with
    MaxRuns,      \* bound: calls of run() in one process
    None          \* Python's None

ASSUME RunsAssumption == MaxRuns \in Nat

VARIABLES
    pc,        \* where Executor.run is; "idle" between two calls
    runs,      \* calls of run() so far
    sims,      \* the DWSIMFlowsheet objects created, oldest first
    passes,    \* the solver threads started, oldest first
    tries,     \* solver passes of this call
    waits,     \* timeouts this call has waited out
    answer,    \* what _solve_once returned to solve()
    result     \* the ExecutionResult of the last call

solver == <<passes, tries, waits, answer>>
vars == <<pc, runs, sims, solver, result>>

-----------------------------------------------------------------------------
(* pre_execution_check                                                     *)

Mapped == {"Raoult's Law", "NRTL", "UNIQUAC", "Peng-Robinson",
           "Soave-Redlich-Kwong", "Lee-Kesler-Ploecker"}
ActivityModels == {"NRTL", "UNIQUAC"}

PressureChangers == {"Pump", "Compressor", "Expander"}
Exchangers == {"Heater", "Cooler"}

RequiredParams(type) ==
    CASE type \in Exchangers       -> {"T_out"}
      [] type \in PressureChangers -> {"P_out"}
      [] type = "Splitter"         -> {"split_fractions"}
      [] OTHER                     -> {}

RangeChecked(type) ==
    CASE type \in Exchangers       -> {"T_out"}
      [] type \in PressureChangers -> {"efficiency"}
      [] type = "Splitter"         -> {"split_fractions"}
      [] OTHER                     -> {}

Streams(f) == DOMAIN f.streams
Units(f) == DOMAIN f.units
FeedTags(f) == {s \in Streams(f) : \A w \in f.wires : w[2] # s}

PackagesMapped(f) ==
    f.package \in Mapped /\ \A u \in Units(f) : f.units[u].package \in Mapped \cup {None}

FeedSpecified(f, s) ==
    /\ f.streams[s].given = {"T", "P", "flow"}
    /\ f.compounds \subseteq f.streams[s].mole
    /\ f.streams[s].whole

UnitSpecified(u) == RequiredParams(u.type) \subseteq u.given
UnitInRange(u) == RangeChecked(u.type) \cap u.absurd = {}

ThroughStreams(f) == \A w \in f.wires : ~(w[1] \in Units(f) /\ w[2] \in Units(f))

(* A stream without connections counts as a feed: only units are found     *)
(* isolated.                                                               *)
Isolated(f) == {t \in (Streams(f) \cup Units(f)) \ FeedTags(f) :
                    \A w \in f.wires : t # w[1] /\ t # w[2]}

PreCheck(f) ==
    /\ PackagesMapped(f)
    /\ FeedTags(f) # {} /\ \A s \in FeedTags(f) : FeedSpecified(f, s)
    /\ \A u \in Units(f) : UnitSpecified(f.units[u]) /\ UnitInRange(f.units[u])
    /\ ThroughStreams(f)
    /\ Isolated(f) = {}

-----------------------------------------------------------------------------
(* The flowsheet object and the setters of the wrapper.                    *)

UnitTypes == Exchangers \cup PressureChangers \cup
             {"Vessel", "Mixer", "Splitter", "Column", "Decanter", "ConversionReactor"}

Columns(f) == {u \in Units(f) : f.units[u].type = "Column"}

NewSim(f) ==
    [of |-> f, compounds |-> {}, packages |-> {}, estimating |-> {}, refused |-> FALSE,
     objects |-> {}, wires |-> {}, configured |-> {}, reacting |-> {},
     reflux |-> [c \in Columns(f) |-> "unknown"], raised |-> {}, converged |-> FALSE]

(* What _set_unit_conditions indexes: a missing key is an error.           *)
SetterNeeds(type) ==
    CASE type = "ConversionReactor" -> {"temperature_K", "pressure_Pa", "conversion"}
      [] type = "Column" -> {"light_key", "heavy_key", "light_key_frac_bottoms",
                             "heavy_key_frac_distillate", "reflux_ratio",
                             "condenser_pressure_Pa", "boiler_pressure_Pa"}
      [] OTHER -> RequiredParams(type)

(* These setters pass any value on to DWSIM; set_column refuses keys that  *)
(* are equal or not among the compounds.                                   *)
Trusting == Exchangers \cup PressureChangers \cup {"Vessel", "Splitter"}
KeysSeparate(u) == {"light_key", "heavy_key"} \cap u.absurd = {}

Settable(u) ==
    /\ SetterNeeds(u.type) \subseteq u.given
    /\ u.type \in Trusting \cup {"Mixer", "Decanter", "ConversionReactor"}
          \/ (u.type = "Column" /\ KeysSeparate(u))

(* _setup_conversion_reaction: an equation that does not parse, or a       *)
(* refusal of DWSIM, leaves the reactor without its reaction, and          *)
(* set_conversion_reactor goes on.                                         *)
Parses(u) == "reaction" \in u.given \ u.absurd
MayReact(f) == {u \in Units(f) : f.units[u].type = "ConversionReactor" /\ Parses(f.units[u])}

AnyUnit(f) == TRUE
AllSettable(f) == \A u \in Units(f) : Settable(f.units[u])

(* CreateAndAddPropertyPackage leaves the estimator of a package on.       *)
WithPackage(sim, p) ==
    IF p \in sim.packages THEN sim
    ELSE [sim EXCEPT !.packages = @ \cup {p},
                     !.estimating = @ \cup ({p} \cap ActivityModels)]

HasDecanter(f) == \E u \in Units(f) : f.units[u].type = "Decanter"
MustNotEstimate(f) == f.package \in ActivityModels /\ f.bips = {} /\ ~HasDecanter(f)

Overrides(f) == {f.units[u].package : u \in Units(f)} \ {None, f.package}

-----------------------------------------------------------------------------
Current == Len(sims)
Sim == sims[Current]
Sheet == Sim.of

Failure(stage, sim) ==
    [solved |-> FALSE, stage |-> stage, sim |-> sim, by |-> 0, clean |-> FALSE]

Answers(r) == pc' = "idle" /\ result' = r

(* A build stage: every call of it succeeds, or one raises and run()       *)
(* returns.  `possible` is what the inputs leave to DWSIM to decide.       *)
Stage(stage, reported, possible, sim, next) ==
    /\ pc = stage
    /\ \/ possible /\ pc' = next /\ sims' = [sims EXCEPT ![Current] = sim] /\ UNCHANGED result
       \/ Answers(Failure(reported, Current)) /\ UNCHANGED sims
    /\ UNCHANGED <<runs, solver>>

Init ==
    /\ pc = "idle" /\ runs = 0
    /\ sims = <<>> /\ passes = <<>>
    /\ tries = 0 /\ waits = 0
    /\ answer = None /\ result = None

Run(f) ==
    /\ pc = "idle" /\ runs < MaxRuns
    /\ runs' = runs + 1
    /\ tries' = 0 /\ waits' = 0 /\ answer' = None
    /\ IF PreCheck(f)
         THEN pc' = "compounds" /\ sims' = Append(sims, NewSim(f)) /\ result' = None
         ELSE Answers(Failure("pre_execution", 0)) /\ UNCHANGED sims
    /\ UNCHANGED passes

(* AddCompound raises for an unknown name and the wrapper goes on: what    *)
(* DWSIM has selected is compared with what was asked for.                 *)
AddCompounds ==
    /\ pc = "compounds"
    /\ \E known \in SUBSET Sheet.compounds :
        Stage("compounds", "add_compounds", known = Sheet.compounds,
              [Sim EXCEPT !.compounds = known], "package")

SetPropertyPackage ==
    Stage("package", "set_property_package", TRUE, WithPackage(Sim, Sheet.package),
          "estimator")

(* A refusal is only noted in early_warnings, which no result carries.     *)
EstimatorAsked(sim, off) ==
    [sim EXCEPT !.estimating = IF off THEN @ \ {sim.of.package} ELSE @, !.refused = ~off]

DisableAutoEstimate ==
    /\ pc = "estimator"
    /\ IF MustNotEstimate(Sheet)
         THEN \E off \in BOOLEAN : sims' = [sims EXCEPT ![Current] = EstimatorAsked(Sim, off)]
         ELSE UNCHANGED sims
    /\ pc' = "parameters"
    /\ UNCHANGED <<runs, solver, result>>

(* A pair needs the package of its own model, which stops estimating.      *)
Injected(sim, models) == [sim EXCEPT !.estimating = @ \ models]

InjectParameters ==
    Stage("parameters", "binary_parameter_injection", Sheet.bips \subseteq Sim.packages,
          Injected(Sim, Sheet.bips), "streams")

(* _auto_layout looks every source of a connection up, outside any try.    *)
LayoutWorks == \A w \in Sheet.wires : w[1] \in Streams(Sheet) \cup Units(Sheet)

AddStreams ==
    Stage("streams", IF LayoutWorks THEN "add_streams" ELSE "build_or_solve", LayoutWorks,
          [Sim EXCEPT !.objects = @ \cup Streams(Sheet)], "units")

Creatable(f) == \A u \in Units(f) : f.units[u].type \in UnitTypes

AddUnits ==
    Stage("units", "add_units", Creatable(Sheet),
          [Sim EXCEPT !.objects = @ \cup Units(Sheet)], "overrides")

OverridePackages ==
    Stage("overrides", "set_unit_property_packages", TRUE,
          [Sim EXCEPT !.packages = @ \cup Overrides(Sheet),
                      !.estimating = @ \cup ((Overrides(Sheet) \cap ActivityModels) \ Sim.packages)],
          "wiring")

Connect ==
    Stage("wiring", "connect_objects", \A w \in Sheet.wires : {w[1], w[2]} \subseteq Sim.objects,
          [Sim EXCEPT !.wires = Sheet.wires], "recycles")

(* The block stands between the calculated and the assumed tear stream.    *)
WithRecycles(sim, blocks) ==
    [sim EXCEPT !.objects = @ \cup {r.tag : r \in blocks},
                !.wires = @ \cup {<<r.inlet, r.tag>> : r \in blocks}
                            \cup {<<r.tag, r.outlet>> : r \in blocks}]

AddRecycleBlocks ==
    Stage("recycles", "add_recycle_blocks",
          \A r \in Sheet.recycles : {r.inlet, r.outlet} \subseteq Sim.objects,
          WithRecycles(Sim, Sheet.recycles), "feeds")

Feedable(s) == Sheet.streams[s].mole \subseteq Sim.compounds

SetFeeds ==
    Stage("feeds", "set_stream_conditions", \A s \in FeedTags(Sheet) : Feedable(s),
          [Sim EXCEPT !.configured = @ \cup FeedTags(Sheet)], "conditions")

SetUnitConditions ==
    /\ pc = "conditions"
    /\ \E reacting \in SUBSET MayReact(Sheet) :
        Stage("conditions", "set_unit_conditions", AllSettable(Sheet),
              [Sim EXCEPT !.configured = @ \cup {u \in Units(Sheet) : Settable(Sheet.units[u])},
                          !.reacting = reacting],
              "solve")

Build ==
    \/ AddCompounds \/ SetPropertyPackage \/ DisableAutoEstimate \/ InjectParameters
    \/ AddStreams \/ AddUnits \/ OverridePackages \/ Connect \/ AddRecycleBlocks
    \/ SetFeeds \/ SetUnitConditions

-----------------------------------------------------------------------------
(* The solver threads.                                                     *)

Unfinished == {"calculating", "converging", "harvesting"}

(* Threads counted by calls, though a refused call creates no flowsheet.   *)
StartPassOfRun ==
    /\ pc = "solve"
    /\ passes' = Append(passes, [sim |-> runs, phase |-> "calculating", found |-> None])
    /\ tries' = tries + 1
    /\ pc' = "join"
    /\ UNCHANGED <<runs, sims, waits, answer, result>>

StartPass ==
    /\ pc = "solve"
    /\ passes' = Append(passes, [sim |-> Current, phase |-> "calculating", found |-> None])
    /\ tries' = tries + 1
    /\ pc' = "join"
    /\ UNCHANGED <<runs, sims, waits, answer, result>>

(* m_Rmin against m_refluxratio, as a column computes it on the way:       *)
(* met, below the minimum, above the limit of 20, or not a number.         *)
RefluxStates == {"met", "below", "limit", "degenerate"}

ColumnsCalculated(i) ==
    /\ passes[i].phase = "calculating"
    /\ passes' = [passes EXCEPT ![i].phase = "converging"]
    /\ \E r \in [DOMAIN sims[passes[i].sim].reflux -> RefluxStates] :
           sims' = [sims EXCEPT ![passes[i].sim].reflux = r]
    /\ UNCHANGED <<pc, runs, tries, waits, answer, result>>

CalculationReturns(i) ==
    /\ passes[i].phase = "converging"
    /\ passes' = [passes EXCEPT ![i].phase = "harvesting"]
    /\ LET s == passes[i].sim
       IN  \E b \in BOOLEAN :
             /\ b => \A c \in DOMAIN sims[s].reflux : sims[s].reflux[c] = "met"
             /\ sims' = [sims EXCEPT ![s].converged = b]
    /\ UNCHANGED <<pc, runs, tries, waits, answer, result>>

(* CalculateFlowsheet and its fallback CalculateFlowsheet2 both raise.     *)
CalculationRaises(i) ==
    /\ passes[i].phase \in {"calculating", "converging"}
    /\ passes' = [passes EXCEPT ![i].phase = "raised"]
    /\ UNCHANGED <<pc, runs, sims, tries, waits, answer, result>>

(* The thread reads Solved and the streams from the flowsheet object and   *)
(* leaves them in the box of its own pass.                                 *)
Harvests(i) ==
    /\ passes[i].phase = "harvesting"
    /\ passes' = [passes EXCEPT ![i].phase = "done",
                                ![i].found = sims[passes[i].sim].converged]
    /\ UNCHANGED <<pc, runs, sims, tries, waits, answer, result>>

Worker(i) == ColumnsCalculated(i) \/ CalculationReturns(i) \/ CalculationRaises(i) \/ Harvests(i)

-----------------------------------------------------------------------------
(* solve(): wait, tune the reflux once, wait again.                        *)

FinishedPasses == {i \in DOMAIN passes : passes[i].phase \in {"done", "raised"}}

(* One box for all passes: whoever is done first answers.                  *)
SharedPass == IF FinishedPasses = {} THEN Len(passes)
              ELSE CHOOSE i \in FinishedPasses : \A j \in FinishedPasses : i <= j

OwnPass == Len(passes)

Found(solved, by) == [solved |-> solved, by |-> by]

AfterJoinAgain == "tune"

(* The second answer is final; the first goes to _adjust_column_reflux.    *)
AfterJoin == IF tries = 1 THEN "tune" ELSE "read"

JoinReturns ==
    /\ pc = "join"
    /\ OwnPass \in FinishedPasses
    /\ IF passes[OwnPass].phase = "raised"
         THEN Answers(Failure("build_or_solve", Current)) /\ UNCHANGED answer
         ELSE /\ answer' = Found(passes[OwnPass].found, OwnPass)
              /\ pc' = AfterJoin
              /\ UNCHANGED result
    /\ UNCHANGED <<runs, sims, passes, tries, waits>>

JoinNeverTimesOut == FALSE

JoinTimesOut ==
    /\ pc = "join"
    /\ OwnPass \notin FinishedPasses
    /\ answer' = Found(FALSE, OwnPass)
    /\ waits' = waits + 1
    /\ pc' = AfterJoin
    /\ UNCHANGED <<runs, sims, passes, tries, result>>

With(states) == {c \in DOMAIN Sim.reflux : Sim.reflux[c] \in states}

(* _adjust_column_reflux, after a pass that did not solve - or that is     *)
(* still running: R = 1.3 Rmin where that is enough, a clean failure where *)
(* one column cannot be helped, else the answer stands.                    *)
Tune ==
    /\ pc = "tune"
    /\ IF answer.solved
         THEN pc' = "read" /\ UNCHANGED <<sims, answer>>
         ELSE /\ sims' = [sims EXCEPT ![Current].raised = @ \cup With({"below"})]
              /\ answer' = IF With({"limit", "degenerate"}) # {} THEN Found(FALSE, OwnPass) ELSE answer
              /\ pc' = IF With({"limit", "degenerate"}) = {} /\ With({"below"}) # {}
                         THEN "solve" ELSE "read"
    /\ UNCHANGED <<runs, passes, tries, waits, result>>

(* Streams are checked for physical values and, without recycle blocks,    *)
(* moles in against moles out: a reaction that changes the number of moles *)
(* is an error.  Errors do not make the result unsolved.                   *)
PostCheck(sim) ==
    {ok \in BOOLEAN : ok /\ sim.of.recycles = {} =>
        \A u \in sim.reacting : ~sim.of.units[u].changesMoles}

Read ==
    /\ pc = "read"
    /\ IF answer.solved
         THEN \E ok \in PostCheck(Sim) :
                Answers([solved |-> TRUE, stage |-> "complete", sim |-> Current,
                         by |-> answer.by, clean |-> ok])
         ELSE Answers([Failure("solve", Current) EXCEPT !.by = answer.by])
    /\ UNCHANGED <<runs, sims, solver>>

Main == Build \/ StartPass \/ JoinReturns \/ JoinTimesOut \/ Tune \/ Read

Next == (\E f \in Flowsheets : Run(f)) \/ Main \/ \E i \in DOMAIN passes : Worker(i)

Spec == Init /\ [][Next]_vars

(* The caller's thread runs and Thread.join returns after its timeout;     *)
(* nothing is assumed of the solver threads.                               *)
FairSpec == Spec /\ WF_vars(Main)

-----------------------------------------------------------------------------
(* Properties.                                                             *)

Places == {"idle", "compounds", "package", "estimator", "parameters", "streams", "units",
           "overrides", "wiring", "recycles", "feeds", "conditions", "solve", "join",
           "tune", "read"}

(* Counters, threads and results have their types; a thread belongs to a   *)
(* flowsheet object that exists.                                           *)
TypeOK ==
    /\ pc \in Places
    /\ runs \in 0..MaxRuns /\ tries \in Nat /\ waits \in Nat
    /\ Len(sims) <= runs
    /\ \A i \in DOMAIN passes :
          /\ passes[i].sim \in DOMAIN sims
          /\ passes[i].phase \in Unfinished \cup {"done", "raised"}
          /\ passes[i].found \in BOOLEAN \cup {None}
    /\ answer # None => answer.solved \in BOOLEAN /\ answer.by \in DOMAIN passes
    /\ result # None => result.solved \in BOOLEAN /\ result.sim \in 0..Len(sims)

(* A verdict comes from a thread that solved the flowsheet the call was    *)
(* given: the late answer of a thread given up earlier is never returned.  *)
OwnAnswer == result # None /\ result.by # 0 => passes[result.by].sim = result.sim

Complete(sim) ==
    /\ sim.compounds = sim.of.compounds
    /\ Streams(sim.of) \cup Units(sim.of) \cup {r.tag : r \in sim.of.recycles} \subseteq sim.objects
    /\ sim.of.wires \subseteq sim.wires
    /\ FeedTags(sim.of) \cup Units(sim.of) \subseteq sim.configured

(* Building is a dozen steps that may each fail half way: a result that    *)
(* says solved is about a flowsheet with every object, connection, recycle *)
(* block, feed and unit condition in place.                                *)
SolvedOnlyComplete == result # None /\ result.solved => Complete(sims[result.sim])

(* run() blocks for at most two solver timeouts.                           *)
AtMostTwoTimeouts == waits <= 2 /\ tries <= 2

(* Every call of run() returns, also when the .NET solver never does.      *)
Answered == pc # "idle" ~> pc = "idle"

-----------------------------------------------------------------------------
(* What comments of the source say, and the code does not keep.            *)

(* "the stuck .NET call continues in the background but the benchmark loop *)
(* proceeds to the next case": it may first start a second thread on the   *)
(* flowsheet object the first one is still calculating.                    *)
StuckMeansNextCase ==
    [][\A i \in DOMAIN passes' \ DOMAIN passes : \A j \in DOMAIN passes :
          passes[j].sim = passes'[i].sim => passes[j].phase \notin Unfinished]_vars

(* "Ensures DWSIM does not silently estimate missing BIPs": a solved       *)
(* result without interaction parameters and without a decanter comes from *)
(* packages that estimate nothing.  Packages of single units are created   *)
(* later with the estimator on, and a refusal to switch it off is noted in *)
(* a list no result carries.                                               *)
NoSilentEstimate ==
    result # None /\ result.solved /\ MustNotEstimate(sims[result.sim].of) =>
        sims[result.sim].estimating = {}

=============================================================================
