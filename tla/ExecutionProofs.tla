--------------------------- MODULE ExecutionProofs ---------------------------
(***************************************************************************)
(* Proofs about Execution, for every set of flowsheets, any number of      *)
(* calls and any number of solver threads left behind: a result is given   *)
(* by a thread that was started for its flowsheet, it says solved only of  *)
(* a flowsheet that is built to the last condition, and a call waits out   *)
(* at most two timeouts.                                                   *)
(***************************************************************************)
EXTENDS Execution, SequenceTheorems, TLAPS

IsSequence(s) == \E S : s \in Seq(S)
Phases == {"calculating", "converging", "harvesting", "done", "raised"}
Threads(V) == [sim : Nat, phase : Phases, found : V]

(* sims and passes are sequences, of whatever DWSIM leaves in the          *)
(* flowsheet objects.                                                      *)
Sequenced == IsSequence(sims) /\ \E V : passes \in Seq(Threads(V))

(* Passes and timeouts of this call at each step of it. *)
Counted ==
    /\ tries \in Nat /\ waits \in Nat /\ waits <= tries
    /\ pc \notin {"idle", "solve", "join", "tune", "read"} => tries = 0
    /\ pc = "solve" => tries <= 1
    /\ pc = "join" => tries \in {1, 2} /\ waits + 1 <= tries
    /\ pc = "tune" => tries = 1
    /\ tries <= 2

(* The newest thread is on the current flowsheet while it is waited for;   *)
(* the answer at hand and the last result are of a thread of their         *)
(* flowsheet.                                                              *)
Owned ==
    /\ pc \in {"join", "tune", "read"} =>
         Len(passes) > 0 /\ passes[Len(passes)].sim = Len(sims)
    /\ pc \in {"tune", "read"} =>
         /\ answer.by \in 1..Len(passes) /\ passes[answer.by].sim = Len(sims)
    /\ result # None /\ result.by # 0 =>
         result.by \in 1..Len(passes) /\ passes[result.by].sim = result.sim

ExecInv == Sequenced /\ Counted /\ Owned

(* What is in place of the current flowsheet at each step: the order of    *)
(* the build stages.                                                       *)
Solving == {"solve", "join", "tune", "read"}
AfterFeeds == Solving \cup {"conditions"}
AfterRecycles == AfterFeeds \cup {"feeds"}
AfterWiring == AfterRecycles \cup {"recycles"}
AfterUnits == AfterWiring \cup {"overrides", "wiring"}
AfterStreams == AfterUnits \cup {"units"}
AfterCompounds == AfterStreams \cup {"package", "estimator", "parameters", "streams"}

RecycleTags(f) == {r.tag : r \in f.recycles}

BuiltSoFar ==
    /\ pc \in AfterCompounds => Sim.compounds = Sheet.compounds
    /\ pc \in AfterStreams => Streams(Sheet) \subseteq Sim.objects
    /\ pc \in AfterUnits => Units(Sheet) \subseteq Sim.objects
    /\ pc \in AfterWiring => Sheet.wires \subseteq Sim.wires
    /\ pc \in AfterRecycles => RecycleTags(Sheet) \subseteq Sim.objects
    /\ pc \in AfterFeeds => FeedTags(Sheet) \subseteq Sim.configured
    /\ pc \in Solving => Units(Sheet) \subseteq Sim.configured

(* A flowsheet object keeps its fields, and what a thread leaves in it is  *)
(* a verdict.                                                              *)
SimFields == {"of", "compounds", "packages", "estimating", "refused", "objects", "wires",
              "configured", "reacting", "reflux", "raised", "converged"}
Whole(sim) == sim = [x \in SimFields |-> sim[x]] /\ sim.converged \in BOOLEAN

(* Who has answered what, at each step of the call. *)
Typed ==
    /\ pc \in Places
    /\ runs \in 0..MaxRuns /\ Len(sims) <= runs
    /\ pc # "idle" => Len(sims) > 0 /\ result = None
    /\ \A i \in 1..Len(sims) : Whole(sims[i])
    /\ \A i \in 1..Len(passes) :
          /\ passes[i].sim \in 1..Len(sims)
          /\ passes[i].phase \in Phases
          /\ passes[i].found \in BOOLEAN \cup {None}
          /\ passes[i].phase = "done" => passes[i].found \in BOOLEAN
    /\ answer # None \/ pc \in {"tune", "read"} =>
          answer.solved \in BOOLEAN /\ answer.by \in 1..Len(passes)
    /\ result # None =>
          /\ result.solved \in BOOLEAN /\ result.sim \in 0..Len(sims)
          /\ result.solved => result.sim > 0 /\ Complete(sims[result.sim])

FullInv == ExecInv /\ Typed /\ BuiltSoFar

-----------------------------------------------------------------------------

(* It holds at first. *)
LEMMA InitInv == Init => ExecInv
<1> SUFFICES ASSUME Init PROVE ExecInv
  OBVIOUS
<1>1. sims \in Seq({}) /\ passes \in Seq(Threads({}))
  BY EmptySeq DEF Init
<1> QED
  BY <1>1 DEF Init, ExecInv, Sequenced, IsSequence, Counted, Owned

(* Replacing an entry keeps a sequence as long as it was. *)
LEMMA Replaced ==
    ASSUME NEW s, IsSequence(s), NEW i, NEW x
    PROVE  /\ IsSequence([s EXCEPT ![i] = x])
           /\ Len([s EXCEPT ![i] = x]) = Len(s)
<1>1. PICK S : s \in Seq(S)
  BY DEF IsSequence
<1>2. s \in Seq(S \cup {x})
  BY <1>1
<1>3. CASE i \in 1..Len(s)
  <2>1. [s EXCEPT ![i] = x] \in Seq(S \cup {x}) /\ Len([s EXCEPT ![i] = x]) = Len(s)
    BY <1>2, <1>3, ExceptSeq
  <2> QED
    BY <2>1 DEF IsSequence
<1>4. CASE i \notin 1..Len(s)
  <2>1. [s EXCEPT ![i] = x] = s
    BY <1>1, <1>4, LenProperties
  <2> QED
    BY <1>1, <2>1 DEF IsSequence
<1> QED
  BY <1>3, <1>4

(* Appending keeps a sequence. *)
LEMMA Extended ==
    ASSUME NEW s, IsSequence(s), NEW x
    PROVE  IsSequence(Append(s, x))
<1>1. PICK S : s \in Seq(S)
  BY DEF IsSequence
<1>2. s \in Seq(S \cup {x})
  BY <1>1
<1> QED
  BY <1>2, AppendProperties DEF IsSequence

(* A sequence over a set is one over a larger set. *)
LEMMA WiderSequence ==
    ASSUME NEW S, NEW T, S \subseteq T, NEW s \in Seq(S)
    PROVE  s \in Seq(T)
OBVIOUS

(* Threads stay threads when there are more passes. *)
LEMMA WiderThreads ==
    ASSUME NEW V, NEW W
    PROVE  Threads(V) \subseteq Threads(V \cup W) /\ Threads(W) \subseteq Threads(V \cup W)
BY DEF Threads

(* An entry replaced by a thread of the same flowsheet moves no thread. *)
LEMMA ThreadReplaced ==
    ASSUME NEW V, passes \in Seq(Threads(V)), NEW i \in 1..Len(passes),
           NEW W, NEW th \in Threads(W), th.sim = passes[i].sim
    PROVE  LET p == [passes EXCEPT ![i] = th]
           IN  /\ p \in Seq(Threads(V \cup W)) /\ Len(p) = Len(passes)
               /\ \A j \in 1..Len(passes) : p[j].sim = passes[j].sim
<1>1. passes \in Seq(Threads(V \cup W)) /\ th \in Threads(V \cup W)
  BY WiderThreads, WiderSequence
<1> QED
  BY <1>1, ExceptSeq

Building == {"compounds", "package", "estimator", "parameters", "streams", "units",
             "overrides", "wiring", "recycles", "feeds", "conditions"}

(* A build stage starts no thread and gives no answer but a failure. *)
LEMMA StageInv ==
    ASSUME ExecInv, pc \in Building,
           NEW next \in Building \cup {"solve"}, NEW sim, NEW reported, NEW possible, NEW stage,
           Stage(stage, reported, possible, sim, next)
    PROVE  ExecInv'
<1>1. Sequenced'
  <2>0. IsSequence([sims EXCEPT ![Current] = sim])
    BY Replaced DEF ExecInv, Sequenced
  <2>1. IsSequence(sims')
    BY <2>0 DEF Stage, ExecInv, Sequenced
  <2> QED
    BY <2>1 DEF Stage, ExecInv, Sequenced, solver
<1>2. Counted'
  BY DEF Stage, ExecInv, Counted, solver, Answers, Building
<1>3. Owned'
  BY DEF Stage, ExecInv, Owned, solver, Answers, Failure, Building
<1> QED
  BY <1>1, <1>2, <1>3 DEF ExecInv

(* No stage of the build touches a thread. *)
LEMMA BuildInv == ASSUME ExecInv, Build PROVE ExecInv'
<1>1. CASE DisableAutoEstimate
  <2>1. Sequenced'
    <3>0. PICK off : UNCHANGED sims \/ sims' = [sims EXCEPT ![Current] = EstimatorAsked(Sim, off)]
      BY <1>1 DEF DisableAutoEstimate
    <3> DEFINE new == EstimatorAsked(Sim, off)
    <3>2. IsSequence([sims EXCEPT ![Current] = new])
      BY Replaced DEF ExecInv, Sequenced
    <3>1. IsSequence(sims')
      BY <3>0, <3>2 DEF ExecInv, Sequenced
    <3> QED
      BY <1>1, <3>1 DEF DisableAutoEstimate, ExecInv, Sequenced, solver
  <2>2. Counted' /\ Owned'
    BY <1>1 DEF DisableAutoEstimate, ExecInv, Counted, Owned, solver
  <2> QED
    BY <2>1, <2>2 DEF ExecInv
<1>2. CASE AddCompounds \/ SetUnitConditions
  BY <1>2, StageInv DEF AddCompounds, SetUnitConditions, Building
<1>3. CASE SetPropertyPackage \/ InjectParameters \/ AddStreams \/ AddUnits
  BY <1>3, StageInv
     DEF SetPropertyPackage, InjectParameters, AddStreams, AddUnits, Building, Stage
<1>4. CASE OverridePackages \/ Connect \/ AddRecycleBlocks \/ SetFeeds
  BY <1>4, StageInv
     DEF OverridePackages, Connect, AddRecycleBlocks, SetFeeds, Building, Stage
<1> QED
  BY <1>1, <1>2, <1>3, <1>4 DEF Build

(* A new call starts with its counters reset. *)
LEMMA RunInv == ASSUME ExecInv, NEW f \in Flowsheets, Run(f) PROVE ExecInv'
<1>1. Sequenced'
  <2>1. IsSequence(sims')
    BY Extended DEF Run, Answers, ExecInv, Sequenced
  <2> QED
    BY <2>1 DEF Run, ExecInv, Sequenced
<1>2. Counted' /\ Owned'
  BY DEF Run, Answers, Failure, ExecInv, Counted, Owned
<1> QED
  BY <1>1, <1>2 DEF ExecInv

(* A thread that goes on, however late, changes neither whose it is nor    *)
(* what the caller holds.                                                  *)
LEMMA WorkerInv ==
    ASSUME ExecInv, NEW i \in DOMAIN passes, Worker(i)
    PROVE  ExecInv'
<1>1. PICK V : passes \in Seq(Threads(V))
  BY DEF ExecInv, Sequenced
<1>2. i \in 1..Len(passes) /\ passes[i] \in Threads(V)
  BY <1>1, ElementOfSeq, LenProperties
<1>3. UNCHANGED <<pc, tries, waits, answer, result>>
  BY DEF Worker, ColumnsCalculated, CalculationReturns, CalculationRaises, Harvests
<1>4. IsSequence(sims') /\ Len(sims') = Len(sims)
  <2> DEFINE k == passes[i].sim
  <2>1. CASE ColumnsCalculated(i)
    <3>1. PICK r : sims' = [sims EXCEPT ![k] = [sims[k] EXCEPT !.reflux = r]]
      BY <2>1 DEF ColumnsCalculated
    <3> DEFINE new == [sims[k] EXCEPT !.reflux = r]
    <3>2. IsSequence([sims EXCEPT ![k] = new]) /\ Len([sims EXCEPT ![k] = new]) = Len(sims)
      BY Replaced DEF ExecInv, Sequenced
    <3> QED
      BY <3>1, <3>2
  <2>2. CASE CalculationReturns(i)
    <3>1. PICK b : sims' = [sims EXCEPT ![k] = [sims[k] EXCEPT !.converged = b]]
      BY <2>2 DEF CalculationReturns
    <3> DEFINE new == [sims[k] EXCEPT !.converged = b]
    <3>2. IsSequence([sims EXCEPT ![k] = new]) /\ Len([sims EXCEPT ![k] = new]) = Len(sims)
      BY Replaced DEF ExecInv, Sequenced
    <3> QED
      BY <3>1, <3>2
  <2>3. CASE CalculationRaises(i) \/ Harvests(i)
    BY <2>3 DEF CalculationRaises, Harvests, ExecInv, Sequenced
  <2> QED
    BY <2>1, <2>2, <2>3 DEF Worker
<1>5. PICK W, th : /\ th \in Threads(W) /\ th.sim = passes[i].sim
                  /\ passes' = [passes EXCEPT ![i] = th]
  <2>1. CASE ~Harvests(i)
    <3>1. \/ passes' = [passes EXCEPT ![i].phase = "converging"]
          \/ passes' = [passes EXCEPT ![i].phase = "harvesting"]
          \/ passes' = [passes EXCEPT ![i].phase = "raised"]
      BY <2>1 DEF Worker, ColumnsCalculated, CalculationReturns, CalculationRaises
    <3>2. PICK ph \in Phases : passes' = [passes EXCEPT ![i] = [passes[i] EXCEPT !.phase = ph]]
      BY <3>1 DEF Phases
    <3> DEFINE th == [passes[i] EXCEPT !.phase = ph]
    <3>3. th \in Threads(V) /\ th.sim = passes[i].sim
      BY <1>2 DEF Threads
    <3> QED
      BY <3>2, <3>3
  <2>2. CASE Harvests(i)
    <3> DEFINE found == sims[passes[i].sim].converged
               th == [passes[i] EXCEPT !.phase = "done", !.found = found]
    <3>1. th \in Threads({found}) /\ th.sim = passes[i].sim
      <4> HIDE DEF found
      <4> QED
        BY <1>2 DEF Threads, Phases
    <3>2. passes' = [passes EXCEPT ![i] = th]
      BY <1>1, <1>2, <2>2, LenProperties DEF Harvests
    <3> QED
      BY <3>1, <3>2
  <2> QED
    BY <2>1, <2>2
<1>6. /\ passes' \in Seq(Threads(V \cup W)) /\ Len(passes') = Len(passes)
      /\ \A j \in 1..Len(passes) : passes'[j].sim = passes[j].sim
  BY <1>1, <1>2, <1>5, ThreadReplaced
<1>7. Len(passes) \in Nat
  BY <1>1, LenProperties
<1>8. Owned'
  BY <1>3, <1>4, <1>6, <1>7 DEF ExecInv, Owned
<1> QED
  BY <1>3, <1>4, <1>6, <1>8 DEF ExecInv, Sequenced, Counted

(* A new thread is on the current flowsheet and becomes the newest. *)
LEMMA StartInv == ASSUME ExecInv, StartPass PROVE ExecInv'
<1>1. PICK V : passes \in Seq(Threads(V))
  BY DEF ExecInv, Sequenced
<1> DEFINE th == [sim |-> Current, phase |-> "calculating", found |-> None]
<1>2. Len(sims) \in Nat
  BY LenProperties DEF ExecInv, Sequenced, IsSequence
<1>3. passes \in Seq(Threads(V \cup {None})) /\ th \in Threads(V \cup {None})
  <2>1. th \in Threads({None})
    BY <1>2 DEF Threads, Phases, Current
  <2> QED
    BY <1>1, <2>1, WiderThreads, WiderSequence
<1>4. /\ passes' \in Seq(Threads(V \cup {None})) /\ Len(passes') = Len(passes) + 1
      /\ \A j \in 1..Len(passes) : passes'[j] = passes[j]
      /\ passes'[Len(passes) + 1] = th
  BY <1>3, AppendProperties DEF StartPass
<1>5. Len(passes) \in Nat
  BY <1>1, LenProperties
<1>6. Counted'
  BY DEF StartPass, ExecInv, Counted
<1>7. Owned'
  BY <1>4, <1>5 DEF StartPass, ExecInv, Owned, Current
<1> QED
  BY <1>4, <1>6, <1>7 DEF StartPass, ExecInv, Sequenced

(* Waiting, tuning and reading hand on the answer of the newest thread. *)
LEMMA SolveInv ==
    ASSUME ExecInv, JoinReturns \/ JoinTimesOut \/ Tune \/ Read
    PROVE  ExecInv'
<1>0. Len(passes) \in Nat /\ Len(sims) \in Nat
  BY LenProperties DEF ExecInv, Sequenced, IsSequence
<1>1. CASE JoinReturns
  <2>1. Counted' /\ Sequenced'
    BY <1>1 DEF JoinReturns, AfterJoin, Answers, ExecInv, Counted, Sequenced
  <2>2. Owned'
    BY <1>0, <1>1
       DEF JoinReturns, AfterJoin, Answers, Failure, Found, OwnPass, Current, ExecInv, Owned
  <2> QED
    BY <2>1, <2>2 DEF ExecInv
<1>2. CASE JoinTimesOut
  <2>1. Counted' /\ Sequenced'
    BY <1>2 DEF JoinTimesOut, AfterJoin, ExecInv, Counted, Sequenced
  <2>2. Owned'
    BY <1>0, <1>2 DEF JoinTimesOut, AfterJoin, Found, OwnPass, ExecInv, Owned
  <2> QED
    BY <2>1, <2>2 DEF ExecInv
<1>3. CASE Tune
  <2>1. IsSequence(sims') /\ Len(sims') = Len(sims)
    <3>1. CASE sims' = sims
      BY <3>1 DEF ExecInv, Sequenced
    <3>2. CASE ~answer.solved
      <4> DEFINE new == [Sim EXCEPT !.raised = Sim.raised \cup With({"below"})]
      <4>1. sims' = [sims EXCEPT ![Current] = new]
        BY <1>3, <3>2 DEF Tune, Sim
      <4>2. IsSequence([sims EXCEPT ![Current] = new])
            /\ Len([sims EXCEPT ![Current] = new]) = Len(sims)
        BY Replaced DEF ExecInv, Sequenced
      <4> QED
        BY <4>1, <4>2
    <3> QED
      BY <1>3, <3>1, <3>2 DEF Tune
  <2>2. pc = "tune" /\ pc' \in {"solve", "read"} /\ UNCHANGED <<passes, tries, waits, result>>
    BY <1>3 DEF Tune
  <2>3. answer' = answer \/ answer'.by = Len(passes)
    BY <1>3 DEF Tune, Found, OwnPass
  <2>4. Counted' /\ Sequenced'
    BY <2>1, <2>2 DEF ExecInv, Counted, Sequenced
  <2>5. Owned'
    BY <1>0, <2>1, <2>2, <2>3 DEF ExecInv, Owned
  <2> QED
    BY <2>4, <2>5 DEF ExecInv
<1>4. CASE Read
  <2>1. pc = "read" /\ pc' = "idle" /\ result'.by = answer.by /\ result'.sim = Len(sims)
    BY <1>4 DEF Read, Answers, Failure, Current
  <2>2. Counted' /\ Sequenced'
    BY <1>4, <2>1 DEF Read, ExecInv, Counted, Sequenced, solver
  <2>3. Owned'
    BY <1>4, <2>1 DEF Read, ExecInv, Owned, solver
  <2> QED
    BY <2>2, <2>3 DEF ExecInv
<1> QED
  BY <1>1, <1>2, <1>3, <1>4

(* Every step preserves it. *)
LEMMA StepInv == ExecInv /\ [Next]_vars => ExecInv'
<1> SUFFICES ASSUME ExecInv, [Next]_vars PROVE ExecInv'
  OBVIOUS
<1>1. CASE Main
  BY <1>1, BuildInv, StartInv, SolveInv DEF Main
<1>2. CASE \E f \in Flowsheets : Run(f)
  BY <1>2, RunInv
<1>3. CASE \E i \in DOMAIN passes : Worker(i)
  BY <1>3, WorkerInv
<1>4. CASE UNCHANGED vars
  BY <1>4 DEF vars, solver, ExecInv, Sequenced, Counted, Owned
<1> QED
  BY <1>1, <1>2, <1>3, <1>4 DEF Next

-----------------------------------------------------------------------------
(* What is built, and what a verdict says of it.                           *)

(* Both invariants hold at first. *)
LEMMA FullInit == Init => FullInv
<1> SUFFICES ASSUME Init PROVE FullInv
  OBVIOUS
<1>1. ExecInv
  BY InitInv
<1>2. Typed
  BY RunsAssumption DEF Init, Typed, Places
<1>3. BuiltSoFar
  BY DEF Init, BuiltSoFar, AfterCompounds, AfterStreams, AfterUnits, AfterWiring,
         AfterRecycles, AfterFeeds, Solving
<1> QED
  BY <1>1, <1>2, <1>3 DEF FullInv

(* One flowsheet object replaced leaves the others alone. *)
LEMMA SimReplaced ==
    ASSUME IsSequence(sims), NEW i \in 1..Len(sims), NEW sim, sims' = [sims EXCEPT ![i] = sim]
    PROVE  /\ Len(sims') = Len(sims) /\ Len(sims) \in Nat
           /\ sims'[i] = sim
           /\ \A j \in 1..Len(sims) : j # i => sims'[j] = sims[j]
<1>1. PICK S : sims \in Seq(S)
  BY DEF IsSequence
<1>2. sims \in Seq(S \cup {sim})
  BY <1>1
<1> QED
  BY <1>2, ExceptSeq, LenProperties

(* While a flowsheet is built or solved it is the newest one. *)
LEMMA CurrentExists ==
    ASSUME FullInv, pc # "idle"
    PROVE  Current \in 1..Len(sims) /\ Whole(Sim) /\ Len(sims) \in Nat
<1>1. Len(sims) \in Nat
  BY LenProperties DEF FullInv, ExecInv, Sequenced, IsSequence
<1> QED
  BY <1>1 DEF FullInv, Typed, Current, Sim

(* A step that replaces the current flowsheet object by a whole one keeps  *)
(* the types, whoever waits.                                               *)
LEMMA CurrentReplaced ==
    ASSUME FullInv, pc # "idle", NEW sim, Whole(sim), sims' = [sims EXCEPT ![Current] = sim],
           pc' \in Places \ {"idle", "tune", "read"},
           UNCHANGED <<runs, passes, answer, result>>
    PROVE  Typed' /\ Sim' = sim /\ Current' = Current
<1>1. Current \in 1..Len(sims) /\ IsSequence(sims)
  BY CurrentExists DEF FullInv, ExecInv, Sequenced
<1>2. /\ Len(sims') = Len(sims) /\ Len(sims) \in Nat
      /\ sims'[Current] = sim
      /\ \A j \in 1..Len(sims) : j # Current => sims'[j] = sims[j]
  BY <1>1, SimReplaced
<1>3. \A j \in 1..Len(sims') : Whole(sims'[j])
  BY <1>2 DEF FullInv, Typed
<1>4. Typed'
  BY <1>2, <1>3 DEF FullInv, Typed
<1> QED
  BY <1>2, <1>4 DEF Sim, Current

(* A failure ends the call and changes no flowsheet. *)
LEMMA Failed ==
    ASSUME FullInv, pc # "idle", pc' = "idle",
           result' # None => ~result'.solved /\ result'.solved \in BOOLEAN /\ result'.sim = Current,
           UNCHANGED <<runs, sims, passes, answer>>
    PROVE  Typed' /\ BuiltSoFar'
<1>1. Current \in 1..Len(sims) /\ Len(sims) \in Nat
  BY CurrentExists
<1>2. Typed'
  BY <1>1 DEF FullInv, Typed, Places, Current
<1>3. BuiltSoFar'
  BY DEF BuiltSoFar, AfterCompounds, AfterStreams, AfterUnits, AfterWiring,
         AfterRecycles, AfterFeeds, Solving
<1> QED
  BY <1>2, <1>3

(* A stage keeps the types, and moves on only when all its conditions hold. *)
LEMMA StageTyped ==
    ASSUME FullInv, pc \in Building,
           NEW next \in Building \cup {"solve"}, NEW sim, Whole(sim), NEW reported,
           NEW possible, NEW stage, Stage(stage, reported, possible, sim, next)
    PROVE  /\ Typed'
           /\ \/ BuiltSoFar'
              \/ possible /\ pc' = next /\ Sim' = sim
<1>1. pc # "idle"
  BY DEF Building
<1>2. CASE possible /\ pc' = next /\ sims' = [sims EXCEPT ![Current] = sim] /\ UNCHANGED result
  <2>1. UNCHANGED <<runs, passes, answer>>
    BY DEF Stage, solver
  <2>2. pc' \in Places \ {"idle", "tune", "read"}
    BY <1>2 DEF Building, Places
  <2> QED
    BY <1>1, <1>2, <2>1, <2>2, CurrentReplaced
<1>3. CASE Answers(Failure(reported, Current)) /\ UNCHANGED sims
  <2>1. pc' = "idle" /\ UNCHANGED <<runs, passes, answer, sims>>
    BY <1>3 DEF Stage, Answers, solver
  <2>2. ~result'.solved /\ result'.solved \in BOOLEAN /\ result'.sim = Current
    BY <1>3 DEF Answers, Failure
  <2> QED
    BY <1>1, <2>1, <2>2, Failed
<1> QED
  BY <1>2, <1>3 DEF Stage

(* The setters of the build stages keep the fields of a flowsheet object,  *)
(* and each of them changes only its own.                                  *)
LEMMA FieldSet ==
    ASSUME NEW sim, Whole(sim), NEW x \in SimFields \ {"converged"}, NEW v
    PROVE  LET new == [sim EXCEPT ![x] = v]
           IN  /\ Whole(new) /\ new[x] = v
               /\ \A y \in SimFields \ {x} : new[y] = sim[y]
BY DEF Whole, SimFields

(* The first stage goes on only with every compound. *)
LEMMA CompoundsStage == ASSUME FullInv, AddCompounds PROVE Typed' /\ BuiltSoFar'
<1>1. pc = "compounds" /\ Whole(Sim)
  BY CurrentExists DEF AddCompounds
<1>2. PICK known, new :
          /\ new = [Sim EXCEPT !.compounds = known]
          /\ Stage("compounds", "add_compounds", known = Sheet.compounds, new, "package")
  BY DEF AddCompounds
<1>3. Whole(new) /\ new.compounds = known /\ new.of = Sheet
  BY <1>1, <1>2, FieldSet DEF SimFields, Sheet
<1>4. /\ Typed'
      /\ \/ BuiltSoFar'
         \/ known = Sheet.compounds /\ pc' = "package" /\ Sim' = new
  BY <1>1, <1>2, <1>3, StageTyped DEF Building
<1> QED
  BY <1>3, <1>4
     DEF BuiltSoFar, AfterCompounds, AfterStreams, AfterUnits, AfterWiring, AfterRecycles,
         AfterFeeds, Solving, Sheet

(* A stage that takes nothing away carries what was built to its end. *)
Kept(old, new) ==
    /\ new.of = old.of /\ new.compounds = old.compounds
    /\ old.objects \subseteq new.objects
    /\ old.wires \subseteq new.wires
    /\ old.configured \subseteq new.configured

(* What is built stays built when a later stage only adds. *)
LEMMA KeptSoFar ==
    ASSUME FullInv, Kept(Sim, Sim'), pc' = pc
    PROVE  BuiltSoFar'
BY DEF FullInv, Kept, BuiltSoFar, Sheet

(* The property package and the parameters that hang on it. *)
LEMMA PackageStages ==
    ASSUME FullInv, SetPropertyPackage \/ InjectParameters \/ OverridePackages
    PROVE  Typed' /\ BuiltSoFar'
<1>1. Whole(Sim)
  BY CurrentExists DEF SetPropertyPackage, InjectParameters, OverridePackages, Stage
<1>2. PICK new, stage, reported, possible, next :
          /\ \E p, e : new \in {Sim, [Sim EXCEPT !.packages = p, !.estimating = e]}
          /\ <<stage, next>> \in {<<"package", "estimator">>, <<"parameters", "streams">>,
                                  <<"overrides", "wiring">>}
          /\ Stage(stage, reported, possible, new, next)
  <2>1. CASE SetPropertyPackage
    <3>1. \E p, e : WithPackage(Sim, Sheet.package) \in
                        {Sim, [Sim EXCEPT !.packages = p, !.estimating = e]}
      BY DEF WithPackage
    <3> QED
      BY <2>1, <3>1 DEF SetPropertyPackage
  <2>2. CASE InjectParameters
    <3> DEFINE new == Injected(Sim, Sheet.bips)
    <3>1. new = [Sim EXCEPT !.packages = Sim.packages, !.estimating = Sim.estimating \ Sheet.bips]
      BY <1>1 DEF Injected, Whole, SimFields
    <3>2. Stage("parameters", "binary_parameter_injection", Sheet.bips \subseteq Sim.packages,
                new, "streams")
      BY <2>2 DEF InjectParameters
    <3> HIDE DEF new
    <3> QED
      BY <3>1, <3>2
  <2>3. CASE OverridePackages
    BY <2>3 DEF OverridePackages
  <2> QED
    BY <2>1, <2>2, <2>3
<1>3. Whole(new) /\ Kept(Sim, new)
  BY <1>1, <1>2 DEF Whole, SimFields, Kept
<1>4. pc = stage /\ stage \in Building /\ next \in Building
  BY <1>2 DEF Stage, Building
<1>5. /\ Typed'
      /\ \/ BuiltSoFar'
         \/ pc' = next /\ Sim' = new
  BY <1>2, <1>3, <1>4, StageTyped
<1>6. <<pc, next>> \in {<<"package", "estimator">>, <<"parameters", "streams">>,
                        <<"overrides", "wiring">>}
  BY <1>2, <1>4
<1> QED
  BY <1>3, <1>5, <1>6
     DEF FullInv, Kept, BuiltSoFar, AfterCompounds, AfterStreams, AfterUnits, AfterWiring,
         AfterRecycles, AfterFeeds, Solving, Sheet

(* Whether or not the estimator could be switched off, nothing built is lost. *)
LEMMA EstimatorStage == ASSUME FullInv, DisableAutoEstimate PROVE Typed' /\ BuiltSoFar'
<1>1. pc = "estimator" /\ Whole(Sim) /\ Current \in 1..Len(sims) /\ IsSequence(sims)
  BY CurrentExists DEF DisableAutoEstimate, FullInv, ExecInv, Sequenced
<1>2. PICK new : /\ \E off : new \in {Sim, EstimatorAsked(Sim, off)}
                 /\ sims' = [sims EXCEPT ![Current] = new]
  <2>1. CASE UNCHANGED sims
    <3>1. sims = [sims EXCEPT ![Current] = Sim]
      BY <1>1 DEF Sim, IsSequence
    <3> QED
      BY <2>1, <3>1
  <2>2. CASE \E off \in BOOLEAN : sims' = [sims EXCEPT ![Current] = EstimatorAsked(Sim, off)]
    BY <2>2
  <2> QED
    BY <2>1, <2>2 DEF DisableAutoEstimate
<1>3. Whole(new) /\ Kept(Sim, new)
  BY <1>1, <1>2 DEF Whole, SimFields, Kept, EstimatorAsked
<1>4. Typed' /\ Sim' = new /\ pc' = "parameters"
  <2>1. pc' = "parameters" /\ UNCHANGED <<runs, passes, answer, result>>
    BY DEF DisableAutoEstimate, solver
  <2> QED
    BY <1>1, <1>2, <1>3, <2>1, CurrentReplaced DEF Places
<1> QED
  BY <1>1, <1>3, <1>4
     DEF FullInv, Kept, BuiltSoFar, AfterCompounds, AfterStreams, AfterUnits, AfterWiring,
         AfterRecycles, AfterFeeds, Solving, Sheet

(* The stages that put objects and connections in place. *)
LEMMA ObjectStages ==
    ASSUME FullInv, AddStreams \/ AddUnits \/ Connect \/ AddRecycleBlocks
    PROVE  Typed' /\ BuiltSoFar'
<1>1. Whole(Sim)
  BY CurrentExists DEF AddStreams, AddUnits, Connect, AddRecycleBlocks, Stage
<1> USE DEF BuiltSoFar, AfterCompounds, AfterStreams, AfterUnits, AfterWiring,
            AfterRecycles, AfterFeeds, Solving
<1>2. CASE AddStreams
  <2>1. PICK new, reported :
            /\ new = [Sim EXCEPT !.objects = Sim.objects \cup Streams(Sheet)]
            /\ Stage("streams", reported, LayoutWorks, new, "units")
    BY <1>2 DEF AddStreams
  <2>2. Whole(new) /\ Kept(Sim, new) /\ Streams(Sheet) \subseteq new.objects
    BY <1>1, <2>1 DEF Whole, SimFields, Kept
  <2>3. pc = "streams" /\ Typed' /\ (BuiltSoFar' \/ (pc' = "units" /\ Sim' = new))
    BY <2>1, <2>2, StageTyped DEF Stage, Building
  <2> QED
    BY <2>2, <2>3 DEF FullInv, Kept, Sheet
<1>3. CASE AddUnits
  <2>1. PICK new :
            /\ new = [Sim EXCEPT !.objects = Sim.objects \cup Units(Sheet)]
            /\ Stage("units", "add_units", Creatable(Sheet), new, "overrides")
    BY <1>3 DEF AddUnits
  <2>2. Whole(new) /\ Kept(Sim, new) /\ Units(Sheet) \subseteq new.objects
    BY <1>1, <2>1 DEF Whole, SimFields, Kept
  <2>3. pc = "units" /\ Typed' /\ (BuiltSoFar' \/ (pc' = "overrides" /\ Sim' = new))
    BY <2>1, <2>2, StageTyped DEF Stage, Building
  <2> QED
    BY <2>2, <2>3 DEF FullInv, Kept, Sheet
<1>4. CASE Connect
  <2>1. PICK new, possible :
            /\ new = [Sim EXCEPT !.wires = Sheet.wires]
            /\ Stage("wiring", "connect_objects", possible, new, "recycles")
    BY <1>4 DEF Connect
  <2>2. /\ Whole(new) /\ new.of = Sheet /\ new.compounds = Sim.compounds
        /\ new.objects = Sim.objects /\ new.configured = Sim.configured
        /\ new.wires = Sheet.wires
    BY <1>1, <2>1, FieldSet DEF SimFields, Sheet
  <2>3. pc = "wiring" /\ Typed' /\ (BuiltSoFar' \/ (pc' = "recycles" /\ Sim' = new))
    BY <2>1, <2>2, StageTyped DEF Stage, Building
  <2> QED
    BY <2>2, <2>3 DEF FullInv, Sheet
<1>5. CASE AddRecycleBlocks
  <2>1. PICK new, possible :
            /\ new = WithRecycles(Sim, Sheet.recycles)
            /\ Stage("recycles", "add_recycle_blocks", possible, new, "feeds")
    BY <1>5 DEF AddRecycleBlocks
  <2>2. PICK more, wired : new = [Sim EXCEPT !.objects = Sim.objects \cup RecycleTags(Sheet) ,
                                             !.wires = Sim.wires \cup more \cup wired]
    BY <2>1 DEF WithRecycles, RecycleTags
  <2>3. Whole(new) /\ Kept(Sim, new) /\ RecycleTags(Sheet) \subseteq new.objects
    BY <1>1, <2>2 DEF Whole, SimFields, Kept
  <2>4. pc = "recycles" /\ Typed' /\ (BuiltSoFar' \/ (pc' = "feeds" /\ Sim' = new))
    BY <2>1, <2>3, StageTyped DEF Stage, Building
  <2> QED
    BY <2>3, <2>4 DEF FullInv, Kept, Sheet
<1> QED
  BY <1>2, <1>3, <1>4, <1>5

(* The stages that set conditions: all feeds, then all units or a failure. *)
LEMMA ConditionStages ==
    ASSUME FullInv, SetFeeds \/ SetUnitConditions
    PROVE  Typed' /\ BuiltSoFar'
<1>1. Whole(Sim)
  BY CurrentExists DEF SetFeeds, SetUnitConditions, Stage
<1> USE DEF BuiltSoFar, AfterCompounds, AfterStreams, AfterUnits, AfterWiring,
            AfterRecycles, AfterFeeds, Solving
<1>2. CASE SetFeeds
  <2>1. PICK new, possible :
            /\ new = [Sim EXCEPT !.configured = Sim.configured \cup FeedTags(Sheet)]
            /\ Stage("feeds", "set_stream_conditions", possible, new, "conditions")
    BY <1>2 DEF SetFeeds
  <2>2. Whole(new) /\ Kept(Sim, new) /\ FeedTags(Sheet) \subseteq new.configured
    BY <1>1, <2>1 DEF Whole, SimFields, Kept
  <2>3. pc = "feeds" /\ Typed' /\ (BuiltSoFar' \/ (pc' = "conditions" /\ Sim' = new))
    BY <2>1, <2>2, StageTyped DEF Stage, Building
  <2> QED
    BY <2>2, <2>3 DEF FullInv, Kept, Sheet
<1>3. CASE SetUnitConditions
  <2> DEFINE settable == {u \in Units(Sheet) : Settable(Sheet.units[u])}
  <2>1. PICK new, reacting :
            /\ new = [Sim EXCEPT !.configured = Sim.configured \cup settable,
                                 !.reacting = reacting]
            /\ Stage("conditions", "set_unit_conditions", AllSettable(Sheet), new, "solve")
    BY <1>3 DEF SetUnitConditions
  <2>2. Whole(new) /\ Kept(Sim, new) /\ settable \subseteq new.configured
    <3> HIDE DEF settable
    <3> QED
      BY <1>1, <2>1 DEF Whole, SimFields, Kept
  <2>3. /\ pc = "conditions" /\ Typed'
        /\ BuiltSoFar' \/ (AllSettable(Sheet) /\ pc' = "solve" /\ Sim' = new)
    BY <2>1, <2>2, StageTyped DEF Stage, Building
  <2>4. AllSettable(Sheet) => settable = Units(Sheet)
    BY DEF AllSettable
  <2> QED
    BY <2>2, <2>3, <2>4 DEF FullInv, Kept, Sheet
<1> QED
  BY <1>2, <1>3

(* A new call begins with an empty flowsheet object, or is refused. *)
LEMMA RunFull == ASSUME FullInv, NEW f \in Flowsheets, Run(f) PROVE Typed' /\ BuiltSoFar'
<1>0. Len(sims) \in Nat /\ IsSequence(sims)
  BY LenProperties DEF FullInv, ExecInv, Sequenced, IsSequence
<1>1. CASE PreCheck(f)
  <2>1. PICK S : sims \in Seq(S)
    BY <1>0 DEF IsSequence
  <2> DEFINE new == NewSim(f)
  <2>2. sims' = Append(sims, new) /\ pc' = "compounds" /\ result' = None /\ runs' = runs + 1
        /\ runs < MaxRuns /\ answer' = None /\ UNCHANGED passes
    BY <1>1 DEF Run
  <2>3. Whole(new)
    BY DEF NewSim, Whole, SimFields
  <2>4. /\ Len(sims') = Len(sims) + 1 /\ sims'[Len(sims) + 1] = new
        /\ \A j \in 1..Len(sims) : sims'[j] = sims[j]
    <3> HIDE DEF new
    <3>1. sims \in Seq(S \cup {new})
      BY <2>1
    <3> QED
      BY <2>2, <3>1, AppendProperties
  <2>5. Typed'
    <3> HIDE DEF new
    <3> QED
      BY <1>0, <2>2, <2>3, <2>4, RunsAssumption DEF FullInv, Typed, Places
  <2>6. BuiltSoFar'
    BY <2>2 DEF BuiltSoFar, AfterCompounds, AfterStreams, AfterUnits, AfterWiring,
                AfterRecycles, AfterFeeds, Solving
  <2> QED
    BY <2>5, <2>6
<1>2. CASE ~PreCheck(f)
  <2>1. /\ pc' = "idle" /\ runs' = runs + 1 /\ runs < MaxRuns /\ answer' = None
        /\ UNCHANGED <<sims, passes>>
        /\ ~result'.solved /\ result'.solved \in BOOLEAN /\ result'.sim = 0
    <3>1. Answers(Failure("pre_execution", 0)) /\ UNCHANGED sims
      BY <1>2 DEF Run
    <3> QED
      BY <3>1 DEF Run, Answers, Failure
  <2>2. Typed'
    BY <1>0, <2>1, RunsAssumption DEF FullInv, Typed, Places
  <2>3. BuiltSoFar'
    BY <2>1 DEF BuiltSoFar, AfterCompounds, AfterStreams, AfterUnits, AfterWiring,
                AfterRecycles, AfterFeeds, Solving
  <2> QED
    BY <2>2, <2>3
<1> QED
  BY <1>1, <1>2

(* A complete flowsheet stays complete when only the verdict changes. *)
LEMMA KeptComplete ==
    ASSUME NEW old, NEW new, Kept(old, new), Complete(old)
    PROVE  Complete(new)
BY DEF Kept, Complete

(* A thread that goes on, also one given up long ago, leaves what was      *)
(* built in place.                                                         *)
LEMMA WorkerFull ==
    ASSUME FullInv, NEW i \in DOMAIN passes, Worker(i)
    PROVE  Typed' /\ BuiltSoFar'
<1>1. PICK V : passes \in Seq(Threads(V))
  BY DEF FullInv, ExecInv, Sequenced
<1>2. i \in 1..Len(passes) /\ passes[i] \in Threads(V) /\ Len(passes) \in Nat
  BY <1>1, ElementOfSeq, LenProperties
<1> DEFINE k == passes[i].sim
<1>3. k \in 1..Len(sims) /\ IsSequence(sims) /\ Whole(sims[k]) /\ Len(sims) \in Nat
  BY <1>2, LenProperties DEF FullInv, Typed, ExecInv, Sequenced, IsSequence
<1>4. UNCHANGED <<pc, runs, answer, result>>
  BY DEF Worker, ColumnsCalculated, CalculationReturns, CalculationRaises, Harvests
<1>5. /\ Len(sims') = Len(sims)
      /\ \A j \in 1..Len(sims) : Whole(sims'[j]) /\ Kept(sims[j], sims'[j])
  <2>1. CASE UNCHANGED sims
    BY <2>1 DEF FullInv, Typed, Kept
  <2>2. CASE ColumnsCalculated(i) \/ CalculationReturns(i)
    <3>1. PICK new : /\ \/ \E r : new = [sims[k] EXCEPT !.reflux = r]
                        \/ \E b \in BOOLEAN : new = [sims[k] EXCEPT !.converged = b]
                     /\ sims' = [sims EXCEPT ![k] = new]
      BY <2>2 DEF ColumnsCalculated, CalculationReturns
    <3>2. Whole(new) /\ Kept(sims[k], new)
      BY <1>3, <3>1 DEF Whole, SimFields, Kept
    <3>3. /\ Len(sims') = Len(sims) /\ sims'[k] = new
          /\ \A j \in 1..Len(sims) : j # k => sims'[j] = sims[j]
      BY <1>3, <3>1, SimReplaced
    <3> HIDE DEF k
    <3> QED
      BY <3>2, <3>3 DEF FullInv, Typed, Kept
  <2> QED
    BY <2>1, <2>2 DEF Worker, CalculationRaises, Harvests
<1>6. /\ Len(passes') = Len(passes)
      /\ \A j \in 1..Len(passes) : j # i => passes'[j] = passes[j]
      /\ passes'[i].sim = k /\ passes'[i].phase \in Phases
      /\ passes'[i].found \in BOOLEAN \cup {None}
      /\ passes'[i].phase = "done" => passes'[i].found \in BOOLEAN
  <2>1. PICK new : /\ passes' = [passes EXCEPT ![i] = new]
                   /\ \/ \E ph \in {"converging", "harvesting", "raised"} :
                            new = [passes[i] EXCEPT !.phase = ph]
                      \/ new = [passes[i] EXCEPT !.phase = "done", !.found = sims[k].converged]
    <3>1. CASE Harvests(i)
      BY <1>1, <1>2, <3>1 DEF Harvests
    <3>2. CASE ~Harvests(i)
      BY <1>1, <1>2, <3>2 DEF Worker, ColumnsCalculated, CalculationReturns, CalculationRaises
    <3> QED
      BY <3>1, <3>2
  <2>2. /\ new.sim = k /\ new.phase \in Phases
        /\ new.found \in BOOLEAN \cup {None} /\ (new.phase = "done" => new.found \in BOOLEAN)
    <3>1. sims[k].converged \in BOOLEAN /\ passes[i].found \in BOOLEAN \cup {None}
      BY <1>2, <1>3 DEF Whole, FullInv, Typed
    <3> HIDE DEF k
    <3>2. CASE new = [passes[i] EXCEPT !.phase = "done", !.found = sims[k].converged]
      <4> DEFINE b == sims[k].converged
      <4> HIDE DEF b
      <4>1. new = [passes[i] EXCEPT !.phase = "done", !.found = b] /\ b \in BOOLEAN
        BY <3>1, <3>2 DEF b
      <4> QED
        BY <1>2, <4>1 DEF Threads, Phases, k
    <3>3. CASE \E ph \in {"converging", "harvesting", "raised"} :
                  new = [passes[i] EXCEPT !.phase = ph]
      BY <1>2, <3>1, <3>3 DEF Threads, Phases, k
    <3> QED
      BY <2>1, <3>2, <3>3
  <2>3. passes \in Seq(Threads(V) \cup {new})
    BY <1>1
  <2>4. /\ Len(passes') = Len(passes) /\ passes'[i] = new
        /\ \A j \in 1..Len(passes) : j # i => passes'[j] = passes[j]
    BY <1>2, <2>1, <2>3, ExceptSeq
  <2> QED
    BY <2>2, <2>4
<1>7. Typed'
  <2>1. result' # None /\ result'.solved => Complete(sims'[result'.sim])
    BY <1>3, <1>4, <1>5, KeptComplete DEF FullInv, Typed
  <2>2. \A j \in 1..Len(passes') :
            /\ passes'[j].sim \in 1..Len(sims')
            /\ passes'[j].phase \in Phases
            /\ passes'[j].found \in BOOLEAN \cup {None}
            /\ passes'[j].phase = "done" => passes'[j].found \in BOOLEAN
    BY <1>3, <1>5, <1>6 DEF FullInv, Typed
  <2> HIDE DEF k
  <2> QED
    BY <1>4, <1>5, <1>6, <2>1, <2>2 DEF FullInv, Typed
<1>8. BuiltSoFar'
  <2>1. CASE pc = "idle"
    BY <1>4, <2>1 DEF BuiltSoFar, AfterCompounds, AfterStreams, AfterUnits, AfterWiring,
                      AfterRecycles, AfterFeeds, Solving
  <2>2. CASE pc # "idle"
    <3>1. Kept(Sim, Sim')
      BY <1>5, <2>2, CurrentExists DEF Sim, Current
    <3> QED
      BY <1>4, <3>1, KeptSoFar
  <2> QED
    BY <2>1, <2>2
<1> QED
  BY <1>7, <1>8

(* A pass starts on the flowsheet that was built. *)
LEMMA StartFull == ASSUME FullInv, StartPass PROVE Typed' /\ BuiltSoFar'
<1>1. PICK V : passes \in Seq(Threads(V))
  BY DEF FullInv, ExecInv, Sequenced
<1> DEFINE th == [sim |-> Current, phase |-> "calculating", found |-> None]
<1>2. pc = "solve" /\ Current \in 1..Len(sims) /\ Len(sims) \in Nat
  BY CurrentExists DEF StartPass
<1>3. /\ Len(passes') = Len(passes) + 1 /\ Len(passes) \in Nat
      /\ \A j \in 1..Len(passes) : passes'[j] = passes[j]
      /\ passes'[Len(passes) + 1] = th
  <2>1. passes \in Seq(Threads(V) \cup {th}) /\ passes' = Append(passes, th)
    BY <1>1 DEF StartPass
  <2> HIDE DEF th
  <2> QED
    BY <2>1, AppendProperties, LenProperties
<1>4. th.sim = Current /\ th.phase \in Phases /\ th.phase # "done" /\ th.found = None
  BY DEF Phases
<1>5. pc' = "join" /\ UNCHANGED <<runs, sims, answer, result>>
  BY DEF StartPass
<1>6. \A j \in 1..Len(passes') :
          /\ passes'[j].sim \in 1..Len(sims')
          /\ passes'[j].phase \in Phases
          /\ passes'[j].found \in BOOLEAN \cup {None}
          /\ passes'[j].phase = "done" => passes'[j].found \in BOOLEAN
  <2> HIDE DEF th
  <2> QED
    BY <1>2, <1>3, <1>4, <1>5 DEF FullInv, Typed
<1>7. Typed'
  BY <1>2, <1>3, <1>5, <1>6 DEF FullInv, Typed, Places
<1>8. BuiltSoFar'
  BY <1>2, <1>5 DEF FullInv, BuiltSoFar, AfterCompounds, AfterStreams, AfterUnits, AfterWiring,
                    AfterRecycles, AfterFeeds, Solving, Sim, Sheet, Current
<1> QED
  BY <1>7, <1>8

(* Once it is solved nothing of a flowsheet is taken away any more. *)
LEMMA SolvingKept ==
    ASSUME FullInv, pc \in Solving, pc' \in Solving, Kept(Sim, Sim')
    PROVE  BuiltSoFar'
BY DEF FullInv, Kept, BuiltSoFar, AfterCompounds, AfterStreams, AfterUnits, AfterWiring,
       AfterRecycles, AfterFeeds, Solving, Sheet

(* A wait ends in the thread's answer or in a failure, of this flowsheet. *)
LEMMA JoinFull ==
    ASSUME FullInv, JoinReturns \/ JoinTimesOut
    PROVE  Typed' /\ BuiltSoFar'
<1>1. pc = "join" /\ UNCHANGED <<runs, sims, passes>>
  BY DEF JoinReturns, JoinTimesOut
<1>2. OwnPass \in 1..Len(passes) /\ DOMAIN passes = 1..Len(passes)
  BY <1>1, LenProperties DEF FullInv, ExecInv, Sequenced, Owned, OwnPass
<1>3. CASE JoinReturns /\ passes[OwnPass].phase = "raised"
  <2>1. UNCHANGED answer /\ Answers(Failure("build_or_solve", Current))
    BY <1>3 DEF JoinReturns
  <2>2. pc' = "idle" /\ ~result'.solved /\ result'.solved \in BOOLEAN /\ result'.sim = Current
    BY <2>1 DEF Answers, Failure
  <2> QED
    BY <1>1, <2>1, <2>2, Failed
<1>4. CASE JoinTimesOut \/ (JoinReturns /\ passes[OwnPass].phase # "raised")
  <2>1. PICK b \in BOOLEAN : answer' = Found(b, OwnPass)
    <3>1. CASE JoinTimesOut
      BY <3>1 DEF JoinTimesOut
    <3>2. CASE JoinReturns /\ passes[OwnPass].phase # "raised"
      <4>1. passes[OwnPass].phase = "done" /\ answer' = Found(passes[OwnPass].found, OwnPass)
        BY <3>2 DEF JoinReturns, FinishedPasses
      <4> QED
        BY <1>2, <4>1 DEF FullInv, Typed
    <3> QED
      BY <1>4, <3>1, <3>2
  <2>2. answer'.solved \in BOOLEAN /\ answer'.by \in 1..Len(passes)
    BY <1>2, <2>1 DEF Found
  <2>3. pc' \in {"tune", "read"} /\ UNCHANGED result
    BY <1>4 DEF JoinReturns, JoinTimesOut, AfterJoin
  <2>4. Typed'
    BY <1>1, <2>2, <2>3 DEF FullInv, Typed, Places
  <2>5. BuiltSoFar'
    BY <1>1, <2>3, SolvingKept DEF Solving, Kept, Sim, Current
  <2> QED
    BY <2>4, <2>5
<1> QED
  BY <1>3, <1>4

(* Tuning the reflux ratio leaves the flowsheet complete. *)
LEMMA TuneFull == ASSUME FullInv, Tune PROVE Typed' /\ BuiltSoFar'
<1>1. /\ pc = "tune" /\ pc' \in {"solve", "read"}
      /\ UNCHANGED <<runs, passes, result>>
  BY DEF Tune
<1>2. Current \in 1..Len(sims) /\ Whole(Sim) /\ IsSequence(sims) /\ Len(sims) \in Nat
  BY <1>1, CurrentExists DEF FullInv, ExecInv, Sequenced
<1>3. /\ Len(sims') = Len(sims) /\ Whole(Sim') /\ Kept(Sim, Sim')
      /\ \A j \in 1..Len(sims) : j # Current => sims'[j] = sims[j]
  <2>1. CASE UNCHANGED sims
    BY <1>2, <2>1 DEF Sim, Current, Kept
  <2>2. CASE ~answer.solved
    <3>1. PICK new, r : new = [Sim EXCEPT !.raised = r] /\ sims' = [sims EXCEPT ![Current] = new]
      BY <2>2 DEF Tune, Sim
    <3>2. Whole(new) /\ Kept(Sim, new)
      BY <1>2, <3>1 DEF Whole, SimFields, Kept
    <3>3. /\ Len(sims') = Len(sims) /\ sims'[Current] = new
          /\ \A j \in 1..Len(sims) : j # Current => sims'[j] = sims[j]
      BY <1>2, <3>1, SimReplaced
    <3> QED
      BY <3>2, <3>3 DEF Sim, Current
  <2> QED
    BY <2>1, <2>2 DEF Tune
<1>4. answer'.solved \in BOOLEAN /\ answer'.by \in 1..Len(passes)
  <2>1. OwnPass \in 1..Len(passes)
    BY <1>1, LenProperties DEF FullInv, ExecInv, Sequenced, Owned, OwnPass
  <2>2. CASE answer' = answer
    BY <1>1, <2>2 DEF FullInv, Typed
  <2>3. CASE answer' = Found(FALSE, OwnPass)
    BY <2>1, <2>3 DEF Found
  <2> QED
    BY <2>2, <2>3 DEF Tune
<1>5. \A j \in 1..Len(sims') : Whole(sims'[j])
  BY <1>2, <1>3 DEF FullInv, Typed, Sim, Current
<1>6. Typed'
  BY <1>1, <1>2, <1>3, <1>4, <1>5 DEF FullInv, Typed, Places
<1>7. BuiltSoFar'
  BY <1>1, <1>3, SolvingKept DEF Solving
<1> QED
  BY <1>6, <1>7

(* What is read as solved has gone through every stage. *)
LEMMA ReadFull == ASSUME FullInv, Read PROVE Typed' /\ BuiltSoFar'
<1>1. pc = "read" /\ pc' = "idle" /\ UNCHANGED <<runs, sims, passes, answer>>
  BY DEF Read, Answers, solver
<1>2. Current \in 1..Len(sims) /\ Len(sims) \in Nat
  BY <1>1, CurrentExists
<1>3. CASE answer.solved
  <2>1. result'.solved = TRUE /\ result'.sim = Current
    BY <1>3 DEF Read, Answers
  <2>2. Complete(Sim)
    BY <1>1 DEF FullInv, BuiltSoFar, AfterCompounds, AfterStreams, AfterUnits, AfterWiring,
                AfterRecycles, AfterFeeds, Solving, Complete, Sheet, RecycleTags
  <2>3. sims'[result'.sim] = Sim
    BY <1>1, <2>1 DEF Sim
  <2>4. Complete(sims'[result'.sim])
    BY <2>2, <2>3
  <2>5. result'.solved \in BOOLEAN /\ result'.sim \in 0..Len(sims') /\ result'.sim > 0
    <3>1. result'.solved \in BOOLEAN
      BY <2>1
    <3>2. Len(sims') = Len(sims)
      BY <1>1
    <3> QED
      BY <1>2, <2>1, <3>1, <3>2
  <2>6. Typed'
    BY <1>1, <2>4, <2>5 DEF FullInv, Typed, Places
  <2>7. BuiltSoFar'
    BY <1>1 DEF BuiltSoFar, AfterCompounds, AfterStreams, AfterUnits, AfterWiring,
                AfterRecycles, AfterFeeds, Solving
  <2> QED
    BY <2>6, <2>7
<1>4. CASE ~answer.solved
  <2>1. ~result'.solved /\ result'.solved \in BOOLEAN /\ result'.sim = Current
    BY <1>4 DEF Read, Answers, Failure
  <2> QED
    BY <1>1, <2>1, Failed
<1> QED
  BY <1>3, <1>4

(* Every step preserves both. *)
LEMMA FullStep == FullInv /\ [Next]_vars => FullInv'
<1> SUFFICES ASSUME FullInv, [Next]_vars PROVE FullInv'
  OBVIOUS
<1>0. ExecInv'
  BY StepInv DEF FullInv
<1>1. CASE Build
  BY <1>0, <1>1, CompoundsStage, PackageStages, EstimatorStage, ObjectStages, ConditionStages
     DEF Build, FullInv
<1>2. CASE StartPass \/ JoinReturns \/ JoinTimesOut \/ Tune \/ Read
  BY <1>0, <1>2, StartFull, JoinFull, TuneFull, ReadFull DEF FullInv
<1>3. CASE \E f \in Flowsheets : Run(f)
  BY <1>0, <1>3, RunFull DEF FullInv
<1>4. CASE \E i \in DOMAIN passes : Worker(i)
  BY <1>0, <1>4, WorkerFull DEF FullInv
<1>5. CASE UNCHANGED vars
  <2>1. Typed' /\ BuiltSoFar'
    BY <1>5 DEF vars, solver, FullInv, Typed, BuiltSoFar, Sim, Current, Sheet
  <2> QED
    BY <1>0, <2>1 DEF FullInv
<1> QED
  BY <1>1, <1>2, <1>3, <1>4, <1>5 DEF Next, Main

(* The invariant holds in every state. *)
THEOREM ExecInvariance == Spec => []FullInv
<1> QED
  BY FullInit, FullStep, PTL DEF Spec

(* Counters, threads, answers and results have their types, whatever the   *)
(* threads left behind still do.                                           *)
THEOREM ExecTypeCorrect == Spec => []TypeOK
<1>1. FullInv => TypeOK
  <2> SUFFICES ASSUME FullInv PROVE TypeOK
    OBVIOUS
  <2>1. DOMAIN passes = 1..Len(passes) /\ DOMAIN sims = 1..Len(sims)
    BY LenProperties DEF FullInv, ExecInv, Sequenced, IsSequence
  <2>2. tries \in Nat /\ waits \in Nat
    BY DEF FullInv, ExecInv, Counted
  <2> QED
    BY <2>1, <2>2 DEF FullInv, Typed, TypeOK, Phases, Unfinished
<1> QED
  BY <1>1, ExecInvariance, PTL

(* No result carries the answer of a thread of another flowsheet, however  *)
(* many threads were given up and whenever they finish.                    *)
THEOREM AnswersAreOwn == Spec => []OwnAnswer
<1>1. FullInv => OwnAnswer
  BY DEF FullInv, ExecInv, Owned, OwnAnswer
<1> QED
  BY <1>1, ExecInvariance, PTL

(* Of every flowsheet: one reported as solved has every compound, object,  *)
(* connection, recycle block, feed and unit condition in place, and no     *)
(* later step takes one away.                                              *)
THEOREM SolvedIsComplete == Spec => []SolvedOnlyComplete
<1>1. FullInv => SolvedOnlyComplete
  BY DEF FullInv, Typed, SolvedOnlyComplete
<1> QED
  BY <1>1, ExecInvariance, PTL

(* A call is held up by at most two solver timeouts. *)
THEOREM TimeoutsBounded == Spec => []AtMostTwoTimeouts
<1>1. FullInv => AtMostTwoTimeouts
  BY DEF FullInv, ExecInv, Counted, AtMostTwoTimeouts
<1> QED
  BY <1>1, ExecInvariance, PTL

=============================================================================
