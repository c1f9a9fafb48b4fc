--------------------------- MODULE ServicesProofs ---------------------------
(***************************************************************************)
(* Proofs about the two components whose state outlives what uses them,    *)
(* Learning and LLMCalls.                                                  *)
(*                                                                         *)
(* Learning, for every plan, number of cases, samples, repairs and         *)
(* launches, and every threshold: what the properties need beside          *)
(* themselves is what the rule file may hold, inside a cleared run only    *)
(* lessons of that run, and always the last store that was written         *)
(* completely, unless it is torn.                                          *)
(*                                                                         *)
(* LLMCalls, for any number of calls, conversations and abandoned          *)
(* requests: a call returns the answer to its own last request, an answer  *)
(* stands directly behind the turn that asked for it, and the attempts and *)
(* delays of a call stay within its budget.                                *)
(***************************************************************************)
EXTENDS Learning, LLMCalls, SequenceTheorems, FiniteSetTheorems, TLAPS

-----------------------------------------------------------------------------
(* Learning.                                                               *)

(* The driver is inside a run of the plan; from `sample` on it has made    *)
(* the orchestrator of the case.                                           *)
InCase == pc \in {"sample", "solve", "repair", "save", "write", "next"}
InArm == pc = "orch" \/ InCase

(* Where the driver is. *)
Placed ==
    /\ launch \in 1..MaxLaunches
    /\ plan \in Plans /\ arm \in 0..Len(plan)
    /\ case \in 1..NCases /\ sample \in 1..NSamples
    /\ pc \in {"arm", "orch"} \cup Ended \/ InCase
    /\ InArm => arm \in 1..Len(plan)
    /\ repairs \in 0..MaxRepairs

(* Everything learned is a set of observations, and only repairs of this   *)
(* launch make windows of margins.                                         *)
Typed ==
    /\ file.obs \subseteq Observations
    /\ file \in {Absent, Torn, Stored(file.obs)}
    /\ mem \subseteq Observations /\ applied \subseteq Observations
    /\ saved \subseteq Observations

Window ==
    /\ margins \in Seq(Margins) /\ Len(margins) <= MaxObs
    /\ fresh \in BOOLEAN /\ (fresh => margins # <<>>)

(* A cleared run finds nothing of others in the file. *)
FileCold == InArm /\ Clear => \A o \in file.obs : OfThisArm(o)

(* So its store, and the rules of its samples, are its own. *)
StoreCold == InCase /\ Clear => \A o \in mem : OfThisArm(o)
RulesCold == Running /\ Clear => \A o \in applied : OfThisArm(o)

(* No rule is applied before the sample starts. *)
Unapplied == pc \in {"arm", "orch", "sample"} => applied = {}

(* The store of the null mode holds what this case has taught it. *)
StoreBlind == InCase /\ Mode = Null => \A o \in mem : OfThisCase(o)

(* The file is the last store written, until it is deleted or torn; every  *)
(* orchestrator that loaded it still has all of it.                        *)
FileIsSaved ==
    /\ file.state = "store" => file.obs = saved
    /\ file.state = "absent" => saved = {}
SavedIsLoaded == InCase /\ Mode # Null => saved \subseteq mem

(* The first case of a cleared run finds no file. *)
FirstCaseClean == pc = "orch" /\ Clear /\ case = 1 => file # Torn

LInv ==
    /\ Placed
    /\ Typed
    /\ Window
    /\ FileCold /\ StoreCold /\ RulesCold /\ Unapplied
    /\ StoreBlind /\ NullModeBlind
    /\ FileIsSaved /\ SavedIsLoaded
    /\ FirstCaseClean /\ ClearingRecovers

-----------------------------------------------------------------------------

(* A plan has at least one run. *)
LEMMA PlanLength == \A p \in Plans : Len(p) \in Nat \ {0}
BY PlansAssumption

(* The active rules of a store rest on observations of that store. *)
LEMMA ActiveOfStore == \A m : Active(m) \subseteq m
BY DEF Active

(* The three files are told apart by their state. *)
LEMMA FilesDiffer ==
    /\ Absent.state = "absent" /\ Absent.obs = {} /\ Absent # Torn
    /\ Torn.state = "torn" /\ Torn.obs = {}
    /\ \A m : Stored(m).state = "store" /\ Stored(m).obs = m /\ Stored(m) # Torn
BY DEF Absent, Torn, Stored

(* Appending to a window keeps it a window of at most MaxObs margins, with *)
(* the new one at its end.                                                 *)
LEMMA RecordedWindow ==
    ASSUME NEW s \in Seq(Margins), Len(s) <= MaxObs, NEW o \in Margins
    PROVE  /\ Recorded(s, o) \in Seq(Margins)
           /\ Len(Recorded(s, o)) <= MaxObs
           /\ Recorded(s, o) # <<>>
<1>1. Append(s, o) \in Seq(Margins) /\ Len(Append(s, o)) = Len(s) + 1
  OBVIOUS
<1>2. CASE Len(s) < MaxObs
  BY <1>1, <1>2, BoundsAssumption DEF Recorded
<1>3. CASE ~(Len(s) < MaxObs)
  <2>1. PICK t : t = Append(s, o)
    OBVIOUS
  <2>2. t \in Seq(Margins) /\ Len(t) = MaxObs + 1
    BY <1>1, <1>3, <2>1, BoundsAssumption
  <2>3. PICK w : w = SubSeq(t, 2, MaxObs + 1)
    OBVIOUS
  <2>4. Recorded(s, o) = w
    BY <1>3, <2>1, <2>2, <2>3, BoundsAssumption DEF Recorded, Windowed
  <2>5. w \in Seq(Margins) /\ Len(w) = MaxObs
    BY <2>2, <2>3, BoundsAssumption
  <2>6. w # <<>>
    BY <2>5, EmptySeq, BoundsAssumption
  <2> QED
    BY <2>4, <2>5, <2>6, BoundsAssumption
<1> QED
  BY <1>2, <1>3

(* No margin at all is a window too. *)
LEMMA EmptyWindow == <<>> \in Seq(Margins) /\ Len(<<>>) <= MaxObs
BY EmptySeq, BoundsAssumption

(* Refuting the last margin keeps the window. *)
LEMMA RefutedWindow ==
    ASSUME NEW s \in Seq(Margins), s # <<>>
    PROVE  LET r == [s EXCEPT ![Len(s)].refuted = TRUE]
           IN  r \in Seq(Margins) /\ Len(r) = Len(s)
<1>1. Len(s) \in DOMAIN s /\ s[Len(s)] \in Margins
  OBVIOUS
<1>2. [s[Len(s)] EXCEPT !.refuted = TRUE] \in Margins
  BY <1>1 DEF Margins
<1> QED
  BY <1>1, <1>2

-----------------------------------------------------------------------------

(* The invariant holds before anything was launched. *)
LEMMA LInitInv == Init => LInv
<1> SUFFICES ASSUME Init PROVE LInv
  OBVIOUS
<1>1. Placed
  BY PlanLength, BoundsAssumption DEF Init, Placed, InArm, InCase, Ended
<1>2. Typed
  BY FilesDiffer DEF Init, Typed
<1>3. Window
  BY EmptyWindow, Zenon DEF Init, Window
<1>4. /\ FileCold /\ StoreCold /\ RulesCold /\ Unapplied /\ StoreBlind /\ NullModeBlind
      /\ SavedIsLoaded /\ FirstCaseClean /\ ClearingRecovers
  BY DEF Init, FileCold, StoreCold, RulesCold, Unapplied, StoreBlind, NullModeBlind, Running,
         SavedIsLoaded, FirstCaseClean, ClearingRecovers, InArm, InCase
<1>5. FileIsSaved
  BY FilesDiffer DEF Init, FileIsSaved
<1> QED
  BY <1>1, <1>2, <1>3, <1>4, <1>5 DEF LInv

(* The driver stays where it may be. *)
LEMMA StaysPlaced == LInv /\ Next => Placed'
<1> SUFFICES ASSUME LInv, Next PROVE Placed'
  OBVIOUS
<1>1. Placed /\ Len(plan) \in Nat \ {0}
  BY PlanLength DEF LInv, Placed
<1> USE <1>1, BoundsAssumption
    DEF Placed, InArm, InCase, Ended, where, store, lessons
<1>2. CASE StartArm
  BY <1>2 DEF StartArm
<1>3. CASE MakeOrchestrator
  BY <1>3 DEF MakeOrchestrator
<1>4. CASE StartSample \/ Solve
  BY <1>4 DEF StartSample, Solve
<1>5. CASE Repair
  BY <1>5 DEF Repair
<1>6. CASE SaveOpens \/ SaveWrites \/ SaveFails \/ SampleRaises \/ Killed
  BY <1>6 DEF SaveOpens, SaveWrites, SaveFails, SampleRaises, Killed
<1>7. CASE NextSample
  BY <1>7 DEF NextSample
<1>8. CASE NextCase
  BY <1>8 DEF NextCase
<1>9. CASE Relaunch
  BY <1>9, PlanLength DEF Relaunch
<1> QED
  BY <1>2, <1>3, <1>4, <1>5, <1>6, <1>7, <1>8, <1>9 DEF Next

(* What is learned stays a set of observations. *)
LEMMA StaysTyped == LInv /\ Next => Typed'
<1> SUFFICES ASSUME LInv, Next PROVE Typed'
  OBVIOUS
<1>1. Typed /\ Placed
  BY DEF LInv
<1> USE <1>1, FilesDiffer DEF Typed, where, store, lessons
<1>2. CASE StartArm
  BY <1>2 DEF StartArm, Cleared
<1>3. CASE MakeOrchestrator
  BY <1>3 DEF MakeOrchestrator, Loaded
<1>4. CASE StartSample
  BY <1>4, ActiveOfStore DEF StartSample
<1>5. CASE Repair
  <2>1. repairs' \in 1..MaxRepairs /\ launch \in 1..MaxLaunches
        /\ arm \in Nat /\ case \in 1..NCases
    BY <1>5, PlanLength, BoundsAssumption DEF Repair, Placed
  <2>2. PICK k \in Keys :
           \/ mem' = mem
           \/ mem' = mem \cup {[launch |-> launch, arm |-> arm, case |-> case,
                                n |-> repairs', key |-> k]}
    BY <1>5 DEF Repair
  <2>3. mem' \subseteq Observations
    BY <2>1, <2>2 DEF Observations
  <2> QED
    BY <1>5, <2>3 DEF Repair
<1>6. CASE SaveOpens
  BY <1>6 DEF SaveOpens
<1>7. CASE SaveWrites
  BY <1>7 DEF SaveWrites
<1>8. CASE Solve \/ SaveFails \/ SampleRaises \/ NextSample \/ NextCase \/ Killed
  BY <1>8 DEF Solve, SaveFails, SampleRaises, NextSample, NextCase, Killed
<1>9. CASE Relaunch
  BY <1>9 DEF Relaunch
<1> QED
  BY <1>2, <1>3, <1>4, <1>5, <1>6, <1>7, <1>8, <1>9 DEF Next

(* The margins stay a window, whose last entry is the fresh one. *)
LEMMA StaysWindow == LInv /\ Next => Window'
<1> SUFFICES ASSUME LInv, Next PROVE Window'
  OBVIOUS
<1>1. Window /\ Placed
  BY DEF LInv
<1>2. CASE Solve
  <2>1. fresh' = FALSE
    BY <1>2 DEF Solve
  <2>2. margins' = margins \/ /\ fresh
                              /\ margins' = [margins EXCEPT ![Len(margins)].refuted = TRUE]
    BY <1>2 DEF Solve
  <2> QED
    BY <1>1, <2>1, <2>2, RefutedWindow DEF Window
<1>3. CASE Repair
  <2>1. arm \in Nat
    BY <1>1, PlanLength DEF Placed
  <2>2. [arm |-> arm, refuted |-> FALSE] \in Margins
    BY <2>1 DEF Margins
  <2>3. fresh' \in BOOLEAN
        /\ \/ ~fresh' /\ margins' = margins
           \/ fresh' /\ margins' = Recorded(margins, [arm |-> arm, refuted |-> FALSE])
    BY <1>3 DEF Repair
  <2> QED
    BY <1>1, <2>2, <2>3, RecordedWindow DEF Window
<1>4. CASE Relaunch
  BY <1>4, EmptyWindow, Zenon DEF Relaunch, Window
<1>5. CASE SampleRaises
  BY <1>1, <1>5 DEF SampleRaises, Window
<1>6. CASE UNCHANGED lessons
  BY <1>1, <1>6 DEF lessons, Window
<1> QED
  BY <1>2, <1>3, <1>4, <1>5, <1>6
     DEF Next, StartArm, MakeOrchestrator, StartSample, SaveOpens, SaveWrites,
         SaveFails, NextSample, NextCase, Killed, lessons

(* Within a launch, run and case the same lessons are its own. *)
LEMMA OwnLessons ==
    /\ UNCHANGED <<launch, arm>> => \A o : OfThisArm(o)' <=> OfThisArm(o)
    /\ UNCHANGED <<launch, arm, case>> => \A o : OfThisCase(o)' <=> OfThisCase(o)
    /\ UNCHANGED <<plan, arm>> => Mode' = Mode /\ Clear' = Clear
BY DEF OfThisArm, OfThisCase, Mode, Clear

(* A repair teaches the store at most one observation, of this case. *)
LEMMA RepairTeaches ==
    Repair => \A o \in mem' : o \in mem \/ OfThisCase(o)
BY DEF Repair, OfThisCase, OfThisArm

(* Rules of one sample are gone before the next one starts. *)
LEMMA StaysUnapplied == LInv /\ Next => Unapplied'
BY DEF LInv, Unapplied, Next, StartArm, MakeOrchestrator, StartSample, Solve, Repair,
       SaveOpens, SaveWrites, SaveFails, SampleRaises, NextSample, NextCase, Killed,
       Relaunch, Ended

(* A cleared run stays cold: the file it starts with is empty, and then    *)
(* the file, the stores loaded from it and the rules hold what the run     *)
(* itself has taught.                                                      *)
LEMMA StaysCold == LInv /\ Next => FileCold' /\ StoreCold' /\ RulesCold'
<1> SUFFICES ASSUME LInv, Next PROVE FileCold' /\ StoreCold' /\ RulesCold'
  OBVIOUS
<1>1. FileCold /\ StoreCold /\ RulesCold /\ Unapplied
  BY DEF LInv
<1> USE <1>1 DEF FileCold, StoreCold, RulesCold, InArm, InCase, Running
<1>2. CASE StartArm
  <2>1. pc' = "orch" /\ (Clear' => file'.obs = {})
    BY <1>2, FilesDiffer DEF StartArm, Cleared, Clear
  <2> QED
    BY <2>1
<1>3. CASE MakeOrchestrator
  <2>1. /\ UNCHANGED <<launch, plan, arm, file>> /\ pc = "orch"
        /\ pc' = "failed" \/ (pc' = "sample" /\ mem' \subseteq file.obs)
    BY <1>3 DEF MakeOrchestrator, Loaded, store
  <2> QED
    BY <2>1, OwnLessons
<1>4. CASE StartSample
  BY <1>4, OwnLessons, ActiveOfStore DEF StartSample, where, store
<1>5. CASE Repair
  <2>1. /\ UNCHANGED <<launch, plan, arm, file, applied>> /\ pc = "repair"
        /\ \A o \in mem' : o \in mem \/ OfThisArm(o)
    BY <1>5, RepairTeaches DEF Repair, where, store, OfThisCase
  <2> QED
    BY <2>1, OwnLessons
<1>6. CASE SaveOpens \/ SaveWrites
  BY <1>6, OwnLessons, FilesDiffer DEF SaveOpens, SaveWrites, where
<1>7. CASE Solve \/ SaveFails \/ SampleRaises
  <2>1. UNCHANGED <<launch, plan, arm, file, mem, applied>> /\ InCase
    BY <1>7 DEF Solve, SaveFails, SampleRaises, where, store
  <2>2. CASE pc = "sample"
    BY <1>1, <2>1, <2>2, OwnLessons DEF Unapplied
  <2>3. CASE pc # "sample"
    BY <2>1, <2>3, OwnLessons
  <2> QED
    BY <2>2, <2>3
<1>8. CASE NextSample
  BY <1>8, OwnLessons DEF NextSample, store
<1>9. CASE NextCase
  <2>1. pc' \in {"orch", "arm", "done"} /\ UNCHANGED <<launch, plan, arm, file>>
    BY <1>9 DEF NextCase, store
  <2> QED
    BY <1>9, <2>1, OwnLessons DEF NextCase
<1>10. CASE Killed \/ Relaunch
  BY <1>10 DEF Killed, Relaunch
<1> QED
  BY <1>2, <1>3, <1>4, <1>5, <1>6, <1>7, <1>8, <1>9, <1>10 DEF Next

(* The store of the null mode starts empty in every case, so that what it  *)
(* holds, and what a sample applies of it, was taught in the case.         *)
LEMMA StaysBlind == LInv /\ Next => StoreBlind' /\ NullModeBlind'
<1> SUFFICES ASSUME LInv, Next PROVE StoreBlind' /\ NullModeBlind'
  OBVIOUS
<1>1. StoreBlind /\ NullModeBlind /\ Unapplied
  BY DEF LInv
<1> USE <1>1 DEF StoreBlind, NullModeBlind, InCase, Running
<1>2. CASE StartArm \/ NextCase \/ Killed \/ Relaunch
  <2>1. ~InCase'
    BY <1>2 DEF StartArm, NextCase, Killed, Relaunch
  <2> QED
    BY <2>1
<1>3. CASE MakeOrchestrator
  <2>1. /\ UNCHANGED <<plan, arm>>
        /\ pc' = "failed" \/ (pc' = "sample" /\ (Mode = Null => mem' = {}))
    BY <1>3 DEF MakeOrchestrator, Loaded
  <2> QED
    BY <2>1, OwnLessons
<1>4. CASE StartSample
  BY <1>4, OwnLessons, ActiveOfStore DEF StartSample, where
<1>5. CASE Repair
  BY <1>5, OwnLessons, RepairTeaches DEF Repair, where
<1>6. CASE SaveOpens \/ SaveWrites \/ SaveFails \/ Solve \/ SampleRaises
  <2>1. UNCHANGED <<launch, plan, arm, case, mem, applied>> /\ InCase
    BY <1>6 DEF SaveOpens, SaveWrites, SaveFails, Solve, SampleRaises, where
  <2>2. CASE pc = "sample"
    BY <1>1, <2>1, <2>2, OwnLessons DEF Unapplied
  <2>3. CASE pc # "sample"
    BY <2>1, <2>3, OwnLessons
  <2> QED
    BY <2>2, <2>3
<1>7. CASE NextSample
  BY <1>7, OwnLessons DEF NextSample
<1> QED
  BY <1>2, <1>3, <1>4, <1>5, <1>6, <1>7 DEF Next

(* The file stays the last store written, and the stores loaded from it    *)
(* keep all of it.                                                         *)
LEMMA StaysSaved == LInv /\ Next => FileIsSaved' /\ SavedIsLoaded'
<1> SUFFICES ASSUME LInv, Next PROVE FileIsSaved' /\ SavedIsLoaded'
  OBVIOUS
<1>1. FileIsSaved /\ SavedIsLoaded /\ Typed
  BY DEF LInv
<1> USE <1>1, FilesDiffer DEF FileIsSaved, SavedIsLoaded, InCase
<1>2. CASE StartArm
  BY <1>2 DEF StartArm, Cleared
<1>3. CASE MakeOrchestrator
  <2>1. /\ UNCHANGED <<plan, arm, file, saved>>
        /\ \/ pc' = "failed"
           \/ /\ file # Torn
              /\ Mode # Null => mem' = file.obs
    BY <1>3 DEF MakeOrchestrator, Loaded, store
  <2>2. file # Torn => saved = file.obs
    BY DEF Typed
  <2> QED
    BY <2>1, <2>2, OwnLessons
<1>4. CASE Repair
  <2>1. UNCHANGED <<plan, arm, file, saved>> /\ mem \subseteq mem' /\ pc = "repair"
    BY <1>4 DEF Repair, where, store
  <2> QED
    BY <2>1, OwnLessons
<1>5. CASE SaveOpens \/ SaveWrites
  BY <1>5, OwnLessons DEF SaveOpens, SaveWrites, where
<1>6. CASE StartSample \/ Solve \/ SaveFails \/ SampleRaises \/ NextSample
  BY <1>6, OwnLessons
     DEF StartSample, Solve, SaveFails, SampleRaises, NextSample, where, store
<1>7. CASE NextCase \/ Killed \/ Relaunch
  BY <1>7 DEF NextCase, Killed, Relaunch, store
<1> QED
  BY <1>2, <1>3, <1>4, <1>5, <1>6, <1>7 DEF Next

(* A cleared run does not meet a torn file at its first case. *)
LEMMA StaysRecoverable == LInv /\ Next => FirstCaseClean' /\ ClearingRecovers'
<1> SUFFICES ASSUME LInv, Next PROVE FirstCaseClean' /\ ClearingRecovers'
  OBVIOUS
<1>1. FirstCaseClean /\ ClearingRecovers /\ case \in 1..NCases /\ NCases \in Nat
  BY BoundsAssumption DEF LInv, Placed
<1> USE <1>1 DEF FirstCaseClean, ClearingRecovers
<1>2. CASE StartArm
  <2>1. pc' = "orch" /\ (Clear' => file' = Absent)
    BY <1>2 DEF StartArm, Cleared, Clear
  <2> QED
    BY <2>1, FilesDiffer
<1>3. CASE MakeOrchestrator
  <2>1. /\ UNCHANGED <<plan, arm, case, file>> /\ pc = "orch"
        /\ pc' = "sample" \/ (pc' = "failed" /\ file = Torn)
    BY <1>3 DEF MakeOrchestrator, store
  <2> QED
    BY <2>1, OwnLessons
<1>4. CASE NextCase
  <2>1. pc' \in {"arm", "done"} \/ (pc' = "orch" /\ case' = case + 1)
    BY <1>4 DEF NextCase
  <2> QED
    BY <2>1
<1>5. CASE ~(StartArm \/ MakeOrchestrator \/ NextCase)
  <2>1. pc' \notin {"orch", "failed"}
    BY <1>5 DEF Next, StartSample, Solve, Repair, SaveOpens, SaveWrites, SaveFails,
       SampleRaises, NextSample, Killed, Relaunch
  <2> QED
    BY <2>1
<1> QED
  BY <1>2, <1>3, <1>4, <1>5

-----------------------------------------------------------------------------

(* The strengthened invariant holds in every history of launches. *)
THEOREM LearningInvariance == Spec => []LInv
<1>1. LInv /\ Next => LInv'
  BY StaysPlaced, StaysTyped, StaysWindow, StaysUnapplied, StaysCold, StaysBlind,
     StaysSaved, StaysRecoverable DEF LInv
<1>2. LInv /\ UNCHANGED vars => LInv'
  <2> SUFFICES ASSUME LInv, UNCHANGED vars PROVE LInv'
    OBVIOUS
  <2> USE DEF vars, where, store, lessons
  <2>1. Placed' /\ Typed' /\ Window' /\ Unapplied'
    BY DEF LInv, Placed, Typed, Window, Unapplied, InArm, InCase
  <2>2. FileCold' /\ StoreCold' /\ RulesCold' /\ StoreBlind' /\ NullModeBlind'
    BY OwnLessons
       DEF LInv, FileCold, StoreCold, RulesCold, StoreBlind, NullModeBlind, InArm,
           InCase, Running
  <2>3. FileIsSaved' /\ SavedIsLoaded' /\ FirstCaseClean' /\ ClearingRecovers'
    BY OwnLessons
       DEF LInv, FileIsSaved, SavedIsLoaded, FirstCaseClean, ClearingRecovers, InCase
  <2> QED
    BY <2>1, <2>2, <2>3 DEF LInv
<1> QED
  BY LInitInv, <1>1, <1>2, PTL DEF Spec

(* Every variable of the learning state keeps its type. *)
THEOREM LearningTypeCorrect == Spec => []TypeOK
<1>1. LInv => TypeOK
  BY DEF LInv, Placed, Typed, Window, TypeOK, InCase
<1> QED
  BY <1>1, LearningInvariance, PTL

(* A cleared run knows and applies only what it has learned itself,        *)
(* whatever earlier runs and killed launches left in the file.             *)
THEOREM ClearedRunsAreCold == Spec => []ColdStart
<1>1. LInv => ColdStart
  BY DEF LInv, StoreCold, RulesCold, ColdStart, Running, InCase
<1> QED
  BY <1>1, LearningInvariance, PTL

(* The null mode applies nothing that was learned outside the case. *)
THEOREM NullModeIsBlind == Spec => []NullModeBlind
<1>1. LInv => NullModeBlind
  BY DEF LInv
<1> QED
  BY <1>1, LearningInvariance, PTL

(* A torn file never stops a cleared run at its first case. *)
THEOREM ClearingRecoversTornFiles == Spec => []ClearingRecovers
<1>1. LInv => ClearingRecovers
  BY DEF LInv
<1> QED
  BY <1>1, LearningInvariance, PTL

(* Outside the null mode a completed save keeps what earlier ones wrote. *)
THEOREM SavesKeepLearning == Spec => LearningKept
<1>1. LInv /\ [Next]_vars =>
          [saved' # saved /\ pc = "write" /\ Mode # Null => saved \subseteq saved']_vars
  <2> SUFFICES ASSUME LInv, Next, saved' # saved, pc = "write", Mode # Null
               PROVE  saved \subseteq saved'
    OBVIOUS
  <2>1. saved' = mem
    BY DEF Next, StartArm, MakeOrchestrator, StartSample, Solve, Repair, SaveOpens,
       SaveWrites, SaveFails, SampleRaises, NextSample, NextCase, Killed, Relaunch,
       store
  <2> QED
    BY <2>1 DEF LInv, SavedIsLoaded, InCase
<1> QED
  BY <1>1, LearningInvariance, PTL DEF Spec, LearningKept

-----------------------------------------------------------------------------
(* LLMCalls.                                                               *)

Requests == [call : Nat, reply : Replies \cup {None, "judged"}, late : BOOLEAN]
Turns(R) == [role : {"user", "assistant"}, call : Nat, text : R]

(* Requests and turns are recorded in sequences. *)
RequestsRecorded ==
    /\ calls \in Nat
    /\ requests \in Seq(Requests)
    /\ \E R : history \in Seq(Turns(R))
    /\ phase \in {"idle", "attempt", "join"}

(* The request that is waited for is the newest one, made by this call and *)
(* not given up; a call that is under way has no outcome yet, and one that *)
(* returned did so by its last request.                                    *)
Waiting ==
    /\ phase = "join" => /\ Len(requests) > 0
                         /\ requests[Len(requests)].call = calls
                         /\ ~requests[Len(requests)].late
    /\ phase # "idle" => outcome = None
    /\ outcome # None /\ outcome.ok =>
         /\ outcome.by = Len(requests) /\ Len(requests) > 0
         /\ requests[Len(requests)].call = calls
         /\ ~requests[Len(requests)].late

(* While a conversation waits, its last turn is the one to be answered;    *)
(* every answer so far follows its question.                               *)
Answered(i) ==
    history[i].role = "assistant" =>
        i > 1 /\ history[i - 1].role = "user" /\ history[i - 1].call = history[i].call

Conversing ==
    /\ phase # "idle" => call.kind \in {"chat", "send"}
    /\ phase # "idle" /\ call.kind = "send" =>
         /\ Len(history) > 0
         /\ history[Len(history)].role = "user" /\ history[Len(history)].call = calls
    /\ \A i \in 1..Len(history) : Answered(i)

CallInv == RequestsRecorded /\ Waiting /\ Conversing

(* Every request and every turn is of a call made so far. *)
Numbered ==
    /\ calls \in 0..MaxCalls /\ count \in 0..calls
    /\ \A i \in 1..Len(requests) : requests[i].call \in 1..calls
    /\ \A i \in 1..Len(history) : history[i].call \in 1..calls
    /\ phase # "idle" => calls > 0
    /\ outcome # None => outcome.ok \/ outcome.why \in Outcomes

(* The longest a call may have slept before its (n + 1)st attempt: 15, 30, *)
(* 60 and then 120 seconds at a time.                                      *)
LongestWait == <<0, 15, 45, 105, 225, 345>>

(* A call has sent one request per attempt begun, and what it slept so far *)
(* is bounded by the attempts behind it.                                   *)
Spent ==
    /\ waited \in 0..420
    /\ phase # "idle" => /\ attempt \in 0..(MaxRetries(call.provider) - 1)
                         /\ waited <= LongestWait[attempt + 1]
    /\ phase = "attempt" => Sent(calls) = attempt
    /\ phase = "join" => Sent(calls) = attempt + 1
    /\ phase = "idle" /\ call # None => Sent(calls) <= MaxRetries(call.provider)
    /\ outcome # None /\ outcome.why = "transient" => Sent(calls) = MaxRetries(call.provider)

SpendInv == CallInv /\ Numbered /\ Spent

-----------------------------------------------------------------------------

(* It holds at first. *)
LEMMA CallInitInv == CallInit => CallInv
<1> SUFFICES ASSUME CallInit PROVE CallInv
  OBVIOUS
<1>1. requests \in Seq(Requests) /\ history \in Seq(Turns({}))
  BY EmptySeq DEF CallInit
<1>2. Len(history) = 0
  BY EmptySeq DEF CallInit
<1> QED
  BY <1>1, <1>2 DEF CallInit, CallInv, RequestsRecorded, Waiting, Conversing

(* A sequence over a set is one over a larger set. *)
LEMMA WiderSequence ==
    ASSUME NEW S, NEW T, S \subseteq T, NEW s \in Seq(S)
    PROVE  s \in Seq(T)
OBVIOUS

(* Turns stay turns when there are more requests. *)
LEMMA Wider ==
    ASSUME NEW R, NEW Q, NEW s \in Seq(Turns(R))
    PROVE  s \in Seq(Turns(R \cup Q))
<1>1. Turns(R) \subseteq Turns(R \cup Q)
  BY DEF Turns
<1> QED
  BY <1>1, WiderSequence

(* A turn of the user, or an answer to the last one, keeps the order. *)
LEMMA TurnAdded ==
    ASSUME CallInv, NEW r \in {"user", "assistant"}, NEW c \in Nat, NEW x,
           r = "assistant" =>
               Len(history) > 0 /\ history[Len(history)].role = "user"
                                /\ history[Len(history)].call = c
    PROVE  LET h == Append(history, [role |-> r, call |-> c, text |-> x])
           IN  /\ \E R : h \in Seq(Turns(R))
               /\ Len(h) = Len(history) + 1 /\ Len(history) \in Nat
               /\ h[Len(h)].role = r /\ h[Len(h)].call = c
               /\ \A i \in 1..Len(h) :
                     h[i].role = "assistant" =>
                         i > 1 /\ h[i - 1].role = "user" /\ h[i - 1].call = h[i].call
<1>1. PICK R : history \in Seq(Turns(R))
  BY DEF CallInv, RequestsRecorded
<1> DEFINE t == [role |-> r, call |-> c, text |-> x]
           h == Append(history, t)
<1>2. history \in Seq(Turns(R \cup {x}))
  BY <1>1, Wider
<1>3. t \in Turns(R \cup {x})
  BY DEF Turns
<1>4. /\ h \in Seq(Turns(R \cup {x})) /\ Len(h) = Len(history) + 1
      /\ \A i \in 1..Len(history) : h[i] = history[i]
      /\ h[Len(history) + 1] = t
  BY <1>2, <1>3, AppendProperties
<1>5. Len(history) \in Nat
  BY <1>1, LenProperties
<1>6. t.role = r /\ t.call = c
  OBVIOUS
<1> HIDE DEF t, h
<1>7. ASSUME NEW i \in 1..Len(h), h[i].role = "assistant"
      PROVE  i > 1 /\ h[i - 1].role = "user" /\ h[i - 1].call = h[i].call
  <2>1. CASE i \in 1..Len(history)
    BY <1>4, <1>5, <1>7, <2>1 DEF CallInv, Conversing, Answered
  <2>2. CASE i = Len(history) + 1
    BY <1>4, <1>5, <1>6, <1>7, <2>2
  <2> QED
    BY <1>4, <1>5, <2>1, <2>2
<1> QED
  BY <1>4, <1>5, <1>6, <1>7 DEF h, t

(* A new call forgets the outcome of the one before. *)
LEMMA StartInv ==
    ASSUME CallInv, NEW fs, Chat(fs) \/ Send(fs)
    PROVE  CallInv'
<1>1. calls \in Nat /\ calls' = calls + 1 /\ requests' = requests
  BY DEF CallInv, RequestsRecorded, Chat, Send
<1>2. phase' \in {"idle", "attempt"} /\ (phase' # "idle" => outcome' = None)
      /\ (outcome' # None => ~outcome'.ok)
  BY DEF CallInv, RequestsRecorded, Chat, Send, Started, Refused, Raised
<1>3. CASE Chat(fs)
  <2>1. history' = history /\ call'.kind = "chat"
    BY <1>3 DEF Chat
  <2> QED
    BY <1>1, <1>2, <2>1 DEF CallInv, RequestsRecorded, Waiting, Conversing, Answered
<1>4. CASE Send(fs)
  <2>1. history' = Append(history, [role |-> "user", call |-> calls + 1, text |-> "text"])
        /\ call'.kind = "send"
    BY <1>4 DEF Send, UserTurn
  <2>2. /\ \E R : history' \in Seq(Turns(R))
        /\ Len(history') > 0
        /\ history'[Len(history')].role = "user" /\ history'[Len(history')].call = calls'
        /\ \A i \in 1..Len(history') : Answered(i)'
    BY <1>1, <2>1, TurnAdded DEF Answered
  <2> QED
    BY <1>1, <1>2, <2>1, <2>2 DEF CallInv, RequestsRecorded, Waiting, Conversing
<1> QED
  BY <1>3, <1>4

(* A request becomes the newest, and is this call's. *)
LEMMA RequestInv == ASSUME CallInv, Request PROVE CallInv'
<1> DEFINE r == [call |-> calls, reply |-> None, late |-> FALSE]
<1>1. r \in Requests
  BY DEF Requests, CallInv, RequestsRecorded
<1>2. /\ requests' \in Seq(Requests) /\ Len(requests') = Len(requests) + 1
      /\ requests'[Len(requests')] = r /\ Len(requests) \in Nat
  BY <1>1, AppendProperties, LenProperties DEF Request, CallInv, RequestsRecorded
<1>3. Waiting'
  BY <1>2 DEF Request, CallInv, Waiting
<1> QED
  BY <1>2, <1>3 DEF Request, CallInv, RequestsRecorded, Conversing, Answered

(* Writing a reply, or giving up on one that is not the newest, changes    *)
(* neither whose a request is nor which is the newest.                     *)
LEMMA ReplyWritten ==
    ASSUME CallInv, NEW i \in 1..Len(requests), NEW x \in Replies \cup {None, "judged"},
           requests' = [requests EXCEPT ![i].reply = x]
    PROVE  /\ requests' \in Seq(Requests) /\ Len(requests') = Len(requests)
           /\ \A j \in 1..Len(requests) : requests'[j].call = requests[j].call
                                          /\ requests'[j].late = requests[j].late
<1>1. requests \in Seq(Requests) /\ requests[i] \in Requests
  BY ElementOfSeq DEF CallInv, RequestsRecorded
<1> DEFINE r == [requests[i] EXCEPT !.reply = x]
<1>2. r \in Requests /\ r.call = requests[i].call /\ r.late = requests[i].late
  BY <1>1 DEF Requests
<1>3. requests' = [requests EXCEPT ![i] = r]
  OBVIOUS
<1> HIDE DEF r
<1> QED
  BY <1>1, <1>2, <1>3, ExceptSeq

(* An answer, late or not, goes to the request it is of. *)
LEMMA AnswerInv == ASSUME CallInv, NEW i \in DOMAIN requests, Answer(i) PROVE CallInv'
<1>1. i \in 1..Len(requests) /\ Len(requests) \in Nat
  BY LenProperties DEF CallInv, RequestsRecorded
<1>2. PICK x \in Replies : requests' = [requests EXCEPT ![i].reply = x]
  BY DEF Answer, Replies
<1>3. /\ requests' \in Seq(Requests) /\ Len(requests') = Len(requests)
      /\ \A j \in 1..Len(requests) : requests'[j].call = requests[j].call
                                     /\ requests'[j].late = requests[j].late
  BY <1>1, <1>2, ReplyWritten
<1>4. UNCHANGED <<phase, call, calls, history, outcome>>
  BY DEF Answer
<1>5. Waiting'
  BY <1>1, <1>3, <1>4 DEF CallInv, Waiting
<1> QED
  BY <1>3, <1>4, <1>5 DEF CallInv, RequestsRecorded, Conversing, Answered

(* The verdict on an attempt: another attempt, an exception, or the reply  *)
(* and, in a conversation, its turn.                                       *)
LEMMA JudgeInv ==
    ASSUME CallInv, phase = "join", NEW reply, NEW by, Judge(reply, by),
           UNCHANGED <<call, calls>>
    PROVE  /\ phase' \in {"idle", "attempt"}
           /\ \E R : history' \in Seq(Turns(R))
           /\ phase' # "idle" => outcome' = None
           /\ outcome' # None /\ outcome'.ok => outcome'.by = by /\ reply # "transient"
           /\ Conversing'
<1>0. outcome = None /\ calls \in Nat
  BY DEF CallInv, Waiting, RequestsRecorded
<1>1. CASE history' = history
  <2>1. phase' \in {"idle", "attempt"} /\ (phase' # "idle" => outcome' = None)
        /\ (outcome' # None /\ outcome'.ok => outcome'.by = by /\ reply # "transient")
    BY <1>0 DEF Judge, Return, Raised, Returned
  <2> QED
    BY <1>1, <2>1 DEF CallInv, RequestsRecorded, Conversing, Answered
<1>2. CASE history' # history
  <2>1. /\ phase' = "idle" /\ reply # "transient" /\ call.kind = "send"
        /\ outcome' = Returned(StrippedReply(reply), by)
        /\ history' = Append(history, AssistantTurn(calls, StrippedReply(reply)))
    BY <1>2 DEF Judge, Return
  <2>2. /\ \E R : history' \in Seq(Turns(R))
        /\ \A i \in 1..Len(history') : Answered(i)'
    BY <1>0, <2>1, TurnAdded DEF Answered, AssistantTurn, CallInv, Conversing
  <2> QED
    BY <2>1, <2>2 DEF Returned, Conversing
<1> QED
  BY <1>1, <1>2

(* The reply taken is that of the request waited for. *)
LEMMA JoinReturnsInv == ASSUME CallInv, JoinReturns PROVE CallInv'
<1>1. Len(requests) \in Nat /\ Len(requests) > 0 /\ requests[Len(requests)].call = calls
      /\ ~requests[Len(requests)].late
  BY LenProperties DEF CallInv, RequestsRecorded, Waiting, JoinReturns
<1>2. /\ requests' \in Seq(Requests) /\ Len(requests') = Len(requests)
      /\ \A j \in 1..Len(requests) : requests'[j].call = requests[j].call
                                     /\ requests'[j].late = requests[j].late
  <2>1. requests' = [requests EXCEPT ![Len(requests)].reply = "judged"]
    BY DEF JoinReturns, Box
  <2>2. Len(requests) \in 1..Len(requests)
    BY <1>1
  <2> QED
    BY <2>1, <2>2, ReplyWritten
<1>3. /\ phase' \in {"idle", "attempt"}
      /\ \E R : history' \in Seq(Turns(R))
      /\ phase' # "idle" => outcome' = None
      /\ outcome' # None /\ outcome'.ok => outcome'.by = Len(requests)
      /\ Conversing'
  BY JudgeInv DEF JoinReturns, Box
<1>4. calls' = calls
  BY DEF JoinReturns
<1> QED
  BY <1>1, <1>2, <1>3, <1>4 DEF CallInv, RequestsRecorded, Waiting

(* A request given up is not waited for again. *)
LEMMA TimesOutInv == ASSUME CallInv, TimesOut PROVE CallInv'
<1>1. Len(requests) \in Nat /\ Len(requests) > 0
  BY LenProperties DEF CallInv, RequestsRecorded, Waiting, TimesOut
<1>2. requests' \in Seq(Requests)
  <2>1. requests \in Seq(Requests) /\ requests[Len(requests)] \in Requests
    BY <1>1, ElementOfSeq DEF CallInv, RequestsRecorded
  <2> DEFINE r == [requests[Len(requests)] EXCEPT !.late = TRUE]
  <2>2. r \in Requests
    BY <2>1 DEF Requests
  <2>3. requests' = [requests EXCEPT ![Len(requests)] = r]
    BY DEF TimesOut
  <2> HIDE DEF r
  <2> QED
    BY <1>1, <2>1, <2>2, <2>3, ExceptSeq
<1>3. /\ phase' \in {"idle", "attempt"}
      /\ \E R : history' \in Seq(Turns(R))
      /\ phase' # "idle" => outcome' = None
      /\ ~(outcome' # None /\ outcome'.ok)
      /\ Conversing'
  BY JudgeInv DEF TimesOut
<1>4. calls' = calls
  BY DEF TimesOut
<1> QED
  BY <1>2, <1>3, <1>4 DEF CallInv, RequestsRecorded, Waiting

(* Forgetting the conversation, or the count, happens between calls. *)
LEMMA ResetInv == ASSUME CallInv, Reset \/ ResetCallCount PROVE CallInv'
<1>1. CASE Reset
  <2>1. history' \in Seq(Turns({})) /\ Len(history') = 0
    BY <1>1, EmptySeq DEF Reset
  <2> QED
    BY <1>1, <2>1 DEF Reset, CallInv, RequestsRecorded, Waiting, Conversing
<1>2. CASE ResetCallCount
  BY <1>2 DEF ResetCallCount, CallInv, RequestsRecorded, Waiting, Conversing, Answered
<1> QED
  BY <1>1, <1>2

(* Every step preserves it. *)
LEMMA CallStepInv == CallInv /\ [CallNext]_callVars => CallInv'
<1> SUFFICES ASSUME CallInv, [CallNext]_callVars PROVE CallInv'
  OBVIOUS
<1>1. CASE \E fs \in Models : Chat(fs)
  BY <1>1, StartInv
<1>2. CASE \E fs \in Sessions : Send(fs)
  BY <1>2, StartInv
<1>3. CASE Client
  BY <1>3, RequestInv, JoinReturnsInv, TimesOutInv DEF Client
<1>4. CASE \E i \in DOMAIN requests : Answer(i)
  BY <1>4, AnswerInv
<1>5. CASE UNCHANGED callVars
  BY <1>5 DEF callVars, CallInv, RequestsRecorded, Waiting, Conversing, Answered
<1> QED
  BY <1>1, <1>2, <1>3, <1>4, <1>5, ResetInv DEF CallNext

-----------------------------------------------------------------------------
(* Attempts and delays.                                                    *)

RequestsOf(n) == {i \in 1..Len(requests) : requests[i].call = n}

(* Sent counts a finite set, empty for a call that is yet to come. *)
LEMMA SentCounts ==
    ASSUME SpendInv, NEW n \in Nat
    PROVE  /\ IsFiniteSet(RequestsOf(n)) /\ Sent(n) = Cardinality(RequestsOf(n))
           /\ Sent(n) \in Nat /\ Len(requests) \in Nat
           /\ n > calls => Sent(n) = 0
<1>1. Len(requests) \in Nat /\ DOMAIN requests = 1..Len(requests)
  BY LenProperties DEF SpendInv, CallInv, RequestsRecorded
<1>2. IsFiniteSet(RequestsOf(n))
  <2>1. IsFiniteSet(1..Len(requests)) /\ RequestsOf(n) \subseteq 1..Len(requests)
    BY <1>1, FS_Interval DEF RequestsOf
  <2> QED
    BY <2>1, FS_Subset
<1>3. Sent(n) = Cardinality(RequestsOf(n))
  BY <1>1 DEF Sent, RequestsOf
<1>4. ASSUME n > calls PROVE Sent(n) = 0
  <2>1. RequestsOf(n) = {}
    BY <1>4 DEF RequestsOf, SpendInv, Numbered
  <2> QED
    BY <1>3, <2>1, FS_EmptySet
<1> QED
  BY <1>1, <1>2, <1>3, <1>4, FS_CardinalityType

(* A reply written into a request leaves the count alone. *)
LEMMA SentKept ==
    ASSUME CallInv, CallInv', Len(requests') = Len(requests),
           \A j \in 1..Len(requests) : requests'[j].call = requests[j].call
    PROVE  \A n : Sent(n)' = Sent(n)
<1>1. DOMAIN requests = 1..Len(requests) /\ DOMAIN requests' = 1..Len(requests')
  BY LenProperties DEF CallInv, RequestsRecorded
<1>2. ASSUME NEW n
      PROVE  {i \in DOMAIN requests' : requests'[i].call = n}
             = {i \in DOMAIN requests : requests[i].call = n}
  BY <1>1
<1> QED
  BY <1>2 DEF Sent

(* Nothing is spent at first. *)
LEMMA SpendInit == CallInit => SpendInv
<1> SUFFICES ASSUME CallInit PROVE SpendInv
  OBVIOUS
<1>1. CallInv
  BY CallInitInv
<1>2. Len(requests) = 0 /\ Len(history) = 0
  BY EmptySeq DEF CallInit
<1>3. Numbered
  BY <1>2, CallsAssumption DEF CallInit, Numbered
<1>4. Spent
  BY DEF CallInit, Spent
<1> QED
  BY <1>1, <1>3, <1>4 DEF SpendInv

(* A new call has sent nothing and slept not at all. *)
LEMMA StartSpent ==
    ASSUME SpendInv, NEW fs, Chat(fs) \/ Send(fs)
    PROVE  Numbered' /\ Spent'
<1>0. CallInv /\ CallInv'
  BY StartInv DEF SpendInv
<1>1. /\ calls \in Nat /\ calls' = calls + 1 /\ calls < MaxCalls /\ requests' = requests
      /\ count' \in {count, count + 1}
  BY DEF SpendInv, Numbered, Chat, Send
<1>2. Sent(calls)' = 0
  <2>1. Sent(calls)' = Sent(calls + 1)
    BY <1>1 DEF Sent
  <2> QED
    BY <1>1, <2>1, SentCounts
<1>3. \/ phase' = "attempt" /\ attempt' = 0 /\ waited' = 0 /\ outcome' = None
      \/ /\ UNCHANGED <<phase, attempt, waited>> /\ phase = "idle"
         /\ outcome'.why \in {"ValueError", "EnvironmentError"}
  BY DEF Chat, Send, Started, Refused, Raised
<1>4. \A i \in 1..Len(history') : history'[i].call \in 1..calls'
  <2>1. CASE history' = history
    BY <1>1, <2>1 DEF SpendInv, Numbered
  <2>2. CASE Send(fs)
    <3>1. PICK R : history \in Seq(Turns(R))
      BY DEF SpendInv, CallInv, RequestsRecorded
    <3>2. /\ history \in Seq(Turns(R \cup {"text"})) /\ Len(history) \in Nat
          /\ UserTurn(calls + 1) \in Turns(R \cup {"text"})
          /\ UserTurn(calls + 1).call = calls + 1
      <4>1. history \in Seq(Turns(R \cup {"text"})) /\ Len(history) \in Nat
        BY <3>1, Wider, LenProperties
      <4>2. /\ UserTurn(calls + 1) \in Turns(R \cup {"text"})
            /\ UserTurn(calls + 1).call = calls + 1
        BY <1>1 DEF UserTurn, Turns
      <4> QED
        BY <4>1, <4>2
    <3>3. /\ Len(history') = Len(history) + 1
          /\ \A i \in 1..Len(history) : history'[i] = history[i]
          /\ history'[Len(history) + 1] = UserTurn(calls + 1)
      BY <2>2, <3>2, AppendProperties DEF Send
    <3> QED
      BY <1>1, <3>2, <3>3 DEF SpendInv, Numbered
  <2> QED
    BY <2>1, <2>2 DEF Chat
<1>5. Numbered'
  <2>1. outcome' # None => outcome'.why \in Outcomes
    BY <1>3 DEF Outcomes
  <2>2. calls' \in 0..MaxCalls /\ count' \in 0..calls' /\ calls' > 0
    BY <1>1, CallsAssumption DEF SpendInv, Numbered
  <2>3. \A i \in 1..Len(requests') : requests'[i].call \in 1..calls'
    BY <1>1 DEF SpendInv, Numbered
  <2> QED
    BY <1>4, <2>1, <2>2, <2>3 DEF Numbered
<1>6. MaxRetries(call'.provider) \in {3, 6} /\ LongestWait[1] = 0
  BY DEF MaxRetries, LongestWait
<1>7. Spent'
  <2>1. CASE phase' = "attempt" /\ attempt' = 0 /\ waited' = 0 /\ outcome' = None
    <3>1. MaxRetries(call.provider)' = MaxRetries(call'.provider)
      OBVIOUS
    <3>2. attempt' \in 0..(MaxRetries(call.provider)' - 1) /\ waited' <= LongestWait[attempt' + 1]
      BY <1>6, <2>1, <3>1
    <3> QED
      BY <1>2, <2>1, <3>2 DEF Spent
  <2>2. CASE /\ UNCHANGED <<phase, attempt, waited>> /\ phase = "idle"
             /\ outcome'.why \in {"ValueError", "EnvironmentError"}
    BY <1>2, <1>6, <2>2 DEF SpendInv, Spent
  <2> QED
    BY <1>3, <2>1, <2>2
<1> QED
  BY <1>5, <1>7

(* An attempt is one more request of the call. *)
LEMMA RequestSpent == ASSUME SpendInv, Request PROVE Numbered' /\ Spent'
<1> DEFINE r == [call |-> calls, reply |-> None, late |-> FALSE]
<1>1. r \in Requests /\ r.call = calls /\ calls \in Nat /\ requests \in Seq(Requests)
  BY DEF Requests, SpendInv, CallInv, RequestsRecorded
<1>2. /\ requests' \in Seq(Requests) /\ Len(requests') = Len(requests) + 1
      /\ requests'[Len(requests) + 1] = r /\ Len(requests) \in Nat
      /\ \A i \in 1..Len(requests) : requests'[i] = requests[i]
  BY <1>1, AppendProperties, LenProperties DEF Request
<1>3. Sent(calls)' = Sent(calls) + 1
  <2>1. DOMAIN requests' = 1..(Len(requests) + 1)
    BY <1>2, LenProperties
  <2>2. {i \in DOMAIN requests' : requests'[i].call = calls}
        = RequestsOf(calls) \cup {Len(requests) + 1}
    <3> HIDE DEF r
    <3> QED
      BY <1>1, <1>2, <2>1 DEF RequestsOf
  <2>3. Len(requests) + 1 \notin RequestsOf(calls)
    BY <1>2 DEF RequestsOf
  <2>4. Cardinality(RequestsOf(calls) \cup {Len(requests) + 1}) = Sent(calls) + 1
    <3>1. IsFiniteSet(RequestsOf(calls)) /\ Sent(calls) = Cardinality(RequestsOf(calls))
      BY <1>1, SentCounts
    <3> QED
      BY <2>3, <3>1, FS_AddElement
  <2> QED
    BY <2>2, <2>4 DEF Sent, Request
<1>4. phase = "attempt" /\ phase' = "join" /\ outcome = None
      /\ UNCHANGED <<call, calls, attempt, waited, count, history, outcome>>
  BY DEF Request, SpendInv, CallInv, Waiting
<1>5. Numbered'
  <2>1. calls > 0
    BY <1>4 DEF SpendInv, Numbered
  <2> QED
    BY <1>1, <1>2, <1>4, <2>1 DEF SpendInv, Numbered
<1>6. Spent'
  BY <1>3, <1>4 DEF SpendInv, Spent
<1> QED
  BY <1>5, <1>6

(* Delays double from the base up to their caps. *)
LEMMA DelaysBounded ==
    ASSUME NEW p, NEW n \in 0..(MaxRetries(p) - 2)
    PROVE  /\ Delay(p, n) \in Nat /\ EmptyDelay(n) \in Nat
           /\ LongestWait[n + 1] + Delay(p, n) <= LongestWait[n + 2]
           /\ LongestWait[n + 1] + EmptyDelay(n) <= LongestWait[n + 2]
           /\ LongestWait[n + 1] \in 0..345 /\ LongestWait[n + 2] \in 0..345
<1>1. 2^0 = 1 /\ 2^1 = 2 /\ 2^2 = 4 /\ 2^3 = 8 /\ 2^4 = 16
  OBVIOUS
<1>2. /\ LongestWait[1] = 0 /\ LongestWait[2] = 15 /\ LongestWait[3] = 45
      /\ LongestWait[4] = 105 /\ LongestWait[5] = 225 /\ LongestWait[6] = 345
  BY DEF LongestWait
<1>3. n \in 0..4 /\ (p = "ollama" => n \in 0..1)
  BY DEF MaxRetries
<1>4. CASE n = 0
  BY <1>1, <1>2, <1>4 DEF Delay, EmptyDelay, Least, BaseDelay
<1>5. CASE n = 1
  BY <1>1, <1>2, <1>5 DEF Delay, EmptyDelay, Least, BaseDelay
<1>6. CASE n = 2
  BY <1>1, <1>2, <1>3, <1>6 DEF Delay, EmptyDelay, Least, BaseDelay
<1>7. CASE n = 3
  BY <1>1, <1>2, <1>3, <1>7 DEF Delay, EmptyDelay, Least, BaseDelay
<1>8. CASE n = 4
  BY <1>1, <1>2, <1>3, <1>8 DEF Delay, EmptyDelay, Least, BaseDelay
<1> QED
  BY <1>3, <1>4, <1>5, <1>6, <1>7, <1>8

(* An answer costs the caller nothing. *)
LEMMA AnswerSpent ==
    ASSUME SpendInv, NEW i \in DOMAIN requests, Answer(i)
    PROVE  Numbered' /\ Spent'
<1>0. CallInv /\ CallInv'
  BY AnswerInv DEF SpendInv
<1>1. i \in 1..Len(requests)
  BY LenProperties DEF SpendInv, CallInv, RequestsRecorded
<1>2. PICK x \in Replies : requests' = [requests EXCEPT ![i].reply = x]
  BY DEF Answer, Replies
<1>3. /\ Len(requests') = Len(requests)
      /\ \A j \in 1..Len(requests) : requests'[j].call = requests[j].call
  BY <1>0, <1>1, <1>2, ReplyWritten
<1>4. UNCHANGED <<phase, call, calls, attempt, waited, count, history, outcome>>
  BY DEF Answer
<1>5. Sent(calls)' = Sent(calls)
  <2>1. \A n : Sent(n)' = Sent(n)
    BY <1>0, <1>3, SentKept
  <2>2. Sent(calls)' = Cardinality({k \in DOMAIN requests' : requests'[k].call = calls})
    BY <1>4 DEF Sent
  <2> QED
    BY <2>1, <2>2 DEF Sent
<1>6. Numbered'
  BY <1>3, <1>4 DEF SpendInv, Numbered
<1>7. Spent'
  BY <1>4, <1>5 DEF SpendInv, Spent
<1> QED
  BY <1>6, <1>7

(* Another attempt is paid for by its delay; without one the call ends,    *)
(* and a transient error ends it only after the last attempt.              *)
LEMMA JudgeSpent ==
    ASSUME SpendInv, phase = "join", NEW reply, NEW by, Judge(reply, by),
           UNCHANGED <<call, calls, count>>, Sent(calls)' = Sent(calls),
           Len(requests') = Len(requests),
           \A j \in 1..Len(requests) : requests'[j].call = requests[j].call
    PROVE  Numbered' /\ Spent'
<1>1. /\ outcome = None /\ calls \in Nat /\ attempt \in 0..(MaxRetries(call.provider) - 1)
      /\ waited \in 0..420 /\ waited <= LongestWait[attempt + 1] /\ Sent(calls) = attempt + 1
      /\ calls > 0 /\ calls \in 0..MaxCalls /\ count \in 0..calls
      /\ MaxRetries(call.provider) \in {3, 6}
  BY DEF SpendInv, CallInv, Waiting, RequestsRecorded, Numbered, Spent, MaxRetries
<1>2. \A i \in 1..Len(requests') : requests'[i].call \in 1..calls'
  BY DEF SpendInv, Numbered
<1>3. \A i \in 1..Len(history') : history'[i].call \in 1..calls'
  <2>1. CASE history' = history
    BY <2>1 DEF SpendInv, Numbered
  <2>2. CASE history' # history
    <3>1. history' = Append(history, AssistantTurn(calls, StrippedReply(reply)))
      BY <2>2 DEF Judge, Return
    <3> DEFINE x == StrippedReply(reply)
               t == AssistantTurn(calls, x)
    <3>2. PICK R : history \in Seq(Turns(R))
      BY DEF SpendInv, CallInv, RequestsRecorded
    <3>3. history \in Seq(Turns(R \cup {x})) /\ Len(history) \in Nat
      BY <3>2, Wider, LenProperties
    <3>4. t \in Turns(R \cup {x}) /\ t.call = calls
      <4> HIDE DEF x
      <4> QED
        BY <1>1 DEF AssistantTurn, Turns
    <3>5. history' = Append(history, t)
      BY <3>1
    <3> HIDE DEF x, t
    <3>6. /\ Len(history') = Len(history) + 1
          /\ \A i \in 1..Len(history) : history'[i] = history[i]
          /\ history'[Len(history) + 1] = t
      BY <3>3, <3>4, <3>5, AppendProperties
    <3>7. calls' = calls /\ \A i \in 1..Len(history) : history[i].call \in 1..calls
      BY DEF SpendInv, Numbered
    <3> QED
      BY <1>1, <3>3, <3>4, <3>6, <3>7
  <2> QED
    BY <2>1, <2>2
<1>4. CASE reply \in Empty \cup {"transient"} /\ CanRetry(call.provider, attempt)
  <2>1. attempt \in 0..(MaxRetries(call.provider) - 2)
    BY <1>1, <1>4 DEF CanRetry
  <2>2. /\ phase' = "attempt" /\ attempt' = attempt + 1 /\ UNCHANGED outcome
        /\ waited' \in {waited + EmptyDelay(attempt), waited + Delay(call.provider, attempt)}
    BY <1>4 DEF Judge
  <2>3. waited' \in 0..420 /\ waited' <= LongestWait[attempt + 2]
    <3> DEFINE d == Delay(call.provider, attempt)
               e == EmptyDelay(attempt)
               before == LongestWait[attempt + 1]
               after == LongestWait[attempt + 2]
    <3>1. /\ d \in Nat /\ e \in Nat /\ before + d <= after /\ before + e <= after
          /\ before \in 0..345 /\ after \in 0..345
      BY <2>1, DelaysBounded
    <3>2. waited' \in {waited + e, waited + d} /\ waited \in 0..420 /\ waited <= before
      BY <1>1, <2>2
    <3> HIDE DEF d, e, before, after
    <3>3. waited' \in 0..420 /\ waited' <= after
      BY <3>1, <3>2
    <3> QED
      BY <3>3 DEF after
  <2>4. Numbered'
    BY <1>1, <1>2, <1>3, <2>2 DEF Numbered
  <2>5. Spent'
    BY <1>1, <2>1, <2>2, <2>3 DEF Spent
  <2> QED
    BY <2>4, <2>5
<1>5. CASE ~(reply \in Empty \cup {"transient"} /\ CanRetry(call.provider, attempt))
  <2>1. phase' = "idle" /\ UNCHANGED <<attempt, waited>>
    BY <1>5 DEF Judge
  <2>2. \/ outcome'.why = reply /\ reply \in {"transient", "fatal"}
        \/ outcome'.why = "TypeError"
        \/ outcome'.why = None /\ outcome'.ok
    BY <1>5 DEF Judge, Return, Raised, Returned
  <2>3. outcome'.why = "transient" => Sent(calls) = MaxRetries(call.provider)
    <3>1. outcome'.why = "transient" => reply = "transient"
      BY <2>2, NoneAssumption
    <3> QED
      BY <1>1, <1>5, <3>1 DEF CanRetry
  <2>4. Numbered'
    BY <1>1, <1>2, <1>3, <2>1, <2>2 DEF Numbered, Outcomes
  <2>5. Spent'
    BY <1>1, <2>1, <2>3 DEF Spent
  <2> QED
    BY <2>4, <2>5
<1> QED
  BY <1>4, <1>5

(* The end of a wait costs a retry or ends the call. *)
LEMMA WaitSpent == ASSUME SpendInv, JoinReturns \/ TimesOut PROVE Numbered' /\ Spent'
<1>0. CallInv /\ CallInv' /\ phase = "join"
  BY JoinReturnsInv, TimesOutInv DEF SpendInv, JoinReturns, TimesOut
<1>1. Len(requests) \in 1..Len(requests) /\ requests \in Seq(Requests)
      /\ requests[Len(requests)] \in Requests
  BY <1>0, LenProperties, ElementOfSeq DEF CallInv, RequestsRecorded, Waiting
<1>2. /\ Len(requests') = Len(requests)
      /\ \A j \in 1..Len(requests) : requests'[j].call = requests[j].call
  <2>1. CASE JoinReturns
    BY <1>0, <1>1, <2>1, ReplyWritten DEF JoinReturns, Box
  <2>2. CASE TimesOut
    <3> DEFINE r == [requests[Len(requests)] EXCEPT !.late = TRUE]
    <3>1. r \in Requests /\ r.call = requests[Len(requests)].call
      BY <1>1 DEF Requests
    <3>2. requests' = [requests EXCEPT ![Len(requests)] = r]
      BY <2>2 DEF TimesOut
    <3> HIDE DEF r
    <3> QED
      BY <1>1, <3>1, <3>2, ExceptSeq
  <2> QED
    BY <2>1, <2>2
<1>3. UNCHANGED <<call, calls, count>> /\ \E reply, by : Judge(reply, by)
  BY DEF JoinReturns, TimesOut
<1>4. Sent(calls)' = Sent(calls)
  <2>1. \A n : Sent(n)' = Sent(n)
    BY <1>0, <1>2, SentKept
  <2>2. Sent(calls)' = Cardinality({k \in DOMAIN requests' : requests'[k].call = calls})
    BY <1>3 DEF Sent
  <2> QED
    BY <2>1, <2>2 DEF Sent
<1> QED
  BY <1>0, <1>2, <1>3, <1>4, JudgeSpent

(* Resetting the conversation or the counter costs nothing. *)
LEMMA ResetSpent == ASSUME SpendInv, Reset \/ ResetCallCount PROVE Numbered' /\ Spent'
<1>1. UNCHANGED <<phase, call, calls, attempt, waited, requests, outcome>>
  BY DEF Reset, ResetCallCount
<1>2. (history' = history \/ Len(history') = 0) /\ count' \in {count, 0}
  BY EmptySeq DEF Reset, ResetCallCount
<1>3. Numbered'
  BY <1>1, <1>2 DEF SpendInv, Numbered
<1>4. Sent(calls)' = Sent(calls)
  BY <1>1 DEF Sent
<1> QED
  BY <1>1, <1>3, <1>4 DEF SpendInv, Spent

(* Every step keeps the budget. *)
LEMMA SpendStep == SpendInv /\ [CallNext]_callVars => SpendInv'
<1> SUFFICES ASSUME SpendInv, [CallNext]_callVars PROVE SpendInv'
  OBVIOUS
<1>0. CallInv'
  BY CallStepInv DEF SpendInv
<1>1. CASE (\E fs \in Models : Chat(fs)) \/ (\E fs \in Sessions : Send(fs))
  BY <1>0, <1>1, StartSpent DEF SpendInv
<1>2. CASE Client
  BY <1>0, <1>2, RequestSpent, WaitSpent DEF Client, SpendInv
<1>3. CASE \E i \in DOMAIN requests : Answer(i)
  BY <1>0, <1>3, AnswerSpent DEF SpendInv
<1>4. CASE Reset \/ ResetCallCount
  BY <1>0, <1>4, ResetSpent DEF SpendInv
<1>5. CASE UNCHANGED callVars
  <2>1. Sent(calls)' = Sent(calls)
    BY <1>5 DEF callVars, Sent
  <2> QED
    BY <1>0, <1>5, <2>1 DEF callVars, SpendInv, Numbered, Spent
<1> QED
  BY <1>1, <1>2, <1>3, <1>4, <1>5 DEF CallNext

(* The invariant holds in every state. *)
THEOREM CallInvariance == CallSpec => []SpendInv
<1> QED
  BY SpendInit, SpendStep, PTL DEF CallSpec

(* Requests, turns and outcomes have their types, and the loop variable    *)
(* stays below the attempts of the provider in use.                        *)
THEOREM CallTypeCorrect == CallSpec => []CallTypeOK
<1>1. SpendInv => CallTypeOK
  <2> SUFFICES ASSUME SpendInv PROVE CallTypeOK
    OBVIOUS
  <2>1. /\ DOMAIN requests = 1..Len(requests)
        /\ \A i \in 1..Len(requests) : requests[i] \in Requests
    BY LenProperties, ElementOfSeq DEF SpendInv, CallInv, RequestsRecorded
  <2>2. PICK R : history \in Seq(Turns(R))
    BY DEF SpendInv, CallInv, RequestsRecorded
  <2>3. /\ DOMAIN history = 1..Len(history)
        /\ \A i \in 1..Len(history) : history[i] \in Turns(R)
    BY <2>2, LenProperties, ElementOfSeq
  <2>4. \A i \in DOMAIN requests :
            requests[i].reply \in Replies \cup {None, "judged"} /\ requests[i].call \in 1..calls
    BY <2>1 DEF Requests, SpendInv, Numbered
  <2>5. \A i \in DOMAIN history :
            history[i].role \in {"user", "assistant"} /\ history[i].call \in 1..calls
    BY <2>3 DEF Turns, SpendInv, Numbered
  <2>6. phase \in {"idle", "attempt", "join"}
    BY DEF SpendInv, CallInv, RequestsRecorded
  <2> QED
    BY <2>4, <2>5, <2>6 DEF SpendInv, Numbered, Spent, CallTypeOK
<1> QED
  BY <1>1, CallInvariance, PTL

(* A call returns its own answer and conversations keep question and       *)
(* answer together, whatever requests fail, hang or answer late.           *)
THEOREM RepliesAreOwn == CallSpec => []OwnReply
<1>1. SpendInv => OwnReply
  <2> SUFFICES ASSUME SpendInv PROVE OwnReply
    OBVIOUS
  <2>1. DOMAIN history = 1..Len(history)
    BY LenProperties DEF SpendInv, CallInv, RequestsRecorded
  <2> QED
    BY <2>1 DEF SpendInv, CallInv, Waiting, Conversing, Answered, OwnReply, Own
<1> QED
  BY <1>1, CallInvariance, PTL

(* However transient errors, timeouts and empty replies alternate, a call  *)
(* sleeps under seven minutes, sends no more requests than its provider    *)
(* has attempts, and gives up on a transient error only when all are used. *)
THEOREM RetriesAreBounded == CallSpec => []RetriesWithinBudget
<1>1. SpendInv => RetriesWithinBudget
  <2> SUFFICES ASSUME SpendInv PROVE RetriesWithinBudget
    OBVIOUS
  <2>1. call # None => Sent(calls) <= MaxRetries(call.provider)
    BY DEF SpendInv, CallInv, RequestsRecorded, Spent, MaxRetries
  <2> QED
    BY <2>1 DEF SpendInv, Spent, RetriesWithinBudget
<1> QED
  BY <1>1, CallInvariance, PTL

=============================================================================
