------------------------- MODULE RepairSearchProofs -------------------------
(***************************************************************************)
(* Proofs about RepairSearch, for every set of units, parameters and       *)
(* values, whatever the generators offer and validation rejects, and for   *)
(* every history limit, beam width and depth.  The properties of the log   *)
(* rest on what a beam state may hold: fixes of different units, each with *)
(* a value not in the memory the search started from.                      *)
(***************************************************************************)
EXTENDS RepairSearch, SequenceTheorems, FiniteSetTheorems, TLAPS

Fixes == [target : Targets, value : Values]
AttemptRecords ==
    [unit : Units, param : Params, value : Values, iteration : 1..MaxRepairs]

(* An attempt is stamped no later than now, and before the current call.   *)
Stamped ==
    \A i \in DOMAIN log :
        /\ log[i].iteration <= repairs
        /\ pc # "idle" => log[i].iteration < repairs

(* During a call there is a repair to count, and in a search an error.     *)
Called ==
    /\ pc # "idle" => repairs > 0
    /\ pc = "beam" \/ task.several => task.errors # {}
    /\ \A g \in Graphs, t \in Targets : \A v \in task.offer[g][t] : Rounded[v] = v

(* A trajectory that may be recorded.                                      *)
Fresh(tr) ==
    /\ \A i, j \in DOMAIN tr : i # j => tr[i].target[1] # tr[j].target[1]
    /\ \A i \in DOMAIN tr : tr[i].value \notin Tried(tr[i].target)

Exhausted ==
    \E t \in task.errors : \A v \in task.offer[graph][t] : HadValue(t, v)

BeamFresh == \A s \in beam : Fresh(s.trajectory)

(* A state without fixes is where the search started, and after a step was *)
(* passed through.                                                         *)
BeamSilent ==
    pc = "beam" =>
        \A s \in beam : s.trajectory = <<>> =>
            s.graph = graph /\ (step > 0 => Exhausted)

(* The scheduler counts the steps of the search.                           *)
InStep ==
    /\ sched.steps = step
    /\ step < Depth => sched.phase = "explore"
    /\ pc # "beam" => step = 0 /\ beam = {} /\ ~clean /\ sched = NewScheduler
    /\ clean => step > 0

SInv ==
    /\ TypeOK
    /\ Stamped /\ Called
    /\ OneAttemptPerRepair /\ RetriedOnlyWhenForgotten
    /\ BeamFresh /\ BeamSilent
    /\ InStep

-----------------------------------------------------------------------------

(* Errors of a graph are counted.                                          *)
LEMMA ErrorsCounted == \A g : NErrors(g) \in Nat
<1>1. TAKE g
<1>2. {t \in Targets : <<t, g[t]>> \in Faulty} \in SUBSET Targets
  OBVIOUS
<1>3. IsFiniteSet({t \in Targets : <<t, g[t]>> \in Faulty})
  BY <1>2, TargetsAssumption, FS_Subset
<1> QED
  BY <1>3, FS_CardinalityType DEF NErrors

(* Positions are finitely many.                                            *)
LEMMA InitialSegmentFinite == \A k \in Nat : IsFiniteSet(1..k)
<1> TAKE k \in Nat
<1>1. 1 \in Int /\ k \in Int
  OBVIOUS
<1> QED
  BY <1>1, FS_Interval

(* The attempts at a unit are finitely many.                               *)
LEMMA AttemptsFinite ==
    ASSUME NEW S, log \in Seq(S), NEW A, NEW u, A \subseteq Attempts(u)
    PROVE  IsFiniteSet(A) /\ Cardinality(A) \in Nat
<1>1. DOMAIN log = 1..Len(log) /\ Len(log) \in Nat
  BY LenProperties
<1>2. IsFiniteSet(1..Len(log))
  BY <1>1, InitialSegmentFinite
<1>3. A \in SUBSET (1..Len(log))
  BY <1>1 DEF Attempts
<1>4. IsFiniteSet(A)
  BY <1>2, <1>3, FS_Subset
<1> QED
  BY <1>4, FS_CardinalityType

(* The records of a trajectory.                                            *)
LEMMA RecordsOfTrajectory ==
    ASSUME NEW tr \in Seq(Fixes), repairs \in 1..MaxRepairs
    PROVE  /\ Recorded(tr) \in Seq(AttemptRecords)
           /\ Len(Recorded(tr)) = Len(tr)
           /\ DOMAIN tr = 1..Len(tr) /\ Len(tr) \in Nat
           /\ \A i \in 1..Len(tr) :
                /\ tr[i] \in Fixes
                /\ Recorded(tr)[i] = Attempt(tr[i].target, tr[i].value)
<1>1. DOMAIN tr = 1..Len(tr) /\ Len(tr) \in Nat
  BY LenProperties
<1>2. \A i \in 1..Len(tr) : tr[i] \in Fixes
  BY ElementOfSeq
<1>3. \A i \in 1..Len(tr) : Attempt(tr[i].target, tr[i].value) \in AttemptRecords
  <2> TAKE i \in 1..Len(tr)
  <2>1. tr[i].target \in Units \X Params /\ tr[i].value \in Values
    BY <1>2, TargetsAssumption DEF Fixes
  <2>2. tr[i].target[1] \in Units /\ tr[i].target[2] \in Params
    BY <2>1
  <2> QED
    BY <2>1, <2>2 DEF Attempt, AttemptRecords
<1>4. Recorded(tr) \in [1..Len(tr) -> AttemptRecords]
  BY <1>1, <1>3 DEF Recorded
<1>5. Recorded(tr) \in Seq(AttemptRecords)
  BY <1>1, <1>4, SeqDef
<1>6. Len(Recorded(tr)) = Len(tr)
  BY <1>1, <1>4, <1>5, LenProperties
<1> QED
  BY <1>1, <1>2, <1>5, <1>6 DEF Recorded

(* Recording a fresh trajectory keeps what is known of the log.            *)
LEMMA LogGrows ==
    ASSUME log \in Seq(AttemptRecords), repairs \in 1..MaxRepairs,
           MaxHistory \in Nat, MaxRepairs \in Nat,
           \A i \in DOMAIN log : log[i].iteration < repairs,
           OneAttemptPerRepair, RetriedOnlyWhenForgotten,
           NEW tr \in Seq(Fixes), Fresh(tr),
           log' = log \o Recorded(tr), repairs' = repairs
    PROVE  /\ log' \in Seq(AttemptRecords)
           /\ \A i \in DOMAIN log' : log'[i].iteration <= repairs
           /\ OneAttemptPerRepair'
           /\ RetriedOnlyWhenForgotten'
<1> DEFINE n == Len(log)
           m == Len(tr)
<1>1. /\ Recorded(tr) \in Seq(AttemptRecords) /\ Len(Recorded(tr)) = m
      /\ DOMAIN tr = 1..m /\ m \in Nat
      /\ \A i \in 1..m : /\ tr[i] \in Fixes
                         /\ Recorded(tr)[i] = Attempt(tr[i].target, tr[i].value)
  BY RecordsOfTrajectory
<1>2. n \in Nat /\ DOMAIN log = 1..n /\ \A i \in 1..n : log[i] \in AttemptRecords
  BY LenProperties, ElementOfSeq
<1>3. /\ log' \in Seq(AttemptRecords) /\ Len(log') = n + m
      /\ \A i \in 1..(n + m) :
            log'[i] = IF i <= n THEN log[i] ELSE Recorded(tr)[i - n]
  <2> DEFINE R == Recorded(tr)
  <2>1. R \in Seq(AttemptRecords) /\ Len(R) = m
    BY <1>1
  <2> HIDE DEF R
  <2>2. /\ log \o R \in Seq(AttemptRecords) /\ Len(log \o R) = Len(log) + Len(R)
        /\ \A i \in 1..(Len(log) + Len(R)) :
              (log \o R)[i] = IF i <= Len(log) THEN log[i] ELSE R[i - Len(log)]
    BY <2>1, ConcatProperties
  <2>3. log' = log \o R
    BY DEF R
  <2> QED
    BY <2>1, <2>2, <2>3 DEF R
<1>4. DOMAIN log' = 1..(n + m)
  BY <1>3, LenProperties
<1> HIDE DEF n, m
<1>5. \A i \in 1..n : i \in 1..(n + m) /\ log'[i] = log[i]
  BY <1>1, <1>2, <1>3
<1>6. ASSUME NEW i \in 1..(n + m), ~(i <= n)
      PROVE  /\ i - n \in 1..m
             /\ log'[i] = Attempt(tr[i - n].target, tr[i - n].value)
  <2>1. i - n \in 1..m
    BY <1>1, <1>2, <1>6
  <2> QED
    BY <1>1, <1>3, <1>6, <2>1
<1>7. \A i \in 1..(n + m) : i <= n => i \in 1..n
  BY <1>1, <1>2
<1>8. \A i \in 1..n : /\ log[i].iteration \in Int
                      /\ log[i].iteration < repairs /\ log[i].iteration # repairs
  <2> TAKE i \in 1..n
  <2>1. log[i] \in AttemptRecords /\ i \in DOMAIN log
    BY <1>2
  <2>2. log[i].iteration \in 1..MaxRepairs
    BY <2>1 DEF AttemptRecords
  <2>3. log[i].iteration < repairs
    BY <2>1
  <2> DEFINE a == log[i].iteration
  <2>4. a \in Int /\ repairs \in Int /\ a < repairs
    BY <2>2, <2>3
  <2> HIDE DEF a
  <2>5. a # repairs
    BY <2>4
  <2> QED
    BY <2>4, <2>5 DEF a
<1>14. ASSUME NEW i \in 1..(n + m), ~(i <= n)
       PROVE  log'[i].iteration = repairs
  <2>1. log'[i] = Attempt(tr[i - n].target, tr[i - n].value)
    BY <1>6, <1>14
  <2> QED
    BY <2>1 DEF Attempt
<1>15. ASSUME NEW i \in 1..(n + m), i <= n
       PROVE  /\ log'[i].iteration \in Int
              /\ log'[i].iteration < repairs /\ log'[i].iteration # repairs
  <2>1. log'[i] = log[i] /\ i \in 1..n
    BY <1>5, <1>7, <1>15
  <2> QED
    BY <2>1, <1>8
<1>9. ASSUME NEW i \in DOMAIN log' PROVE log'[i].iteration <= repairs
  <2>0. i \in 1..(n + m)
    BY <1>4
  <2>1. CASE i <= n
    <3>1. log'[i].iteration \in Int /\ log'[i].iteration < repairs
      BY <2>0, <2>1, <1>15
    <3> QED
      BY <3>1
  <2>2. CASE ~(i <= n)
    <3>1. log'[i].iteration = repairs
      BY <2>0, <2>2, <1>14
    <3> QED
      BY <3>1
  <2> QED
    BY <2>1, <2>2
<1>10. ASSUME NEW i \in 1..(n + m), NEW j \in 1..(n + m), ~(i <= n), ~(j <= n), i # j
       PROVE  log'[i].unit # log'[j].unit
  <2>1. i - n \in 1..m /\ j - n \in 1..m /\ i - n # j - n
    BY <1>2, <1>6, <1>10
  <2>2. tr[i - n].target[1] # tr[j - n].target[1]
    BY <2>1, <1>1 DEF Fresh
  <2>3. log'[i] = Attempt(tr[i - n].target, tr[i - n].value)
    BY <1>6, <1>10
  <2>4. log'[j] = Attempt(tr[j - n].target, tr[j - n].value)
    BY <1>6, <1>10
  <2> QED
    BY <2>2, <2>3, <2>4 DEF Attempt
<1>11. OneAttemptPerRepair'
  <2> SUFFICES ASSUME NEW i \in 1..(n + m), NEW j \in 1..(n + m), i # j,
                      log'[i].unit = log'[j].unit
               PROVE  log'[i].iteration # log'[j].iteration
    BY <1>4 DEF OneAttemptPerRepair
  <2>1. CASE i <= n /\ j <= n
    BY <2>1, <1>2, <1>5, <1>7 DEF OneAttemptPerRepair
  <2>2. CASE i <= n /\ ~(j <= n)
    <3>1. log'[j].iteration = repairs
      BY <2>2, <1>14
    <3>2. log'[i].iteration # repairs
      BY <2>2, <1>15
    <3> QED
      BY <3>1, <3>2
  <2>3. CASE ~(i <= n) /\ j <= n
    <3>1. log'[i].iteration = repairs
      BY <2>3, <1>14
    <3>2. log'[j].iteration # repairs
      BY <2>3, <1>15
    <3> QED
      BY <3>1, <3>2
  <2>4. CASE ~(i <= n) /\ ~(j <= n)
    BY <2>4, <1>10
  <2> QED
    BY <2>1, <2>2, <2>3, <2>4
<1> DEFINE After(u) == {k \in 1..(n + m) : log'[k].unit = u}
<1>12. \A u : \A k \in Attempts(u) : k \in After(u) /\ k \in 1..n
  <2> SUFFICES ASSUME NEW u, NEW k \in Attempts(u)
               PROVE  k \in After(u) /\ k \in 1..n
    OBVIOUS
  <2>1. k \in 1..n /\ log[k].unit = u
    BY <1>2 DEF Attempts
  <2> QED
    BY <2>1, <1>5
<1>13. RetriedOnlyWhenForgotten'
  <2> SUFFICES ASSUME NEW i \in 1..(n + m), NEW j \in 1..(n + m), i < j,
                      Same(log'[i], log'[j])
               PROVE  Cardinality({k \in After(log'[i].unit) : i < k /\ k < j})
                         >= MaxHistory
    BY <1>4 DEF RetriedOnlyWhenForgotten, Attempts
  <2> DEFINE u == log'[i].unit
             B == {k \in After(u) : i < k /\ k < j}
  <2>1. ASSUME NEW A, A \in SUBSET Attempts(u), A \subseteq B,
               Cardinality(A) >= MaxHistory
        PROVE  Cardinality(B) >= MaxHistory
    <3>1. IsFiniteSet(B) /\ Cardinality(B) \in Nat
      <4>1. n + m \in Nat
        BY <1>1, <1>2
      <4>2. B \in SUBSET (1..(n + m))
        OBVIOUS
      <4>3. IsFiniteSet(1..(n + m))
        BY <4>1, InitialSegmentFinite
      <4>4. IsFiniteSet(B)
        BY <4>2, <4>3, FS_Subset
      <4> QED
        BY <4>4, FS_CardinalityType
    <3>2. IsFiniteSet(A) /\ Cardinality(A) \in Nat
      BY <2>1, AttemptsFinite
    <3> HIDE DEF B
    <3>3. Cardinality(A) <= Cardinality(B)
      BY <2>1, <3>1, FS_Subset
    <3>4. Cardinality(A) >= MaxHistory
      BY <2>1
    <3> QED
      BY <3>1, <3>2, <3>3, <3>4
  <2>2. CASE j <= n
    <3>1. i \in 1..n /\ j \in 1..n /\ log'[i] = log[i] /\ log'[j] = log[j]
      BY <2>2, <1>2, <1>5, <1>7
    <3>2. Cardinality({k \in Attempts(u) : i < k /\ k < j}) >= MaxHistory
      BY <3>1, <1>2 DEF RetriedOnlyWhenForgotten
    <3> QED
      BY <3>2, <2>1, <1>12
  <2>3. CASE i <= n /\ ~(j <= n)
    <3> DEFINE t == tr[j - n].target
               v == tr[j - n].value
               A == {k \in Attempts(u) : i < k}
    <3>1. i \in 1..n /\ log'[i] = log[i]
      BY <2>3, <1>5, <1>7
    <3>2. j - n \in 1..m /\ log'[j] = Attempt(t, v)
      BY <2>3, <1>6
    <3>3. log[i].unit = t[1] /\ log[i].param = t[2] /\ log[i].value = v /\ u = t[1]
      BY <3>1, <3>2 DEF Same, Attempt
    <3>4. v \notin Tried(t)
      BY <3>2, <1>1 DEF Fresh
    <3>5. i \in Attempts(u)
      BY <3>1, <3>3, <1>2 DEF Attempts
    <3>6. ~(Cardinality(A) < MaxHistory)
      <4>1. i \notin Remembered(u)
        BY <3>3, <3>4 DEF Tried, TriesOf
      <4> QED
        BY <4>1, <3>5 DEF Remembered
    <3>7. Cardinality(A) \in Nat
      BY AttemptsFinite
    <3>8. A \subseteq B
      BY <1>12, <2>3, <3>1, <1>2
    <3>9. Cardinality(A) >= MaxHistory
      <4> HIDE DEF A
      <4> QED
        BY <3>6, <3>7
    <3>10. A \in SUBSET Attempts(u)
      OBVIOUS
    <3> QED
      BY <3>8, <3>9, <3>10, <2>1
  <2>4. CASE ~(i <= n) /\ ~(j <= n)
    <3>0. i # j
      OBVIOUS
    <3>1. log'[i].unit # log'[j].unit
      BY <2>4, <3>0, <1>10
    <3> QED
      BY <3>1 DEF Same
  <2> QED
    BY <2>2, <2>3, <2>4, <1>2
<1> QED
  BY <1>3, <1>9, <1>11, <1>13

(* An unchanged log keeps what is known of it.                             *)
LEMMA LogKept ==
    ASSUME log' = log, OneAttemptPerRepair, RetriedOnlyWhenForgotten
    PROVE  OneAttemptPerRepair' /\ RetriedOnlyWhenForgotten'
BY DEF OneAttemptPerRepair, RetriedOnlyWhenForgotten, Attempts

(* The empty trajectory.                                                   *)
LEMMA NothingFixed ==
    /\ <<>> \in Seq(Fixes) /\ Len(<<>>) = 0 /\ DOMAIN <<>> = {}
    /\ Fresh(<<>>)
<1>1. <<>> \in Seq(Fixes) /\ Len(<<>>) = 0 /\ DOMAIN <<>> = 1..0
  BY EmptySeq, LenProperties
<1> QED
  BY <1>1 DEF Fresh

(* A fix of an unfixed target with an untried value.                       *)
LEMMA FixExtends ==
    ASSUME NEW s, s.trajectory \in Seq(Fixes), Fresh(s.trajectory),
           NEW t \in Targets, t \in Unfixed(s), NEW v \in Values, v \notin Tried(t)
    PROVE  /\ Append(s.trajectory, Fix(t, v)) \in Seq(Fixes)
           /\ Fresh(Append(s.trajectory, Fix(t, v)))
           /\ Append(s.trajectory, Fix(t, v)) # <<>>
<1> DEFINE tr == s.trajectory
           f == Fix(t, v)
           new == Append(tr, f)
           m == Len(tr)
<1>1. f \in Fixes /\ f.target = t /\ f.value = v
  BY DEF Fix, Fixes
<1>2. m \in Nat /\ DOMAIN tr = 1..m
  BY LenProperties
<1>3. /\ new \in Seq(Fixes) /\ Len(new) = m + 1
      /\ \A i \in 1..m : new[i] = tr[i]
      /\ new[m + 1] = f
  BY <1>1, AppendProperties
<1>4. DOMAIN new = 1..(m + 1)
  BY <1>3, LenProperties
<1>5. new # <<>>
  BY <1>1, AppendProperties
<1>6. \A i \in 1..m : tr[i].target[1] # t[1]
  BY <1>2 DEF Unfixed, FixedTags
<1> HIDE DEF f, new, m, tr
<1>7. \A i \in 1..(m + 1) : i \in 1..m \/ i = m + 1
  BY <1>2
<1>8. \A i, j \in 1..m : i # j => tr[i].target[1] # tr[j].target[1]
  BY <1>2 DEF Fresh, tr
<1>9. \A i \in 1..m : tr[i].value \notin Tried(tr[i].target)
  BY <1>2 DEF Fresh, tr
<1>10. ASSUME NEW i \in 1..(m + 1), NEW j \in 1..(m + 1), i # j
       PROVE  new[i].target[1] # new[j].target[1]
  <2>1. CASE i \in 1..m /\ j \in 1..m
    BY <2>1, <1>3, <1>8, <1>10
  <2>2. CASE i \in 1..m /\ j = m + 1
    BY <2>2, <1>1, <1>3, <1>6
  <2>3. CASE i = m + 1 /\ j \in 1..m
    BY <2>3, <1>1, <1>3, <1>6
  <2> QED
    BY <2>1, <2>2, <2>3, <1>7, <1>10
<1>11. ASSUME NEW i \in 1..(m + 1)
       PROVE  new[i].value \notin Tried(new[i].target)
  BY <1>1, <1>3, <1>7, <1>9
<1>12. Fresh(new)
  BY <1>4, <1>10, <1>11 DEF Fresh
<1> QED
  BY <1>3, <1>5, <1>12 DEF new, f, tr

(* What is picked is an unfixed error.                                     *)
LEMMA PickedUnfixed == \A s : \A t \in Picked(s) : t \in Unfixed(s) /\ t \in task.errors
BY DEF Picked, Boosted, Unfixed

(* A candidate was not tried: the offered values are round.                *)
LEMMA CandidatesAreNew ==
    ASSUME TypeOK, Called, NEW g \in Graphs, NEW t \in Targets,
           NEW v \in Candidates(g, t) \cup LlmValues(t)
    PROVE  v \in Values /\ v \notin Tried(t)
<1>1. CASE v \in LlmValues(t)
  BY <1>1 DEF LlmValues
<1>2. CASE v \in Candidates(g, t)
  <2>1. v \in task.offer[g][t] /\ v \notin {Rounded[w] : w \in Tried(t)}
    BY <1>2 DEF Candidates
  <2>2. Rounded[v] = v
    BY <2>1 DEF Called
  <2>3. task.offer[g][t] \in SUBSET Values
    BY DEF TypeOK
  <2> QED
    BY <2>1, <2>2, <2>3
<1> QED
  BY <1>1, <1>2

(* What the filter hides was tried.                                        *)
LEMMA NothingLeft ==
    ASSUME NEW t \in task.errors, Candidates(graph, t) = {}
    PROVE  Exhausted
<1>1. \A v \in task.offer[graph][t] : \E w \in Tried(t) : v = Rounded[w]
  BY DEF Candidates
<1>2. \A w \in Tried(t) : HadValue(t, Rounded[w])
  BY DEF Tried, TriesOf, Remembered, Attempts, HadValue
<1>3. \A v \in task.offer[graph][t] : HadValue(t, v)
  BY <1>1, <1>2
<1> QED
  BY <1>3 DEF Exhausted

(* A state passed through without fixes has nothing left.                  *)
LEMMA PassedThrough ==
    ASSUME NEW s, s.trajectory = <<>>, s.graph = graph, Passes(s), task.errors # {}
    PROVE  Exhausted
<1>1. FixedTags(s) = {}
  BY NothingFixed DEF FixedTags
<1>2. Unfixed(s) = task.errors
  BY <1>1 DEF Unfixed
<1>3. PICK t \in Picked(s) : Candidates(graph, t) = {}
  BY <1>2 DEF Passes
<1> QED
  BY <1>3, PickedUnfixed, NothingLeft

(* A successor in the beam: passed through, or one fix further.            *)
LEMMA SuccessorOf ==
    ASSUME TypeOK, Called, NEW s \in BeamStates, Fresh(s.trajectory),
           NEW r \in Successors(s)
    PROVE  /\ r \in BeamStates /\ Fresh(r.trajectory)
           /\ r.trajectory = <<>> => r = s /\ Passes(s)
<1>1. CASE r = s /\ Passes(s)
  BY <1>1
<1>2. ASSUME NEW t \in Picked(s), NEW v \in Candidates(s.graph, t) \cup LlmValues(t),
             r \in FixesOf(s, t, v)
      PROVE  r \in BeamStates /\ Fresh(r.trajectory) /\ r.trajectory # <<>>
  <2>1. t \in Targets /\ t \in Unfixed(s)
    BY PickedUnfixed DEF TypeOK
  <2>2. v \in Values /\ v \notin Tried(t)
    BY <2>1, CandidatesAreNew DEF BeamStates
  <2>3. PICK h \in Settled([s.graph EXCEPT ![t] = v], t) :
            r = [graph |-> h, trajectory |-> Append(s.trajectory, Fix(t, v))]
    BY <1>2 DEF FixesOf
  <2>4. h \in Graphs /\ r.trajectory = Append(s.trajectory, Fix(t, v)) /\ r.graph = h
    BY <2>3 DEF Settled
  <2>5. s.trajectory \in Seq(Fixes)
    BY DEF BeamStates, Fixes
  <2>6. /\ Append(s.trajectory, Fix(t, v)) \in Seq(Fixes)
        /\ Fresh(Append(s.trajectory, Fix(t, v)))
        /\ Append(s.trajectory, Fix(t, v)) # <<>>
    BY <2>1, <2>2, <2>5, FixExtends
  <2>7. r \in BeamStates
    BY <2>3, <2>4, <2>6 DEF BeamStates, Fixes
  <2> QED
    BY <2>4, <2>6, <2>7
<1> QED
  BY <1>1, <1>2 DEF Successors

(* The scheduler's counters stay counters.                                 *)
LEMMA SchedulerUpdates ==
    ASSUME TypeOK, NEW n \in Nat, sched.steps = step, step < Depth, Depth \in Nat \ {0}
    PROVE  /\ Updated(sched, n) \in [steps : 0..Depth, last : Nat \cup {NoErrorsYet},
                                     stagnant : Nat, improving : Nat, phase : Phases]
           /\ Updated(sched, n).steps = step + 1
           /\ step + 1 < Depth => Updated(sched, n).phase = "explore"
<1> DEFINE S == [steps : 0..Depth, last : Nat \cup {NoErrorsYet},
                 stagnant : Nat, improving : Nat, phase : Phases]
<1>1. sched \in S /\ step \in Nat /\ step + 1 \in 0..Depth
  BY DEF TypeOK
<1>2. CASE step + 1 <= ExplorationSteps
  BY <1>1, <1>2 DEF Updated, Phases
<1>3. CASE ~(step + 1 <= ExplorationSteps)
  <2> DEFINE c == Counted(sched, n)
  <2>1. c \in S /\ c.steps = sched.steps
    <3>1. sched.stagnant + 1 \in Nat /\ sched.improving + 1 \in Nat
      BY <1>1
    <3>2. \/ c = sched
          \/ c = [sched EXCEPT !.improving = @ + 1, !.stagnant = 0]
          \/ c = [sched EXCEPT !.stagnant = @ + 1, !.improving = 0]
      BY DEF Counted
    <3> HIDE DEF c
    <3>3. CASE c = sched
      BY <1>1, <3>3
    <3>4. CASE c = [sched EXCEPT !.improving = @ + 1, !.stagnant = 0]
      BY <1>1, <3>1, <3>4
    <3>5. CASE c = [sched EXCEPT !.stagnant = @ + 1, !.improving = 0]
      BY <1>1, <3>1, <3>5
    <3> QED
      BY <3>2, <3>3, <3>4, <3>5
  <2>2. PhaseOf(c) \in Phases
    BY <2>1 DEF PhaseOf, Phases
  <2>3. Updated(sched, n) = [c EXCEPT !.steps = @ + 1, !.last = n, !.phase = PhaseOf(c)]
    BY <1>3 DEF Updated
  <2>4. ~(step + 1 < Depth)
    BY <1>1, <1>3 DEF ExplorationSteps
  <2> HIDE DEF c
  <2> QED
    BY <1>1, <2>1, <2>2, <2>3, <2>4
<1> QED
  BY <1>2, <1>3

-----------------------------------------------------------------------------

(* The invariant holds at first, and every action preserves it. *)
LEMMA InvariantInit == Init => SInv
<1> SUFFICES ASSUME Init PROVE SInv
  OBVIOUS
<1>1. /\ log = <<>> /\ repairs = 0 /\ pc = "idle" /\ task = Idle /\ beam = {}
      /\ step = 0 /\ clean = FALSE /\ sched = NewScheduler /\ graph \in Graphs
  BY DataAssumption DEF Init
<1>2. log \in Seq(AttemptRecords) /\ DOMAIN log = {}
  BY <1>1, EmptySeq, NothingFixed
<1>3. TypeOK
  <2>1. task \in [errors : SUBSET Targets, several : BOOLEAN,
                  offer : [Graphs -> [Targets -> SUBSET Values]],
                  failed : SUBSET Units]
    BY <1>1 DEF Idle
  <2>2. sched \in [steps : 0..Depth, last : Nat \cup {NoErrorsYet},
                   stagnant : Nat, improving : Nat, phase : Phases]
    BY <1>1, LimitsAssumption DEF NewScheduler, Phases
  <2>3. repairs \in 0..MaxRepairs /\ step \in 0..Depth
    BY <1>1, LimitsAssumption
  <2> QED
    BY <1>1, <1>2, <2>1, <2>2, <2>3 DEF TypeOK, AttemptRecords
<1>4. Stamped /\ OneAttemptPerRepair /\ RetriedOnlyWhenForgotten
  BY <1>2 DEF Stamped, OneAttemptPerRepair, RetriedOnlyWhenForgotten
<1>5. Called /\ BeamFresh /\ BeamSilent
  BY <1>1 DEF Called, BeamFresh, BeamSilent, Idle
<1>6. InStep
  BY <1>1 DEF InStep, NewScheduler
<1> QED
  BY <1>3, <1>4, <1>5, <1>6 DEF SInv

(* The log of a state that satisfies the invariant.                        *)
LEMMA LogTyped ==
    ASSUME SInv
    PROVE  log \in Seq(AttemptRecords) /\ \A i \in DOMAIN log : log[i].iteration \in Int
<1>1. log \in Seq(AttemptRecords)
  BY DEF SInv, TypeOK, AttemptRecords
<1>2. \A i \in DOMAIN log : log[i] \in AttemptRecords
  BY <1>1, LenProperties, ElementOfSeq
<1>3. \A i \in DOMAIN log : log[i].iteration \in 1..MaxRepairs
  BY <1>2 DEF AttemptRecords
<1> QED
  BY <1>1, <1>3

(* A solve empties the beam and starts a new call. *)
LEMMA SolveKeeps == SInv /\ Solve => SInv'
<1> SUFFICES ASSUME SInv, Solve PROVE SInv'
  OBVIOUS
<1>0. PICK errors \in ErrorSets, several \in BOOLEAN,
           offer \in Offers, failed \in FailedSets :
        /\ several => errors # {}
        /\ task' = [errors |-> errors, several |-> several,
                     offer |-> offer, failed |-> failed]
  BY DEF Solve
<1>1. TypeOK'
  <2>1. task' \in [errors : SUBSET Targets, several : BOOLEAN,
                   offer : [Graphs -> [Targets -> SUBSET Values]],
                   failed : SUBSET Units]
    BY <1>0, DataAssumption
  <2>2. repairs' \in 0..MaxRepairs
    BY LimitsAssumption DEF Solve, SInv, TypeOK
  <2> QED
    BY <2>1, <2>2 DEF SInv, TypeOK, Solve, search
<1>2. Stamped'
  <2>1. /\ log' = log /\ repairs' = repairs + 1 /\ repairs \in Int
        /\ \A i \in DOMAIN log : log[i].iteration <= repairs
    BY DEF SInv, Stamped, Solve, TypeOK
  <2>2. \A i \in DOMAIN log : log[i].iteration \in Int
    BY LogTyped
  <2>3. ASSUME NEW i \in DOMAIN log
        PROVE  log[i].iteration <= repairs + 1 /\ log[i].iteration < repairs + 1
    <3> DEFINE a == log[i].iteration
    <3>1. a \in Int /\ a <= repairs
      BY <2>1, <2>2
    <3> HIDE DEF a
    <3>2. a <= repairs + 1 /\ a < repairs + 1
      BY <2>1, <3>1
    <3> QED
      BY <3>2 DEF a
  <2> QED
    BY <2>1, <2>3 DEF Stamped
<1>3. Called'
  <2>1. repairs' > 0 /\ pc' = "repair"
    BY DEF Solve, SInv, TypeOK
  <2>2. task'.several => task'.errors # {}
    BY <1>0
  <2>3. offer \in [Graphs -> [Targets -> SUBSET {v \in Values : Rounded[v] = v}]]
    BY DataAssumption
  <2>4. \A g \in Graphs, t \in Targets : \A v \in task'.offer[g][t] : Rounded[v] = v
    BY <1>0, <2>3
  <2> QED
    BY <2>1, <2>2, <2>4 DEF Called
<1>4. OneAttemptPerRepair' /\ RetriedOnlyWhenForgotten'
  BY LogKept DEF SInv, Solve
<1>5. BeamFresh' /\ BeamSilent' /\ InStep'
  <2>1. beam = {} /\ beam' = {} /\ step' = step /\ clean' = clean /\ sched' = sched
        /\ pc = "idle" /\ pc' = "repair"
    BY DEF SInv, InStep, Solve, search
  <2> QED
    BY <2>1 DEF BeamFresh, BeamSilent, InStep, SInv
<1> QED
  BY <1>1, <1>2, <1>3, <1>4, <1>5 DEF SInv

(* A single repair records a value the memory does not hold. *)
LEMMA SingleFixKeeps == SInv /\ SingleFix => SInv'
<1> SUFFICES ASSUME SInv, SingleFix PROVE SInv'
  OBVIOUS
<1>0. PICK t \in task.errors :
        \E v \in Candidates(graph, t) \cup LlmValues(t) :
            /\ graph' = [graph EXCEPT ![t] = v]
            /\ log' = log \o Recorded(<<Fix(t, v)>>)
  BY DEF SingleFix
<1>1. PICK v \in Candidates(graph, t) \cup LlmValues(t) :
        /\ graph' = [graph EXCEPT ![t] = v]
        /\ log' = log \o Recorded(<<Fix(t, v)>>)
  BY <1>0
<1>2. t \in Targets /\ v \in Values /\ v \notin Tried(t)
  <2>1. t \in Targets /\ graph \in Graphs
    BY DEF SInv, TypeOK
  <2> QED
    BY <2>1, CandidatesAreNew DEF SInv
<1>3. Fix(t, v) \in Fixes /\ Fix(t, v).target = t /\ Fix(t, v).value = v
  BY <1>2 DEF Fix, Fixes
<1> DEFINE tr == <<Fix(t, v)>>
<1>4. tr \in Seq(Fixes) /\ Fresh(tr)
  <2>1. tr \in Seq(Fixes) /\ DOMAIN tr = 1..1 /\ tr[1] = Fix(t, v)
    BY <1>3, LenProperties
  <2>2. DOMAIN tr = {1}
    BY <2>1
  <2> HIDE DEF tr
  <2> QED
    BY <1>2, <1>3, <2>1, <2>2 DEF Fresh
<1>5. repairs \in 1..MaxRepairs /\ pc = "repair" /\ pc' = "idle" /\ repairs' = repairs
  BY DEF SInv, TypeOK, Called, SingleFix
<1>6. \A i \in DOMAIN log : log[i].iteration < repairs
  BY <1>5 DEF SInv, Stamped
<1>7. /\ log' \in Seq(AttemptRecords)
      /\ \A i \in DOMAIN log' : log'[i].iteration <= repairs
      /\ OneAttemptPerRepair' /\ RetriedOnlyWhenForgotten'
  <2> HIDE DEF tr
  <2>1. log' = log \o Recorded(tr)
    BY <1>1 DEF tr
  <2>2. log \in Seq(AttemptRecords) /\ OneAttemptPerRepair /\ RetriedOnlyWhenForgotten
    BY LogTyped DEF SInv
  <2> QED
    BY <1>4, <1>5, <1>6, <2>1, <2>2, LogGrows, LimitsAssumption
<1>8. TypeOK'
  <2>1. graph' \in Graphs
    BY <1>1, <1>2 DEF SInv, TypeOK, Graphs
  <2> QED
    BY <1>5, <1>7, <2>1 DEF SInv, TypeOK, SingleFix, search, AttemptRecords
<1>9. Stamped' /\ Called'
  <2>1. task' = task
    BY DEF SingleFix
  <2> QED
    BY <1>5, <1>7, <2>1 DEF Stamped, Called, SInv
<1>10. BeamFresh' /\ BeamSilent' /\ InStep'
  <2>1. beam = {} /\ beam' = {} /\ step' = step /\ clean' = clean /\ sched' = sched
    BY <1>5 DEF SInv, InStep, SingleFix, search
  <2> QED
    BY <1>5, <2>1 DEF BeamFresh, BeamSilent, InStep, SInv
<1> QED
  BY <1>7, <1>8, <1>9, <1>10 DEF SInv

(* A single repair that finds nothing met an exhausted target. *)
LEMMA SingleFindsNothingKeeps == SInv /\ SingleFindsNothing => SInv'
<1> SUFFICES ASSUME SInv, SingleFindsNothing PROVE SInv'
  OBVIOUS
<1>1. TypeOK'
  BY DEF SInv, TypeOK, SingleFindsNothing, search
<1>2. Stamped' /\ Called'
  BY DEF SInv, Stamped, Called, SingleFindsNothing
<1>3. OneAttemptPerRepair' /\ RetriedOnlyWhenForgotten'
  BY LogKept DEF SInv, SingleFindsNothing
<1>4. BeamFresh' /\ BeamSilent' /\ InStep'
  <2>1. /\ beam = {} /\ beam' = {} /\ step' = step /\ clean' = clean
        /\ sched' = sched /\ pc = "repair" /\ pc' = "idle"
    BY DEF SInv, InStep, SingleFindsNothing, search
  <2> QED
    BY <2>1 DEF BeamFresh, BeamSilent, InStep, SInv
<1> QED
  BY <1>1, <1>2, <1>3, <1>4 DEF SInv

(* A search starts from the initial graph, without fixes. *)
LEMMA StartSearchKeeps == SInv /\ StartSearch => SInv'
<1> SUFFICES ASSUME SInv, StartSearch PROVE SInv'
  OBVIOUS
<1>1. /\ beam' = {Start(graph)} /\ pc = "repair" /\ pc' = "beam"
      /\ graph' = graph /\ log' = log /\ repairs' = repairs /\ task' = task
      /\ step' = step /\ clean' = clean /\ sched' = sched
      /\ step = 0 /\ sched = NewScheduler /\ ~clean /\ task.several
  BY DEF StartSearch, SInv, InStep
<1>2. /\ Start(graph) \in BeamStates /\ Start(graph).trajectory = <<>>
      /\ Start(graph).graph = graph
  BY NothingFixed DEF Start, BeamStates, Fixes, SInv, TypeOK
<1>3. TypeOK'
  BY <1>1, <1>2 DEF SInv, TypeOK
<1>4. Stamped' /\ Called'
  BY <1>1 DEF SInv, Stamped, Called
<1>5. OneAttemptPerRepair' /\ RetriedOnlyWhenForgotten'
  BY <1>1, LogKept DEF SInv
<1>6. BeamFresh'
  <2>1. Fresh(<<>>)'
    BY NothingFixed DEF Fresh
  <2> QED
    BY <1>1, <1>2, <2>1 DEF BeamFresh
<1>7. BeamSilent' /\ InStep'
  BY <1>1, <1>2 DEF BeamSilent, InStep, SInv, NewScheduler
<1> QED
  BY <1>3, <1>4, <1>5, <1>6, <1>7 DEF SInv

(* A step extends fixes by values not in the memory. *)
LEMMA BeamStepKeeps == SInv /\ BeamStep => SInv'
<1> SUFFICES ASSUME SInv, BeamStep PROVE SInv'
  OBVIOUS
<1>1. /\ pc = "beam" /\ pc' = "beam" /\ graph' = graph /\ log' = log
      /\ repairs' = repairs /\ task' = task /\ step' = step + 1
      /\ step < Depth /\ ~clean /\ step \in Nat
      /\ beam' \in SUBSET UNION {Successors(s) : s \in beam}
  BY DEF BeamStep, SInv, TypeOK
<1>2. PICK best \in beam' : /\ sched' = Updated(sched, NErrors(best.graph))
                            /\ clean' \in {FALSE, NErrors(best.graph) = 0}
  BY DEF BeamStep
<1>3. ASSUME NEW r \in beam'
      PROVE  /\ r \in BeamStates /\ Fresh(r.trajectory)
             /\ r.trajectory = <<>> => r.graph = graph /\ Exhausted
  <2>1. PICK s \in beam : r \in Successors(s)
    BY <1>1
  <2>2. /\ s \in BeamStates /\ Fresh(s.trajectory) /\ TypeOK /\ Called
        /\ task.errors # {}
        /\ s.trajectory = <<>> => s.graph = graph
    BY <1>1 DEF SInv, TypeOK, BeamFresh, Called, BeamSilent
  <2>3. /\ r \in BeamStates /\ Fresh(r.trajectory)
        /\ r.trajectory = <<>> => r = s /\ Passes(s)
    BY <2>1, <2>2, SuccessorOf
  <2> QED
    BY <2>2, <2>3, PassedThrough
<1>4. NErrors(best.graph) \in Nat
  BY ErrorsCounted
<1>5. /\ sched' \in [steps : 0..Depth, last : Nat \cup {NoErrorsYet},
                     stagnant : Nat, improving : Nat, phase : Phases]
      /\ sched'.steps = step + 1
      /\ step + 1 < Depth => sched'.phase = "explore"
  BY <1>1, <1>2, <1>4, SchedulerUpdates, LimitsAssumption DEF SInv, InStep
<1>6. TypeOK'
  <2>1. step' \in 0..Depth
    BY <1>1, LimitsAssumption
  <2>2. clean' \in BOOLEAN
    BY <1>2
  <2> QED
    BY <1>1, <1>3, <1>5, <2>1, <2>2 DEF SInv, TypeOK
<1>7. Stamped' /\ Called'
  BY <1>1 DEF SInv, Stamped, Called
<1>8. OneAttemptPerRepair' /\ RetriedOnlyWhenForgotten'
  BY <1>1, LogKept DEF SInv
<1>9. BeamFresh'
  <2> SUFFICES ASSUME NEW r \in beam' PROVE Fresh(r.trajectory)'
    BY DEF BeamFresh
  <2>1. Fresh(r.trajectory)
    BY <1>3
  <2>2. \A t : Tried(t)' = Tried(t)
    BY <1>1 DEF Tried, TriesOf, Remembered, Attempts
  <2> QED
    BY <2>1, <2>2 DEF Fresh
<1>10. BeamSilent'
  <2>1. Exhausted => Exhausted'
    BY <1>1 DEF Exhausted, HadValue
  <2> QED
    BY <1>1, <1>3, <2>1 DEF BeamSilent
<1>11. InStep'
  BY <1>1, <1>5 DEF InStep
<1> QED
  BY <1>6, <1>7, <1>8, <1>9, <1>10, <1>11 DEF SInv

(* What the end of a search records and returns.                           *)
LEMMA FinishRecords ==
    ASSUME SInv, FinishSearch
    PROVE  \E best \in beam : /\ best.trajectory \in Seq(Fixes)
                              /\ Fresh(best.trajectory)
                              /\ best.trajectory = <<>> => Exhausted
                              /\ log' = log \o Recorded(best.trajectory)
                              /\ graph' \in Graphs
<1>1. PICK best \in beam : /\ log' = log \o Recorded(best.trajectory)
                           /\ graph' \in Tuned(best.graph)
  BY DEF FinishSearch
<1>2. best \in BeamStates /\ Fresh(best.trajectory)
  BY DEF SInv, TypeOK, BeamFresh
<1>3. best.trajectory \in Seq(Fixes) /\ best.graph \in Graphs
  BY <1>2 DEF BeamStates, Fixes
<1>4. graph' \in Graphs
  BY <1>1, <1>3, DataAssumption DEF Tuned
<1>5. step > 0 /\ pc = "beam"
  BY LimitsAssumption DEF FinishSearch, SInv, InStep
<1>6. best.trajectory = <<>> => Exhausted
  BY <1>5 DEF SInv, BeamSilent
<1> QED
  BY <1>1, <1>2, <1>3, <1>4, <1>6

(* The winner's fixes go to the log, each of a unit of its own. *)
LEMMA FinishSearchKeeps == SInv /\ FinishSearch => SInv'
<1> SUFFICES ASSUME SInv, FinishSearch PROVE SInv'
  OBVIOUS
<1>1. PICK best \in beam : /\ best.trajectory \in Seq(Fixes)
                           /\ Fresh(best.trajectory)
                           /\ log' = log \o Recorded(best.trajectory)
                           /\ graph' \in Graphs
  BY FinishRecords
<1>2. repairs \in 1..MaxRepairs /\ pc = "beam" /\ pc' = "idle" /\ repairs' = repairs
  BY DEF SInv, TypeOK, Called, FinishSearch
<1>3. \A i \in DOMAIN log : log[i].iteration < repairs
  BY <1>2 DEF SInv, Stamped
<1>4. /\ log' \in Seq(AttemptRecords)
      /\ \A i \in DOMAIN log' : log'[i].iteration <= repairs
      /\ OneAttemptPerRepair' /\ RetriedOnlyWhenForgotten'
  <2> DEFINE tr == best.trajectory
  <2>1. tr \in Seq(Fixes) /\ Fresh(tr) /\ log' = log \o Recorded(tr)
    BY <1>1
  <2>2. log \in Seq(AttemptRecords) /\ OneAttemptPerRepair /\ RetriedOnlyWhenForgotten
    BY LogTyped DEF SInv
  <2> HIDE DEF tr
  <2> QED
    BY <1>2, <1>3, <2>1, <2>2, LogGrows, LimitsAssumption
<1>5. /\ beam' = {} /\ step' = 0 /\ clean' = FALSE /\ sched' = NewScheduler
      /\ task' = task
  BY DEF FinishSearch
<1>6. TypeOK'
  <2>1. sched' \in [steps : 0..Depth, last : Nat \cup {NoErrorsYet},
                    stagnant : Nat, improving : Nat, phase : Phases]
    BY <1>5, LimitsAssumption DEF NewScheduler, Phases
  <2>2. step' \in 0..Depth
    BY <1>5, LimitsAssumption
  <2>3. clean' \in BOOLEAN
    BY <1>5
  <2> QED
    BY <1>1, <1>2, <1>4, <1>5, <2>1, <2>2, <2>3 DEF SInv, TypeOK, AttemptRecords
<1>7. Stamped' /\ Called'
  BY <1>2, <1>4, <1>5 DEF Stamped, Called, SInv
<1>8. BeamFresh' /\ BeamSilent' /\ InStep'
  BY <1>2, <1>5 DEF BeamFresh, BeamSilent, InStep, NewScheduler
<1> QED
  BY <1>4, <1>6, <1>7, <1>8 DEF SInv

(* A stutter changes nothing. *)
LEMMA StutterKeeps == SInv /\ UNCHANGED vars => SInv'
<1> SUFFICES ASSUME SInv, UNCHANGED vars PROVE SInv'
  OBVIOUS
<1>1. /\ graph' = graph /\ log' = log /\ repairs' = repairs /\ pc' = pc
      /\ task' = task /\ beam' = beam /\ step' = step /\ clean' = clean
      /\ sched' = sched
  BY DEF vars
<1>2. TypeOK' /\ Stamped' /\ Called' /\ InStep'
  BY <1>1 DEF SInv, TypeOK, Stamped, Called, InStep
<1>3. OneAttemptPerRepair' /\ RetriedOnlyWhenForgotten'
  BY <1>1, LogKept DEF SInv
<1>4. BeamFresh'
  <2>1. \A t : Tried(t)' = Tried(t)
    BY <1>1 DEF Tried, TriesOf, Remembered, Attempts
  <2> QED
    BY <1>1, <2>1 DEF SInv, BeamFresh, Fresh
<1>5. BeamSilent'
  <2>1. Exhausted => Exhausted'
    BY <1>1 DEF Exhausted, HadValue
  <2> QED
    BY <1>1, <2>1 DEF SInv, BeamSilent
<1> QED
  BY <1>2, <1>3, <1>4, <1>5 DEF SInv

(* SInv is an inductive invariant of the search.                           *)
THEOREM SearchInvariance == Spec => []SInv
<1>1. SInv /\ [Next]_vars => SInv'
  BY SolveKeeps, SingleFixKeeps, SingleFindsNothingKeeps, StartSearchKeeps,
     BeamStepKeeps, FinishSearchKeeps, StutterKeeps DEF Next
<1> QED
  BY <1>1, InvariantInit, PTL DEF Spec

(* Every variable has its type: beam states are graphs with trajectories   *)
(* of fixes, and attempts are stamped with the repair they were made in.   *)
THEOREM SearchTypeCorrect == Spec => []TypeOK
<1>1. SInv => TypeOK
  BY DEF SInv
<1> QED
  BY <1>1, SearchInvariance, PTL

(* A value is retried only after MaxHistory attempts at its unit, however  *)
(* wide and deep the beam and whatever the units and their parameters.     *)
THEOREM RetriesNeedForgetting == Spec => []RetriedOnlyWhenForgotten
<1>1. SInv => RetriedOnlyWhenForgotten
  BY DEF SInv
<1> QED
  BY <1>1, SearchInvariance, PTL

(* A repair() call makes at most one attempt at each unit.                 *)
THEOREM AttemptsAreSpread == Spec => []OneAttemptPerRepair
<1>1. SInv => OneAttemptPerRepair
  BY DEF SInv
<1> QED
  BY <1>1, SearchInvariance, PTL

(* No search reaches the EXPLOIT phase before its last step, whatever the  *)
(* depth and the errors it meets.                                          *)
THEOREM ExplorationOutlastsSearch == Spec => []AlwaysExploring
<1>1. SInv => AlwaysExploring
  BY DEF SInv, InStep, AlwaysExploring
<1> QED
  BY <1>1, SearchInvariance, PTL

(* A trajectory with a fix makes the log longer.                           *)
LEMMA RecordingIsSeen ==
    ASSUME SInv, repairs \in 1..MaxRepairs, NEW tr \in Seq(Fixes),
           log \o Recorded(tr) = log
    PROVE  tr = <<>>
<1> DEFINE R == Recorded(tr)
<1>1. R \in Seq(AttemptRecords) /\ Len(R) = Len(tr) /\ Len(tr) \in Nat
  BY RecordsOfTrajectory
<1>2. log \in Seq(AttemptRecords) /\ Len(log) \in Nat
  BY LogTyped, LenProperties
<1>3. log \o R = log
  OBVIOUS
<1> HIDE DEF R
<1>4. Len(log \o R) = Len(log) + Len(R)
  BY <1>1, <1>2, ConcatProperties
<1>5. Len(tr) = 0
  BY <1>1, <1>2, <1>3, <1>4
<1> QED
  BY <1>5, EmptySeq

(* A repair() call that records nothing found a target exhausted: a fix is *)
(* never applied unrecorded, and the filter hides only values tried for    *)
(* the parameter itself.                                                   *)
THEOREM SilenceMeansExhausted == Spec => SilentOnlyWhenExhausted
<1> DEFINE Silent == /\ pc # "idle" /\ pc' = "idle" /\ log' = log
                     /\ task.errors # {}
                     => Exhausted
<1>1. ASSUME SInv, [Next]_vars PROVE [Silent]_vars
  <2> SUFFICES ASSUME Next, pc # "idle", pc' = "idle", log' = log,
                      task.errors # {}
               PROVE  Exhausted
    BY <1>1
  <2>1. CASE SingleFindsNothing
    BY <2>1, NothingLeft DEF SingleFindsNothing
  <2>2. CASE SingleFix
    <3>1. PICK t \in task.errors :
            \E v \in Candidates(graph, t) \cup LlmValues(t) :
                log' = log \o Recorded(<<Fix(t, v)>>)
      BY <2>2 DEF SingleFix
    <3>2. PICK v \in Candidates(graph, t) \cup LlmValues(t) :
            log' = log \o Recorded(<<Fix(t, v)>>)
      BY <3>1
    <3>3. t \in Targets /\ v \in Values
      <4>1. t \in Targets /\ graph \in Graphs
        BY <1>1 DEF SInv, TypeOK
      <4> QED
        BY <1>1, <4>1, CandidatesAreNew DEF SInv
    <3> DEFINE tr == <<Fix(t, v)>>
    <3>4. tr \in Seq(Fixes) /\ Len(tr) = 1
      BY <3>3 DEF Fix, Fixes
    <3>5. log \o Recorded(tr) = log
      BY <3>2
    <3>6. repairs \in 1..MaxRepairs
      BY <1>1 DEF SInv, TypeOK, Called
    <3> HIDE DEF tr
    <3>7. tr = <<>>
      BY <1>1, <3>4, <3>5, <3>6, RecordingIsSeen
    <3> QED
      BY <3>4, <3>7, EmptySeq
  <2>3. CASE FinishSearch
    <3>1. PICK best \in beam : /\ best.trajectory \in Seq(Fixes)
                               /\ best.trajectory = <<>> => Exhausted
                               /\ log' = log \o Recorded(best.trajectory)
      BY <1>1, <2>3, FinishRecords
    <3>2. repairs \in 1..MaxRepairs
      BY <1>1 DEF SInv, TypeOK, Called
    <3>3. log \o Recorded(best.trajectory) = log
      BY <3>1
    <3>4. best.trajectory = <<>>
      BY <1>1, <3>1, <3>2, <3>3, RecordingIsSeen
    <3> QED
      BY <3>1, <3>4
  <2> QED
    BY <2>1, <2>2, <2>3 DEF Next, Solve, StartSearch, BeamStep
<1>2. SInv /\ [Next]_vars => [Silent]_vars
  BY <1>1
<1>3. [][Silent]_vars => SilentOnlyWhenExhausted
  BY PTL DEF SilentOnlyWhenExhausted, Exhausted
<1> QED
  BY <1>2, <1>3, SearchInvariance, PTL DEF Spec

-----------------------------------------------------------------------------

(* No value is ever tried twice on a parameter.                            *)
NeverTriedTwice ==
    \A i, j \in DOMAIN log : i # j => ~Same(log[i], log[j])

(* A run of at most one repair more than the memory keeps attempts never   *)
(* tries a value twice: a unit's attempts are made in different repairs,   *)
(* so that none is forgotten in time.  The driver's default of 10 and the  *)
(* beam ceiling of 15 iterations are within the memory of 20 attempts.     *)
THEOREM ShortRunsNeverRetry ==
    ASSUME MaxRepairs <= MaxHistory + 1
    PROVE  Spec => []NeverTriedTwice
<1>1. ASSUME SInv, NEW i \in DOMAIN log, NEW j \in DOMAIN log,
             i < j, Same(log[i], log[j])
      PROVE  FALSE
  <2> DEFINE A == {k \in Attempts(log[i].unit) : i < k /\ k < j}
             B == (A \cup {j}) \cup {i}
             f == [k \in B |-> log[k].iteration]
  <2>1. log \in Seq(AttemptRecords) /\ DOMAIN log = 1..Len(log) /\ Len(log) \in Nat
    BY <1>1, LogTyped, LenProperties
  <2>2. Cardinality(A) >= MaxHistory
    BY <1>1 DEF SInv, RetriedOnlyWhenForgotten
  <2>3. IsFiniteSet(A) /\ Cardinality(A) \in Nat
    BY <2>1, AttemptsFinite
  <2>4. j \notin A /\ i \notin A \cup {j}
    BY <1>1, <2>1
  <2>5. \A k \in B : k \in DOMAIN log /\ log[k].unit = log[i].unit
    BY <1>1 DEF Attempts, Same
  <2>6. f \in [B -> 1..MaxRepairs]
    <3>1. \A k \in B : log[k] \in AttemptRecords
      BY <2>1, <2>5, ElementOfSeq
    <3>2. \A k \in B : log[k].iteration \in 1..MaxRepairs
      BY <3>1 DEF AttemptRecords
    <3> QED
      BY <3>2
  <2>7. IsFiniteSet(1..MaxRepairs) /\ Cardinality(1..MaxRepairs) = MaxRepairs
    BY FS_Interval, LimitsAssumption
  <2>8. IsFiniteSet(B) /\ Cardinality(B) > MaxRepairs
    <3> HIDE DEF A
    <3>1. IsFiniteSet(A \cup {j}) /\ Cardinality(A \cup {j}) = Cardinality(A) + 1
      BY <2>3, <2>4, FS_AddElement
    <3>2. IsFiniteSet(B) /\ Cardinality(B) = Cardinality(A) + 1 + 1
      BY <2>4, <3>1, FS_AddElement
    <3> QED
      BY <2>2, <2>3, <3>2, LimitsAssumption
  <2>9. \A x, y \in B : x # y => f[x] # f[y]
    BY <1>1, <2>5 DEF SInv, OneAttemptPerRepair
  <2> HIDE DEF f, B
  <2>10. \E x, y \in B : x # y /\ f[x] = f[y]
    BY <2>6, <2>7, <2>8, FS_PigeonHole
  <2> QED
    BY <2>9, <2>10
<1>2. SInv => NeverTriedTwice
  <2> SUFFICES ASSUME SInv, NEW i \in DOMAIN log, NEW j \in DOMAIN log,
                      i # j, Same(log[i], log[j])
               PROVE  FALSE
    BY DEF NeverTriedTwice
  <2>1. i \in Int /\ j \in Int
    BY LogTyped, LenProperties
  <2>2. Same(log[j], log[i])
    BY DEF Same
  <2>3. i < j \/ j < i
    BY <2>1
  <2> QED
    BY <2>2, <2>3, <1>1
<1> QED
  BY <1>2, SearchInvariance, PTL
=============================================================================
