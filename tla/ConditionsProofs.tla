-------------------------- MODULE ConditionsProofs --------------------------
(***************************************************************************)
(* Proofs about Conditions, for every flowsheet, rule book and bound, and  *)
(* for every estimate of bubble points that yields positive temperatures.  *)
(*                                                                         *)
(* Every pass over the graph leaves a setpoint alone or corrects it, and   *)
(* correcting takes the claim to the description away (CellOK).  What a    *)
(* correction may be computed from is known only because the streams stay  *)
(* well typed through propagation, write-back and repair (CondsOK), so the *)
(* two are one invariant.                                                  *)
(***************************************************************************)
EXTENDS Conditions, FiniteSetTheorems, TLAPS

(* A bubble point is a temperature. *)
BubbleKnown == \A p \in Known : Bubble(p) \in Known

StreamTags == {s.tag : s \in ToSet(plant.streams)}

(* What kind of value each type of unit has. *)
Shaped(t, c) ==
    /\ c = [T |-> c.T, P |-> c.P, source |-> c.source, described |-> c.described]
    /\ TypeOf(t) \in Thermal => c.T \in Known /\ c.P = None
    /\ TypeOf(t) \in Settable \ Thermal => c.T = None /\ c.P \in Known
    /\ TypeOf(t) = "Reactor" => c.T \in Known /\ c.P \in Known
    /\ TypeOf(t) \in Settable => c.source \in DOMAIN Authority
    /\ TypeOf(t) = "Reactor" => c.source \in {"extracted", "template"}
    /\ TypeOf(t) \notin Settable \cup {"Reactor"} => c = Unset

(* A claim to come from the description is true. *)
Sound(t, c) ==
    /\ c.described => c.source = "extracted"
    /\ c.source = "extracted" =>
          IF TypeOf(t) = "Reactor" THEN c.T \in Temps \cup {plant.seeded[t]}
          ELSE c.described /\ Value(c) = plant.stated[t]
    /\ c.source = "fallback" => Value(c) \in Temps \cup plant.pressures \cup {Feed.T}

CellOK(t, c) == Shaped(t, c) /\ Sound(t, c)
CellsOK(cs) == DOMAIN cs = Tags /\ \A t \in Tags : CellOK(t, cs[t])

CondOK(c) == c \in [T : Maybe, P : Maybe]
CondsOK(c) == DOMAIN c = StreamTags /\ \A s \in StreamTags : CondOK(c[s])

CondInv ==
    /\ plant \in Plants
    /\ IF pc = "assign" THEN cells = [t \in Tags |-> Unset] ELSE CellsOK(cells)
    /\ CondsOK(conds)
    /\ pc \in {"assign", "consistency", "rules", "validate", "solve", "repair", "optimise", "done"}
    /\ fixed \subseteq Tags /\ repairs \in 0 .. MaxRepairs
    /\ outcome \in {None, "PASS", "MAX_ITER", "INVALID_IR"} /\ (pc = "done") = (outcome # None)

-----------------------------------------------------------------------------
(* The passes, as instances of the induction over a fold.                  *)

Passing == INSTANCE FoldInduction WITH
    op <- PassedOn, P <- LAMBDA cs, n, c : CondsOK(c)
Correcting == INSTANCE FoldInduction WITH
    op <- Corrected, P <- LAMBDA seeds, n, cs : CellsOK(cs)
Ruling == INSTANCE FoldInduction WITH
    op <- LAMBDA ctx, cs, r : RuleApplied(cs, r), P <- LAMBDA ctx, n, cs : CellsOK(cs)

SeenOK(seen) == \A t \in Tags : CondOK(seen[t])
Looking == INSTANCE FoldInduction WITH
    op <- LAMBDA ctx, seen, u : OneFurther(seen, u), P <- LAMBDA ctx, n, seen : SeenOK(seen)

AssignedUpTo(n, acc) ==
    /\ DOMAIN acc.cells = Tags
    /\ \A i \in 1..n : CellOK(plant.units[i].tag, acc.cells[plant.units[i].tag])
    /\ DOMAIN acc.T = StreamTags /\ \A s \in StreamTags : acc.T[s] \in Maybe
Assigning == INSTANCE FoldInduction WITH
    op <- LAMBDA ctx, acc, u : AssignedSoFar(acc, u), P <- LAMBDA ctx, n, acc : AssignedUpTo(n, acc)

-----------------------------------------------------------------------------
(* Numbers and choices.                                                    *)

(* None is no number and none of the words it stands beside. *)
LEMMA NoneApart ==
    /\ None \notin Known /\ None \notin Int
    /\ None \notin {"extracted", "fallback", "PASS", "MAX_ITER", "INVALID_IR"}
BY NoneAssumption DEF Known

(* The greater and the smaller of two numbers. *)
LEMMA PairExtremes ==
    ASSUME NEW a \in Int, NEW b \in Int
    PROVE  /\ Max({a, b}) = IF a >= b THEN a ELSE b
           /\ Min({a, b}) = IF a <= b THEN a ELSE b
<1>1. CASE a >= b
  <2>1. \A x \in {a, b} : (\A y \in {a, b} : x >= y) => x = a
    BY <1>1
  <2>2. \A y \in {a, b} : a >= y
    BY <1>1
  <2>3. \A x \in {a, b} : (\A y \in {a, b} : x <= y) => x = b
    BY <1>1
  <2>4. \A y \in {a, b} : b <= y
    BY <1>1
  <2>5. Max({a, b}) = a
    BY <2>1, <2>2 DEF Max
  <2>6. Min({a, b}) = b
    BY <2>3, <2>4 DEF Min
  <2>7. a <= b => a = b
    BY <1>1
  <2> QED
    BY <1>1, <2>5, <2>6, <2>7
<1>2. CASE ~(a >= b)
  <2>1. \A x \in {a, b} : (\A y \in {a, b} : x >= y) => x = b
    BY <1>2
  <2>2. \A y \in {a, b} : b >= y
    BY <1>2
  <2>3. \A x \in {a, b} : (\A y \in {a, b} : x <= y) => x = a
    BY <1>2
  <2>4. \A y \in {a, b} : a <= y
    BY <1>2
  <2>5. Max({a, b}) = b
    BY <2>1, <2>2 DEF Max
  <2>6. Min({a, b}) = a
    BY <2>3, <2>4 DEF Min
  <2>7. a <= b
    BY <1>2
  <2> QED
    BY <1>2, <2>5, <2>6, <2>7
<1> QED
  BY <1>1, <1>2

(* The least and greatest of a finite set of known values is one of them. *)
LEMMA ExtremesIn ==
    ASSUME NEW S, S \subseteq Known, IsFiniteSet(S)
    PROVE  /\ IF S = {} THEN Lowest(S) = None ELSE Lowest(S) \in S
           /\ IF S = {} THEN Highest(S) = None ELSE Highest(S) \in S
<1>1. S \subseteq Nat
  BY DEF Known
<1>2. S # {} => Max(S) \in S
  <2> SUFFICES ASSUME S # {} PROVE Max(S) \in S
    OBVIOUS
  <2>1. Passing!IsFiniteSet(S)
    BY Zenon DEF IsFiniteSet, Passing!IsFiniteSet
  <2>2. Passing!Max(S) \in S
    BY <1>1, <2>1, Passing!FiniteMax
  <2>3. Passing!Max(S) = Max(S)
    BY Zenon DEF Passing!Max, Max
  <2> QED
    BY <2>2, <2>3
<1>3. S # {} => \E n \in S : \A m \in S : n <= m
  BY <1>1, Passing!NatMin
<1>4. S # {} => Min(S) \in S
  BY <1>3 DEF Min
<1> QED
  BY <1>2, <1>4 DEF Lowest, Highest

(* The first member of a set of positions is one of them. *)
LEMMA MinIn ==
    ASSUME NEW S, S \subseteq Nat, S # {}
    PROVE  Min(S) \in S
<1>1. \E n \in S : \A m \in S : n <= m
  BY Passing!NatMin
<1> QED
  BY <1>1 DEF Min

-----------------------------------------------------------------------------
(* The graph.                                                              *)

(* The walk meets every unit, each with the type its tag has. *)
LEMMA UnitFacts ==
    ASSUME plant \in Plants
    PROVE  /\ Len(plant.units) \in Nat /\ DOMAIN plant.units = 1..Len(plant.units)
           /\ Tags = {plant.units[i].tag : i \in DOMAIN plant.units}
           /\ \A i \in DOMAIN plant.units :
                 /\ plant.units[i].tag \in Tags
                 /\ TypeOf(plant.units[i].tag) = plant.units[i].type
           /\ \A t \in Tags : TypeOf(t) \in UnitTypes
<1>1. /\ plant.units \in Seq(ToSet(plant.units))
      /\ \A i \in DOMAIN plant.units : plant.units[i].type \in UnitTypes
      /\ \A i, j \in DOMAIN plant.units : plant.units[i].tag = plant.units[j].tag => i = j
  BY PlantsAssumption
<1> DEFINE units == plant.units
<1>2. Len(units) \in Nat /\ DOMAIN units = 1..Len(units)
  BY <1>1
<1>3. Units = {units[i] : i \in DOMAIN units}
  BY Zenon DEF Units, ToSet
<1>4. Tags = {units[i].tag : i \in DOMAIN units}
  BY Zenon, <1>3 DEF Tags
<1> HIDE DEF units
<1>5. ASSUME NEW i \in DOMAIN units PROVE TypeOf(units[i].tag) = units[i].type
  <2>1. units[i] \in Units
    BY Zenon, <1>3
  <2>2. ASSUME NEW u \in Units, u.tag = units[i].tag PROVE u = units[i]
    <3>1. PICK j \in DOMAIN units : u = units[j]
      BY Zenon, <1>3
    <3>2. j = i
      BY Zenon, <1>1, <2>2, <3>1 DEF units
    <3> QED
      BY <3>1, <3>2
  <2>3. (CHOOSE u \in Units : u.tag = units[i].tag) = units[i]
    BY Zenon, <2>1, <2>2
  <2> QED
    BY Zenon, <2>3 DEF TypeOf
<1>6. \A i \in DOMAIN units : units[i].type \in UnitTypes
  BY <1>1 DEF units
<1>7. \A t \in Tags : TypeOf(t) \in UnitTypes
  BY Zenon, <1>4, <1>5, <1>6
<1> QED
  BY Zenon, <1>2, <1>4, <1>5, <1>7 DEF units

(* The streams have tags, and the feed has what it must have. *)
LEMMA StreamFacts ==
    ASSUME plant \in Plants
    PROVE  /\ DOMAIN plant.streams \subseteq Nat
           /\ StreamTags = {plant.streams[i].tag : i \in DOMAIN plant.streams}
           /\ \A i \in DOMAIN plant.streams :
                 /\ plant.streams[i].tag \in StreamTags
                 /\ plant.streams[i].T \in Maybe /\ plant.streams[i].P \in Maybe
                 /\ plant.streams[i].src \in Tags \cup {None}
           /\ Feed.T \in Known /\ Feed.P \in Known
<1>1. /\ plant.streams \in Seq(ToSet(plant.streams))
      /\ \A i \in DOMAIN plant.streams :
            /\ plant.streams[i].T \in Maybe /\ plant.streams[i].P \in Maybe
            /\ plant.streams[i].src \in UnitTagsOf(plant) \cup {None}
  BY PlantsAssumption
<1> DEFINE streams == plant.streams
<1>2. Len(streams) \in Nat /\ DOMAIN streams = 1..Len(streams)
  BY <1>1
<1>3. DOMAIN streams \subseteq Nat
  BY <1>2
<1>4. StreamTags = {streams[i].tag : i \in DOMAIN streams}
  BY Zenon DEF StreamTags, ToSet
<1>5. UnitTagsOf(plant) = Tags
  BY Zenon, UnitFacts DEF UnitTagsOf
<1> DEFINE first == Min({i \in DOMAIN streams : IsFeed(streams[i])})
<1>6. first \in {i \in DOMAIN streams : IsFeed(streams[i])}
  <2>1. \E i \in DOMAIN streams : IsFeed(streams[i])
    BY FeedAssumption
  <2> DEFINE S == {i \in DOMAIN streams : IsFeed(streams[i])}
  <2>2. S \subseteq Nat /\ S # {}
    BY <1>3, <2>1
  <2> QED
    BY Zenon, <2>2, MinIn
<1>7. Feed = streams[first]
  BY Zenon DEF Feed, FeedOf
<1>8. streams[first].T # None /\ streams[first].P # None
  BY <1>6, FeedAssumption DEF IsFeed
<1>9. streams[first].T \in Maybe /\ streams[first].P \in Maybe
  BY <1>1, <1>6
<1>10. Feed.T \in Known /\ Feed.P \in Known
  BY <1>7, <1>8, <1>9 DEF Maybe
<1> QED
  BY <1>1, <1>3, <1>4, <1>5, <1>10

(* What the first inlet says is one of the things the inlets may say. *)
LEMMA FirstIn ==
    ASSUME plant \in Plants, NEW values, NEW tag, NEW S, NEW nothing, nothing \in S,
           \A i \in DOMAIN plant.streams : values[i] \in S
    PROVE  First(values, tag, nothing) \in S
<1> DEFINE known == {i \in InletsOf(tag) : values[i] # nothing}
<1>1. known \subseteq DOMAIN plant.streams
  BY DEF InletsOf
<1>2. known \subseteq Nat
  BY <1>1, StreamFacts
<1>3. known # {} => Min(known) \in DOMAIN plant.streams
  BY <1>1, <1>2, MinIn
<1>4. First(values, tag, nothing) = IF known = {} THEN nothing ELSE values[Min(known)]
  BY DEF First
<1> HIDE DEF known
<1> QED
  BY <1>3, <1>4

(* What the streams into a unit record is typed like the streams.          *)
LEMMA InletKnown ==
    ASSUME plant \in Plants, NEW c, CondsOK(c), NEW tag
    PROVE  InletT(c, tag) \in Maybe /\ InletP(c, tag) \in Maybe
<1>1. \A i \in DOMAIN plant.streams :
         c[plant.streams[i].tag].T \in Maybe /\ c[plant.streams[i].tag].P \in Maybe
  BY StreamFacts DEF CondsOK, CondOK
<1> DEFINE Ts == [i \in DOMAIN plant.streams |-> c[plant.streams[i].tag].T]
           Ps == [i \in DOMAIN plant.streams |-> c[plant.streams[i].tag].P]
<1>2. \A i \in DOMAIN plant.streams : Ts[i] \in Maybe /\ Ps[i] \in Maybe
  BY <1>1
<1>3. None \in Maybe
  BY DEF Maybe
<1> HIDE DEF Ts, Ps
<1>4. First(Ts, tag, None) \in Maybe /\ First(Ps, tag, None) \in Maybe
  BY <1>2, <1>3, FirstIn
<1> QED
  BY <1>4 DEF Ts, Ps, InletT, InletP

(* So is what the feeds record.                                            *)
LEMMA FeedTKnown ==
    ASSUME plant \in Plants, NEW c, CondsOK(c)
    PROVE  FeedT(c) \in Maybe
<1> DEFINE fed == {i \in DOMAIN plant.streams :
                       plant.streams[i].src = None /\ c[plant.streams[i].tag].T # None}
<1>1. \A i \in DOMAIN plant.streams : c[plant.streams[i].tag].T \in Maybe
  BY StreamFacts DEF CondsOK, CondOK
<1>2. fed \subseteq DOMAIN plant.streams /\ fed \subseteq Nat
  BY StreamFacts
<1>3. fed # {} => Min(fed) \in DOMAIN plant.streams
  BY <1>2, MinIn
<1>4. FeedT(c) = IF fed = {} THEN None ELSE c[plant.streams[Min(fed)].tag].T
  BY DEF FeedT
<1>5. None \in Maybe
  BY DEF Maybe
<1> HIDE DEF fed
<1> QED
  BY <1>1, <1>3, <1>4, <1>5

(* A bubble point, where there is one, is a temperature. *)
LEMMA BpKnown ==
    ASSUME BubbleKnown, NEW p \in Maybe
    PROVE  Bp(p) \in Maybe
<1>1. Or(p, Atm) \in Known
  BY DEF Or, Atm, Maybe, Known
<1> QED
  BY <1>1 DEF Bp, BubbleKnown, Maybe

(* What the text says of temperatures and pressures. *)
LEMMA TextFacts ==
    ASSUME plant \in Plants
    PROVE  /\ Temps \subseteq Known /\ IsFiniteSet(Temps) /\ (plant.temps # <<>> => Temps # {})
           /\ plant.pressures \subseteq Known /\ IsFiniteSet(plant.pressures)
           /\ \A t \in Tags : plant.stated[t] \in Maybe /\ plant.seeded[t] \in Maybe
<1>1. /\ plant.temps \in Seq(Known)
      /\ plant.pressures \subseteq Known /\ IsFiniteSet(plant.pressures)
      /\ \A t \in UnitTagsOf(plant) : plant.stated[t] \in Maybe /\ plant.seeded[t] \in Maybe
  BY PlantsAssumption
<1> DEFINE temps == plant.temps
<1>2. Len(temps) \in Nat /\ DOMAIN temps = 1..Len(temps) /\ \A i \in 1..Len(temps) : temps[i] \in Known
  BY <1>1
<1>3. Temps = {temps[i] : i \in DOMAIN temps}
  BY Zenon DEF Temps, ToSet
<1>4. temps \in Seq(Temps) /\ \A t \in Temps : \E i \in 1..Len(temps) : temps[i] = t
  <2>1. \A i \in 1..Len(temps) : temps[i] \in Temps
    BY <1>2, <1>3
  <2>2. temps \in Seq(Temps)
    BY <1>1, <1>2, <2>1
  <2> QED
    BY <1>2, <1>3, <2>2
<1>5. IsFiniteSet(Temps)
  BY Zenon, <1>4 DEF IsFiniteSet
<1>6. Temps \subseteq Known
  BY <1>2, <1>3
<1>7. temps # <<>> => Temps # {}
  <2>1. temps # <<>> => Len(temps) # 0
    BY <1>1
  <2>2. Len(temps) # 0 => 1 \in 1..Len(temps)
    BY <1>2
  <2>3. Len(temps) # 0 => temps[1] \in Temps
    BY <1>2, <1>3, <2>2
  <2> QED
    BY <2>1, <2>3
<1>8. UnitTagsOf(plant) = Tags
  BY Zenon, UnitFacts DEF UnitTagsOf
<1> QED
  BY <1>1, <1>3, <1>5, <1>6, <1>7, <1>8

-----------------------------------------------------------------------------
(* What a step may do to a setpoint.                                       *)

(* A correction gives a setpoint of the unit's kind and claims nothing. *)
LEMMA Corrects ==
    ASSUME NEW t, NEW c, CellOK(t, c), TypeOf(t) \in Settable, NEW v \in Known
    PROVE  CellOK(t, Correct(c, v))
<1> DEFINE d == Correct(c, v)
<1>1. c = [T |-> c.T, P |-> c.P, source |-> c.source, described |-> c.described]
  BY DEF CellOK, Shaped
<1>2. None \notin Known
  BY NoneApart
<1>3. d.source = "computed" /\ d.described = FALSE
      /\ d = [T |-> d.T, P |-> d.P, source |-> d.source, described |-> d.described]
      /\ d.T = (IF c.T # None THEN v ELSE c.T) /\ d.P = (IF c.T # None THEN c.P ELSE v)
  <2> DEFINE e == CorrectInPlace(c, v)
  <2>1. e = [T |-> IF c.T # None THEN v ELSE c.T, P |-> IF c.T # None THEN c.P ELSE v,
             source |-> c.source, described |-> c.described]
    BY <1>1 DEF CorrectInPlace
  <2>2. d = [e EXCEPT !.source = "computed", !.described = FALSE]
    BY DEF Correct
  <2> HIDE DEF e, d
  <2>3. d = [T |-> e.T, P |-> e.P, source |-> "computed", described |-> FALSE]
    BY <2>1, <2>2
  <2> QED
    BY <2>1, <2>3
<1>4. "computed" \in DOMAIN Authority
  BY DEF Authority
<1> HIDE DEF d
<1>5. Shaped(t, d)
  BY <1>2, <1>3, <1>4 DEF CellOK, Shaped, Settable, Thermal, Raisers
<1>6. Sound(t, d)
  BY <1>3 DEF Sound
<1> QED
  BY <1>5, <1>6 DEF CellOK, d

(* A rule writes over what claims nothing, and over nothing else. *)
LEMMA Sets ==
    ASSUME NEW t, NEW c, CellOK(t, c), TypeOf(t) \in Settable, NEW v \in Known
    PROVE  CellOK(t, Set(c, v))
<1> DEFINE d == [CorrectInPlace(c, v) EXCEPT !.source = "rule"]
<1>1. CASE Authority[c.source] < Authority["rule"]
  <2>1. c = [T |-> c.T, P |-> c.P, source |-> c.source, described |-> c.described]
    BY DEF CellOK, Shaped
  <2>2. None \notin Known
    BY NoneApart
  <2>3. d.source = "rule" /\ d.described = c.described
        /\ d = [T |-> d.T, P |-> d.P, source |-> d.source, described |-> d.described]
        /\ d.T = (IF c.T # None THEN v ELSE c.T) /\ d.P = (IF c.T # None THEN c.P ELSE v)
    BY <2>1 DEF CorrectInPlace
  <2>4. "rule" \in DOMAIN Authority /\ Authority["extracted"] = 5 /\ Authority["rule"] = 3
    BY DEF Authority
  <2>5. c.source # "extracted"
    BY <1>1, <2>4
  <2>6. Set(c, v) = d
    BY <1>1 DEF Set
  <2> HIDE DEF d
  <2>7. Shaped(t, d)
    BY <2>2, <2>3, <2>4 DEF CellOK, Shaped, Settable, Thermal, Raisers
  <2>8. Sound(t, d)
    BY <2>3, <2>5 DEF CellOK, Sound
  <2> QED
    BY <2>6, <2>7, <2>8 DEF CellOK
<1>2. CASE ~(Authority[c.source] < Authority["rule"])
  BY <1>2 DEF Set
<1> QED
  BY <1>1, <1>2

(* The four fixes of the monotonic pass. *)
LEMMA Fixes ==
    ASSUME BubbleKnown, NEW t, NEW c, CellOK(t, c), NEW inT \in Maybe, NEW inP \in Maybe
    PROVE  /\ TypeOf(t) = "Heater" => CellOK(t, FixHeater(c, inT, inP))
           /\ TypeOf(t) = "Cooler" => CellOK(t, FixCooler(c, inT))
           /\ TypeOf(t) \in Raisers => CellOK(t, FixRaiser(c, inP))
           /\ TypeOf(t) = "Expander" => CellOK(t, FixExpander(c, inP))
<1> USE NoneApart
<1>1. TypeOf(t) = "Heater" => CellOK(t, FixHeater(c, inT, inP))
  <2> DEFINE bp == Bp(inP)
             v == IF bp # None /\ bp > inT THEN bp + 15 ELSE inT + 30
  <2>1. bp \in Maybe
    BY BpKnown
  <2>2. inT # None => v \in Known
    BY <2>1 DEF Maybe, Known
  <2>3. FixHeater(c, inT, inP) = c \/ (inT # None /\ FixHeater(c, inT, inP) = Correct(c, v))
    BY DEF FixHeater
  <2> HIDE DEF v
  <2> QED
    BY <2>2, <2>3, Corrects DEF Settable, Thermal
<1>2. TypeOf(t) = "Cooler" => CellOK(t, FixCooler(c, inT))
  <2> DEFINE v == Max({inT - 25, Freezing})
  <2>1. inT # None => v \in Known
    <3> SUFFICES ASSUME inT # None PROVE v \in Known
      OBVIOUS
    <3>1. inT - 25 \in Int /\ Freezing \in Int
      BY DEF Maybe, Known, Freezing
    <3> QED
      BY <3>1, PairExtremes DEF Known, Freezing
  <2>2. FixCooler(c, inT) = c \/ (inT # None /\ FixCooler(c, inT) = Correct(c, v))
    BY DEF FixCooler
  <2> HIDE DEF v
  <2> QED
    BY <2>1, <2>2, Corrects DEF Settable, Thermal
<1>3. TypeOf(t) \in Raisers => CellOK(t, FixRaiser(c, inP))
  <2>1. inP # None => 5 * inP \in Known
    BY DEF Maybe, Known
  <2>2. FixRaiser(c, inP) = c \/ (inP # None /\ FixRaiser(c, inP) = Correct(c, 5 * inP))
    BY DEF FixRaiser
  <2> QED
    BY <2>1, <2>2, Corrects DEF Settable
<1>4. TypeOf(t) = "Expander" => CellOK(t, FixExpander(c, inP))
  <2>1. inP # None => LowPressure(inP) \in Known
    <3> SUFFICES ASSUME inP # None PROVE LowPressure(inP) \in Known
      OBVIOUS
    <3>1. inP \div 3 \in Int /\ Atm \in Int
      BY DEF Maybe, Known, Atm
    <3> QED
      BY <3>1, PairExtremes DEF LowPressure, Known, Atm
  <2>2. FixExpander(c, inP) = c \/ (inP # None /\ FixExpander(c, inP) = Correct(c, LowPressure(inP)))
    BY DEF FixExpander
  <2> QED
    BY <2>1, <2>2, Corrects DEF Settable
<1> QED
  BY <1>1, <1>2, <1>3, <1>4

(* What the next unit asks of a heater or a cooler. *)
LEMMA Demands ==
    ASSUME NEW t, NEW c, CellOK(t, c), NEW inT \in Maybe, NEW bp \in Known
    PROVE  /\ TypeOf(t) = "Heater" => CellOK(t, FlashFeed(c, inT, bp)) /\ CellOK(t, FlashCheck(c, inT, bp))
           /\ TypeOf(t) = "Cooler" => CellOK(t, LiquidFeed(c, bp))
<1>1. TypeOf(t) = "Heater" => CellOK(t, FlashFeed(c, inT, bp)) /\ CellOK(t, FlashCheck(c, inT, bp))
  <2>1. bp + 15 \in Known
    BY DEF Known
  <2>2. FlashFeed(c, inT, bp) \in {c, Correct(c, bp + 15)}
    BY DEF FlashFeed
  <2>3. FlashCheck(c, inT, bp) \in {c, Correct(c, bp + 15)}
    BY DEF FlashCheck
  <2> QED
    BY <2>1, <2>2, <2>3, Corrects DEF Settable, Thermal
<1>2. TypeOf(t) = "Cooler" => CellOK(t, LiquidFeed(c, bp))
  <2> SUFFICES ASSUME TypeOf(t) = "Cooler" PROVE CellOK(t, LiquidFeed(c, bp))
    OBVIOUS
  <2>1. c.T \in Int /\ bp - 10 \in Int
    BY DEF CellOK, Shaped, Thermal, Known
  <2>2. Min({bp - 10, c.T}) \in Int
    BY <2>1, PairExtremes
  <2>3. Resolve(c.T, 0, bp - 10) \in Int
    BY <2>2, PairExtremes DEF Resolve
  <2> DEFINE wanted == Resolve(c.T, 0, bp - 10)
             v == Max({wanted, Freezing})
  <2>4. v \in Known
    <3>1. wanted \in Int /\ Freezing \in Int
      BY <2>3 DEF Freezing
    <3> HIDE DEF wanted
    <3> QED
      BY <3>1, PairExtremes DEF Freezing, Known
  <2>5. LiquidFeed(c, bp) \in {c, Correct(c, v)}
    BY DEF LiquidFeed
  <2> HIDE DEF v
  <2> QED
    BY <2>4, <2>5, Corrects DEF Settable, Thermal
<1> QED
  BY <1>1, <1>2

-----------------------------------------------------------------------------
(* The consistency pass.                                                   *)

(* A setpoint, of whatever unit, is a known value or none. *)
LEMMA CellKnown ==
    ASSUME NEW t, TypeOf(t) \in UnitTypes, NEW c, CellOK(t, c)
    PROVE  c.T \in Maybe /\ c.P \in Maybe
<1>1. CASE TypeOf(t) \in Settable \cup {"Reactor"}
  BY <1>1 DEF CellOK, Shaped, Maybe
<1>2. CASE TypeOf(t) \notin Settable \cup {"Reactor"}
  BY <1>2 DEF CellOK, Shaped, Unset, Maybe
<1> QED
  BY <1>1, <1>2

(* What is known of two sources is known of their first. *)
LEMMA OrKnown == \A a, b \in Maybe : Or(a, b) \in Maybe
BY DEF Or, Maybe

(* Passing a unit's outlet on keeps the conditions well typed. *)
LEMMA PassedOnKeeps ==
    ASSUME plant \in Plants, NEW cs, CellsOK(cs), NEW c, CondsOK(c), NEW i \in DOMAIN plant.units
    PROVE  CondsOK(PassedOn(cs, c, plant.units[i]))
<1> DEFINE u == plant.units[i]
           inT == InletT(c, u.tag)
           inP == InletP(c, u.tag)
           out == Outlet(u, cs[u.tag], inT, inP)
           next == PassedOn(cs, c, u)
<1>1. u.tag \in Tags /\ TypeOf(u.tag) \in UnitTypes
  BY UnitFacts
<1>2. inT \in Maybe /\ inP \in Maybe
  BY InletKnown
<1>3. cs[u.tag].T \in Maybe /\ cs[u.tag].P \in Maybe
  BY <1>1, CellKnown DEF CellsOK
<1>4. next = [s \in DOMAIN c |-> IF s \in OutletsOf(u.tag)
                THEN [T |-> Or(out.T, c[s].T), P |-> Or(out.P, c[s].P)] ELSE c[s]]
  BY DEF PassedOn
<1> HIDE DEF u, inT, inP
<1>5. out.T \in Maybe /\ out.P \in Maybe
  BY <1>2, <1>3 DEF Outlet
<1> HIDE DEF out, next
<1>6. ASSUME NEW s \in StreamTags PROVE CondOK(next[s])
  <2>1. CondOK(c[s]) /\ s \in DOMAIN c
    BY DEF CondsOK
  <2>2. Or(out.T, c[s].T) \in Maybe /\ Or(out.P, c[s].P) \in Maybe
    BY <1>5, <2>1, OrKnown DEF CondOK
  <2>3. next[s] = [T |-> Or(out.T, c[s].T), P |-> Or(out.P, c[s].P)] \/ next[s] = c[s]
    BY <1>4, <2>1
  <2> QED
    BY <2>1, <2>2, <2>3 DEF CondOK
<1>7. DOMAIN next = StreamTags
  BY <1>4 DEF CondsOK
<1>8. CondsOK(next)
  BY <1>6, <1>7 DEF CondsOK
<1> QED
  BY <1>8 DEF next, u

(* What propagation yields is well typed. *)
LEMMA PropagateKeeps ==
    ASSUME plant \in Plants, NEW cs, CellsOK(cs), NEW seeds, CondsOK(seeds)
    PROVE  CondsOK(Propagate(cs, seeds))
<1>1. Len(plant.units) \in Nat /\ DOMAIN plant.units = 1..Len(plant.units)
  BY UnitFacts
<1>2. \A i \in 1..Len(plant.units) : \A c : CondsOK(c) => CondsOK(PassedOn(cs, c, plant.units[i]))
  BY <1>1, PassedOnKeeps
<1>3. CondsOK(Passing!FoldOf(cs, seeds, plant.units))
  BY <1>1, <1>2, Passing!FoldInvariant
<1>4. Propagate(cs, seeds) = Passing!FoldOf(cs, seeds, plant.units)
  BY Zenon DEF Propagate, Passing!FoldOf, Passing!FoldLeft, Passing!MapThenFoldSet, Passing!Max,
               FoldLeft, MapThenFoldSet, Max
<1> QED
  BY <1>3, <1>4

(* A map over the cells keeps them when it keeps each of them. *)
LEMMA CellMap ==
    ASSUME NEW cs, NEW new, DOMAIN new = Tags, \A t \in Tags : CellOK(t, new[t])
    PROVE  CellsOK(new)
BY DEF CellsOK

(* Correcting one unit keeps all setpoints in order. *)
LEMMA CorrectedKeeps ==
    ASSUME BubbleKnown, plant \in Plants, NEW seeds, CondsOK(seeds), NEW cs, CellsOK(cs),
           NEW i \in DOMAIN plant.units
    PROVE  CellsOK(Corrected(seeds, cs, plant.units[i]))
<1> DEFINE u == plant.units[i]
           now == Propagate(cs, seeds)
           inT == InletT(now, u.tag)
           inP == InletP(now, u.tag)
           new == CASE u.type = "Heater"   -> FixHeater(cs[u.tag], inT, inP)
                    [] u.type = "Cooler"   -> IF Shadowed(u.tag) THEN cs[u.tag] ELSE FixCooler(cs[u.tag], inT)
                    [] u.type \in Raisers  -> FixRaiser(cs[u.tag], inP)
                    [] u.type = "Expander" -> FixExpander(cs[u.tag], inP)
                    [] OTHER               -> cs[u.tag]
<1>1. u.tag \in Tags /\ TypeOf(u.tag) = u.type
  BY UnitFacts
<1>2. inT \in Maybe /\ inP \in Maybe
  BY PropagateKeeps, InletKnown
<1>3. Corrected(seeds, cs, u) = [cs EXCEPT ![u.tag] = new]
  BY DEF Corrected
<1>4. CellOK(u.tag, cs[u.tag])
  BY <1>1 DEF CellsOK
<1> HIDE DEF u, now, inT, inP
<1>5. CellOK(u.tag, new)
  BY <1>1, <1>2, <1>4, Fixes DEF Raisers
<1> HIDE DEF new
<1>6. CellsOK([cs EXCEPT ![u.tag] = new])
  BY <1>5 DEF CellsOK
<1> QED
  BY <1>3, <1>6 DEF u

(* So does correcting all of them. *)
LEMMA MonotonicKeeps ==
    ASSUME BubbleKnown, plant \in Plants, NEW seeds, CondsOK(seeds), NEW cs, CellsOK(cs)
    PROVE  CellsOK(Monotonic(cs, seeds))
<1>1. Len(plant.units) \in Nat /\ DOMAIN plant.units = 1..Len(plant.units)
  BY UnitFacts
<1>2. \A i \in 1..Len(plant.units) : \A done :
         CellsOK(done) => CellsOK(Corrected(seeds, done, plant.units[i]))
  BY <1>1, CorrectedKeeps
<1>3. CellsOK(Correcting!FoldOf(seeds, cs, plant.units))
  BY <1>1, <1>2, Correcting!FoldInvariant
<1>4. Monotonic(cs, seeds) = Correcting!FoldOf(seeds, cs, plant.units)
  BY Zenon DEF Monotonic, Correcting!FoldOf, Correcting!FoldLeft, Correcting!MapThenFoldSet,
               Correcting!Max, FoldLeft, MapThenFoldSet, Max
<1> QED
  BY <1>3, <1>4

(* The backward pass and the coupling check. *)
LEMMA BackwardKeeps ==
    ASSUME BubbleKnown, plant \in Plants, NEW before, CondsOK(before), NEW cs, CellsOK(cs)
    PROVE  CellsOK(Backward(cs, before)) /\ CellsOK(Coupling(cs, before))
<1> DEFINE back == Backward(cs, before)
           coup == Coupling(cs, before)
<1>1. DOMAIN back = Tags /\ DOMAIN coup = Tags
  BY DEF Backward, Coupling, CellsOK
<1>2. ASSUME NEW t \in Tags PROVE CellOK(t, back[t]) /\ CellOK(t, coup[t])
  <2> DEFINE bp == Bp(InletP(before, t))
             inT == InletT(before, t)
  <2>1. bp \in Maybe /\ inT \in Maybe
    BY InletKnown, BpKnown
  <2>2. CellOK(t, cs[t]) /\ t \in DOMAIN cs
    BY DEF CellsOK
  <2>3. back[t] = IF bp = None THEN cs[t]
                  ELSE IF TypeOf(t) = "Heater" /\ Feeds(t, "Vessel") THEN FlashFeed(cs[t], inT, bp)
                  ELSE IF TypeOf(t) = "Cooler" /\ Feeds(t, "Pump") THEN LiquidFeed(cs[t], bp)
                  ELSE cs[t]
    BY <2>2 DEF Backward
  <2>4. coup[t] = IF bp # None /\ TypeOf(t) = "Heater" /\ Feeds(t, "Vessel")
                  THEN FlashCheck(cs[t], inT, bp) ELSE cs[t]
    BY <2>2 DEF Coupling
  <2> HIDE DEF back, coup, bp, inT
  <2>5. bp # None => bp \in Known
    BY <2>1 DEF Maybe
  <2> QED
    BY <2>1, <2>2, <2>3, <2>4, <2>5, Demands
<1> QED
  BY <1>1, <1>2, CellMap

(* Writing back fills in what is known. *)
LEMMA WriteBackKeeps ==
    ASSUME plant \in Plants, NEW old, CondsOK(old), NEW new, CondsOK(new)
    PROVE  CondsOK(WriteBack(old, new))
<1> DEFINE full == [s \in DOMAIN old |-> [T |-> Or(old[s].T, new[s].T), P |-> Or(old[s].P, new[s].P)]]
           w == WriteBack(old, new)
<1>1. DOMAIN full = StreamTags
  BY DEF CondsOK
<1>2. \A s \in StreamTags : CondOK(full[s])
  <2> SUFFICES ASSUME NEW s \in StreamTags PROVE CondOK(full[s])
    OBVIOUS
  <2>1. CondOK(old[s]) /\ CondOK(new[s]) /\ s \in DOMAIN old
    BY DEF CondsOK
  <2>2. Or(old[s].T, new[s].T) \in Maybe /\ Or(old[s].P, new[s].P) \in Maybe
    BY <2>1, OrKnown DEF CondOK
  <2> QED
    BY <2>1, <2>2 DEF CondOK
<1>3. DOMAIN w = StreamTags
  BY <1>1 DEF WriteBack
<1>4. ASSUME NEW s \in StreamTags PROVE w[s] = [full[s] EXCEPT !.T = FeedT(full)] \/ w[s] = full[s]
  BY <1>1 DEF WriteBack
<1> HIDE DEF full, w
<1>5. FeedT(full) \in Maybe
  BY <1>1, <1>2, FeedTKnown DEF CondsOK, full
<1>6. \A s \in StreamTags : CondOK(w[s])
  <2> SUFFICES ASSUME NEW s \in StreamTags PROVE CondOK(w[s])
    OBVIOUS
  <2>1. CondOK(full[s])
    BY <1>2
  <2>2. [full[s] EXCEPT !.T = FeedT(full)] = [T |-> FeedT(full), P |-> full[s].P]
    BY <2>1 DEF CondOK
  <2> QED
    BY <1>4, <1>5, <2>1, <2>2 DEF CondOK
<1> QED
  BY <1>3, <1>6 DEF CondsOK, w

(* The whole pass. *)
LEMMA ApplyKeeps ==
    ASSUME BubbleKnown, plant \in Plants, NEW g, CellsOK(g.cells), CondsOK(g.conds)
    PROVE  CellsOK(Apply(g).cells) /\ CondsOK(Apply(g).conds)
<1> DEFINE before == Propagate(g.cells, g.conds)
           after == Coupling(Backward(Monotonic(g.cells, g.conds), before), before)
<1>1. CondsOK(before)
  BY PropagateKeeps
<1>2. CellsOK(after)
  BY <1>1, MonotonicKeeps, BackwardKeeps
<1>3. CondsOK(WriteBack(g.conds, Propagate(after, g.conds)))
  BY <1>2, PropagateKeeps, WriteBackKeeps
<1>4. Apply(g) = [cells |-> after, conds |-> WriteBack(g.conds, Propagate(after, g.conds))]
  BY DEF Apply
<1> HIDE DEF after
<1> QED
  BY <1>2, <1>3, <1>4

-----------------------------------------------------------------------------
(* Stage 3.                                                                *)

(* A guess from the text is one of its values, or the feed's temperature. *)
LEMMA Guesses ==
    ASSUME plant \in Plants, NEW type \in Settable, NEW inT \in Maybe
    PROVE  Pooled(type, inT) \in Maybe \cap (Temps \cup plant.pressures \cup {Feed.T, None})
<1> DEFINE Good == Maybe \cap (Temps \cup plant.pressures \cup {Feed.T, None})
<1>1. Temps \subseteq Known /\ IsFiniteSet(Temps) /\ plant.pressures \subseteq Known
      /\ IsFiniteSet(plant.pressures) /\ Feed.T \in Known
  BY TextFacts, StreamFacts
<1>2. ASSUME NEW S, S \subseteq Temps \/ S \subseteq plant.pressures
      PROVE  Lowest(S) \in Good /\ Highest(S) \in Good
  <2>1. S \subseteq Known /\ IsFiniteSet(S)
    BY <1>1, <1>2, FS_Subset
  <2> QED
    BY <1>2, <2>1, ExtremesIn DEF Maybe
<1>3. CoolTarget \in Good
  <2> DEFINE near == SelectSeq(plant.temps, LAMBDA t : t - Feed.T \in -1 .. 1)
             others == Temps \ ToSet(near)
  <2>1. others # {} => Min(others) \in Temps
    <3>1. others \subseteq Nat
      BY <1>1 DEF Known
    <3>2. others # {} => Min(others) \in others
      BY <3>1, MinIn
    <3> QED
      BY <3>2
  <2>2. CoolTarget = IF others # {} THEN Min(others) ELSE IF Len(near) > 1 THEN Feed.T ELSE None
    BY DEF CoolTarget
  <2> HIDE DEF near, others
  <2> QED
    BY <1>1, <2>1, <2>2 DEF Maybe
<1>4. CASE type = "Heater"
  <2> DEFINE S == {t \in Temps : t > Or(inT, Feed.T) + 1}
  <2>1. S \subseteq Temps
    OBVIOUS
  <2>2. Pooled(type, inT) = Lowest(S)
    BY <1>4 DEF Pooled, Raisers
  <2> HIDE DEF S
  <2> QED
    BY <1>2, <2>1, <2>2
<1>5. CASE type = "Cooler"
  <2> DEFINE S == {t \in Temps : t < inT - 1}
  <2>1. S \subseteq Temps
    OBVIOUS
  <2>2. Pooled(type, inT) = IF inT = None THEN CoolTarget ELSE Highest(S)
    BY <1>5 DEF Pooled, Raisers
  <2> HIDE DEF S
  <2> QED
    BY <1>2, <1>3, <2>1, <2>2
<1>6. CASE type \in Raisers
  <2> DEFINE S == {p \in plant.pressures : 20 * p > 21 * Feed.P}
  <2>1. S \subseteq plant.pressures
    OBVIOUS
  <2>2. Pooled(type, inT) = Lowest(S)
    BY <1>6 DEF Pooled, Raisers
  <2> HIDE DEF S
  <2> QED
    BY <1>2, <2>1, <2>2
<1>7. CASE type = "Expander"
  <2> DEFINE S == {p \in plant.pressures : 20 * p < 19 * Feed.P}
  <2>1. S \subseteq plant.pressures
    OBVIOUS
  <2>2. Pooled(type, inT) = Highest(S)
    BY <1>7 DEF Pooled, Raisers
  <2> HIDE DEF S
  <2> QED
    BY <1>2, <2>1, <2>2
<1> QED
  BY <1>4, <1>5, <1>6, <1>7 DEF Settable, Thermal

(* An estimate is a known value. *)
LEMMA Estimates ==
    ASSUME BubbleKnown, plant \in Plants, NEW unit, unit.type \in Settable
    PROVE  Estimate(unit) \in Known
<1> DEFINE bp == Bp(Feed.P)
           margin == IF Feeds(unit.tag, "Vessel") THEN 25 ELSE 15
<1>1. Feed.T \in Known /\ Feed.P \in Known
  BY StreamFacts
<1>2. bp \in Maybe
  BY <1>1, BpKnown DEF Maybe
<1>3. margin \in {15, 25}
  OBVIOUS
<1>4. CASE unit.type = "Heater"
  <2>1. Estimate(unit) = IF bp # None THEN bp + margin ELSE Feed.T + margin + 25
    BY <1>4 DEF Estimate, Raisers
  <2> HIDE DEF bp, margin
  <2>2. bp # None => bp + margin \in Known
    BY <1>2, <1>3 DEF Maybe, Known
  <2>3. Feed.T + margin + 25 \in Known
    BY <1>1, <1>3 DEF Known
  <2> QED
    BY <2>1, <2>2, <2>3
<1>5. CASE unit.type = "Cooler"
  <2>1. \/ Estimate(unit) = Max({bp - 20, Freezing}) /\ bp # None
        \/ Estimate(unit) = Max({Feed.T - 30, Freezing})
    BY <1>5 DEF Estimate, Raisers
  <2> HIDE DEF bp
  <2>2. bp # None => bp - 20 \in Int
    BY <1>2 DEF Maybe, Known
  <2>3. Feed.T - 30 \in Int /\ Freezing \in Int /\ Freezing = 273
    BY <1>1 DEF Known, Freezing
  <2>4. ASSUME NEW a \in Int PROVE Max({a, Freezing}) \in Known
    BY <2>3, PairExtremes DEF Known
  <2> QED
    BY <2>1, <2>2, <2>3, <2>4
<1>6. CASE unit.type \in Raisers
  <2>1. Estimate(unit) = 5 * Feed.P
    BY <1>6 DEF Estimate, Raisers
  <2> QED
    BY <1>1, <2>1 DEF Known
<1>7. CASE unit.type = "Expander"
  <2>1. Estimate(unit) = LowPressure(Feed.P)
    BY <1>7 DEF Estimate, Raisers
  <2>2. Feed.P \div 3 \in Int /\ Atm \in Int
    BY <1>1 DEF Known, Atm
  <2>3. LowPressure(Feed.P) \in Known
    BY <2>2, PairExtremes DEF LowPressure, Known, Atm
  <2> QED
    BY <2>1, <2>3
<1> QED
  BY <1>4, <1>5, <1>6, <1>7 DEF Settable, Thermal

(* The setpoint a unit is assigned has its kind and a true origin. *)
LEMMA Assigns ==
    ASSUME BubbleKnown, plant \in Plants, NEW i \in DOMAIN plant.units, NEW inT \in Maybe
    PROVE  CellOK(plant.units[i].tag, AssignUnit(plant.units[i], inT))
<1> DEFINE unit == plant.units[i]
           stated == plant.stated[unit.tag]
           guess == Pooled(unit.type, inT)
           cell == AssignUnit(unit, inT)
<1>1. unit.tag \in Tags /\ TypeOf(unit.tag) = unit.type /\ unit.type \in UnitTypes
  BY UnitFacts
<1>2. stated \in Maybe /\ plant.seeded[unit.tag] \in Maybe
  BY <1>1, TextFacts
<1>3. None \notin Known /\ None # "extracted" /\ None # "fallback"
  BY NoneApart
<1>4. cell = IF unit.type \in {"Mixer", "Splitter", "Vessel", "Decanter"} THEN Unset
             ELSE IF unit.type = "Reactor" THEN ReactorCell(unit)
             ELSE IF stated # None THEN Cell(unit.type, stated, "extracted", TRUE)
             ELSE IF guess # None THEN Cell(unit.type, guess, "fallback", FALSE)
             ELSE Cell(unit.type, Estimate(unit), "computed", FALSE)
  BY DEF AssignUnit
<1>5. CASE unit.type \notin Settable \cup {"Reactor"}
  <2>1. cell = Unset
    BY <1>1, <1>4, <1>5 DEF UnitTypes
  <2>2. Shaped(unit.tag, Unset)
    BY <1>1, <1>5 DEF Shaped, Unset, Settable
  <2>3. Sound(unit.tag, Unset)
    <3>1. Unset.source = None /\ Unset.described = FALSE
      BY DEF Unset
    <3>2. Unset.source # "extracted" /\ Unset.source # "fallback"
      BY <1>3, <3>1
    <3> QED
      BY <3>1, <3>2 DEF Sound
  <2> QED
    BY <2>1, <2>2, <2>3 DEF CellOK
<1>6. CASE unit.type = "Reactor"
  <2> DEFINE seeded == plant.seeded[unit.tag]
  <2>0. cell = ReactorCell(unit)
    BY <1>4, <1>6
  <2>1. cell = [T |-> Or(Highest(Temps), Or(seeded, Template)),
                P |-> Or(Highest(plant.pressures), Feed.P),
                source |-> IF Temps = {} /\ seeded = None THEN "template" ELSE "extracted",
                described |-> FALSE]
    BY <2>0 DEF ReactorCell
  <2>2. IF Temps = {} THEN Highest(Temps) = None ELSE Highest(Temps) \in Temps
    BY TextFacts, ExtremesIn
  <2>3. Highest(plant.pressures) \in Maybe
    BY TextFacts, ExtremesIn DEF Maybe
  <2>4. Temps \subseteq Known /\ Feed.P \in Known
    BY TextFacts, StreamFacts
  <2> HIDE DEF cell, stated, guess, unit
  <2>5. cell.P \in Known
    BY <2>1, <2>3, <2>4 DEF Or, Maybe
  <2>6. Temps # {} => cell.T \in Temps
    BY <1>3, <2>1, <2>2, <2>4 DEF Or
  <2>7. Temps = {} => cell.T = Or(seeded, Template)
    BY <2>1, <2>2 DEF Or
  <2>8. Or(seeded, Template) \in Known
    BY <1>2 DEF Or, Template, Maybe, Known
  <2>9. cell.T \in Known
    BY <2>4, <2>6, <2>7, <2>8
  <2>10. cell.source = "extracted" => cell.T \in Temps \cup {seeded}
    BY <2>1, <2>6, <2>7 DEF Or
  <2>11. Shaped(unit.tag, cell)
    BY <1>1, <1>6, <2>1, <2>5, <2>9 DEF Shaped, Settable, Thermal, Raisers
  <2>12. Sound(unit.tag, cell)
    BY <1>1, <1>6, <2>1, <2>10 DEF Sound
  <2> QED
    BY <2>11, <2>12 DEF CellOK, cell, unit
<1>7. CASE unit.type \in Settable
  <2>1. guess \in Maybe \cap (Temps \cup plant.pressures \cup {Feed.T, None})
    BY <1>7, Guesses
  <2>2. Estimate(unit) \in Known
    BY <1>7, Estimates
  <2>3. unit.type \notin {"Reactor", "Mixer", "Splitter", "Vessel", "Decanter"}
    BY <1>7 DEF Settable, Thermal, Raisers
  <2>4. ASSUME NEW v \in Known, NEW source \in DOMAIN Authority, NEW described,
               described => source = "extracted",
               source = "extracted" => described /\ v = stated,
               source = "fallback" => v \in Temps \cup plant.pressures \cup {Feed.T}
        PROVE  CellOK(unit.tag, Cell(unit.type, v, source, described))
    <3> DEFINE c == Cell(unit.type, v, source, described)
    <3>1. c = [T |-> IF unit.type \in Thermal THEN v ELSE None,
               P |-> IF unit.type \in Thermal THEN None ELSE v,
               source |-> source, described |-> described]
      BY DEF Cell
    <3> HIDE DEF c, unit, stated, guess
    <3>2. Value(c) = v
      BY <1>3, <3>1 DEF Value, Or
    <3>3. Shaped(unit.tag, c)
      BY <1>1, <1>7, <2>3, <2>4, <3>1 DEF Shaped
    <3>4. Sound(unit.tag, c)
      BY <1>1, <2>3, <2>4, <3>1, <3>2 DEF Sound, stated
    <3> QED
      BY <3>3, <3>4 DEF CellOK, c
  <2>5. {"extracted", "fallback", "computed"} \subseteq DOMAIN Authority
    BY DEF Authority
  <2>6. stated # None => CellOK(unit.tag, Cell(unit.type, stated, "extracted", TRUE))
    BY <1>2, <2>4, <2>5 DEF Maybe
  <2>7. guess # None => CellOK(unit.tag, Cell(unit.type, guess, "fallback", FALSE))
    BY <2>1, <2>4, <2>5 DEF Maybe
  <2>8. CellOK(unit.tag, Cell(unit.type, Estimate(unit), "computed", FALSE))
    BY <2>2, <2>4, <2>5
  <2> HIDE DEF cell, stated, guess
  <2>9. CellOK(unit.tag, cell)
    BY <1>4, <2>3, <2>6, <2>7, <2>8
  <2> QED
    BY <2>9 DEF cell
<1> QED
  BY <1>5, <1>6, <1>7 DEF UnitTypes

(* One step of the assignment. *)
LEMMA AssignedNext ==
    ASSUME BubbleKnown, plant \in Plants, NEW i \in DOMAIN plant.units, NEW acc,
           AssignedUpTo(i - 1, acc)
    PROVE  AssignedUpTo(i, AssignedSoFar(acc, plant.units[i]))
<1> DEFINE unit == plant.units[i]
           inT == First([k \in DOMAIN plant.streams |-> acc.T[plant.streams[k].tag]], unit.tag, None)
           cell == AssignUnit(unit, inT)
           outT == IF cell.T # None THEN cell.T
                   ELSE IF unit.type \in {"Compressor", "Expander"} THEN None ELSE inT
           new == AssignedSoFar(acc, unit)
<1>1. DOMAIN acc.cells = Tags /\ DOMAIN acc.T = StreamTags /\ \A s \in StreamTags : acc.T[s] \in Maybe
  BY DEF AssignedUpTo
<1>2. inT \in Maybe
  <2> DEFINE Ts == [k \in DOMAIN plant.streams |-> acc.T[plant.streams[k].tag]]
  <2>1. \A k \in DOMAIN plant.streams : Ts[k] \in Maybe
    BY <1>1, StreamFacts
  <2>2. None \in Maybe
    BY DEF Maybe
  <2> HIDE DEF Ts
  <2>3. First(Ts, unit.tag, None) \in Maybe
    BY <2>1, <2>2, FirstIn
  <2> QED
    BY <2>3 DEF Ts
<1>3. unit.tag \in Tags /\ TypeOf(unit.tag) \in UnitTypes
  BY UnitFacts
<1>4. CellOK(unit.tag, cell)
  BY <1>2, Assigns
<1>5. new.cells = [acc.cells EXCEPT ![unit.tag] = cell]
      /\ new.T = [s \in DOMAIN acc.T |-> IF s \in OutletsOf(unit.tag) THEN outT ELSE acc.T[s]]
  BY DEF AssignedSoFar
<1> HIDE DEF inT, cell, new
<1>6. cell.T \in Maybe
  BY <1>3, <1>4, CellKnown
<1>7. outT \in Maybe
  BY <1>2, <1>6 DEF Maybe
<1> HIDE DEF outT
<1>8. DOMAIN new.T = StreamTags /\ \A s \in StreamTags : new.T[s] \in Maybe
  BY <1>1, <1>5, <1>7
<1>9. DOMAIN new.cells = Tags
  BY <1>1, <1>5
<1>10. ASSUME NEW k \in 1..i PROVE CellOK(plant.units[k].tag, new.cells[plant.units[k].tag])
  <2> DEFINE tag == plant.units[k].tag
  <2>1. DOMAIN plant.units = 1..Len(plant.units) /\ Len(plant.units) \in Nat
    BY UnitFacts
  <2>2. i \in Nat /\ k \in DOMAIN plant.units /\ (k = i \/ k \in 1..(i - 1))
    BY <2>1
  <2>3. tag \in Tags
    BY <2>2, UnitFacts
  <2>4. CASE tag = unit.tag
    BY <1>1, <1>4, <1>5, <2>3, <2>4
  <2>5. CASE tag # unit.tag
    <3>1. new.cells[tag] = acc.cells[tag] /\ k # i
      BY <1>1, <1>5, <2>3, <2>5
    <3> QED
      BY <2>2, <3>1 DEF AssignedUpTo
  <2> QED
    BY <2>4, <2>5
<1>11. AssignedUpTo(i, new)
  BY <1>8, <1>9, <1>10 DEF AssignedUpTo
<1> QED
  BY <1>11 DEF new

(* The assignment gives every unit its setpoint. *)
LEMMA AssignKeeps ==
    ASSUME BubbleKnown, plant \in Plants, CondsOK(conds), cells = [t \in Tags |-> Unset]
    PROVE  CellsOK(FoldLeft(AssignedSoFar,
                       [cells |-> cells, T |-> [s \in DOMAIN conds |-> conds[s].T]],
                       plant.units).cells)
<1> DEFINE base == [cells |-> cells, T |-> [s \in DOMAIN conds |-> conds[s].T]]
           end == FoldLeft(AssignedSoFar, base, plant.units)
           n == Len(plant.units)
<1>1. n \in Nat /\ DOMAIN plant.units = 1..n
      /\ Tags = {plant.units[i].tag : i \in DOMAIN plant.units}
  BY UnitFacts
<1>2. AssignedUpTo(0, base)
  BY DEF AssignedUpTo, CondsOK, CondOK
<1>3. end = Assigning!FoldOf(0, base, plant.units)
  BY Zenon DEF Assigning!FoldOf, Assigning!FoldLeft, Assigning!MapThenFoldSet,
               Assigning!Max, FoldLeft, MapThenFoldSet, Max
<1> HIDE DEF base, end, n
<1>4. \A i \in 1..n : \A acc : AssignedUpTo(i - 1, acc) => AssignedUpTo(i, AssignedSoFar(acc, plant.units[i]))
  BY <1>1, AssignedNext
<1>5. AssignedUpTo(n, Assigning!FoldOf(0, base, plant.units))
  BY <1>1, <1>2, <1>4, Assigning!FoldInvariant
<1>6. AssignedUpTo(n, end)
  BY <1>3, <1>5
<1>7. CellsOK(end.cells)
  BY <1>1, <1>6 DEF AssignedUpTo, CellsOK
<1> QED
  BY <1>7 DEF end, base

-----------------------------------------------------------------------------
(* The rules.                                                              *)

(* A rule book keeps all setpoints in order. *)
LEMMA RulesKeep ==
    ASSUME plant \in Plants, NEW rules \in RuleBooks, NEW cs, CellsOK(cs)
    PROVE  CellsOK(FoldLeft(RuleApplied, cs, rules))
<1> DEFINE n == Len(rules)
<1>1. n \in Nat /\ DOMAIN rules = 1..n
      /\ \A i \in 1..n : rules[i].type \in Settable /\ rules[i].value \in Known
  BY RulesAssumption
<1>2. ASSUME NEW i \in 1..n, NEW now, CellsOK(now) PROVE CellsOK(RuleApplied(now, rules[i]))
  <2> DEFINE r == rules[i]
             new == RuleApplied(now, r)
  <2>1. DOMAIN new = Tags
    BY <1>2 DEF RuleApplied, CellsOK
  <2>2. ASSUME NEW t \in Tags PROVE CellOK(t, new[t])
    <3>1. new[t] = Rule(r, t, now[t]) /\ CellOK(t, now[t])
      BY <1>2 DEF RuleApplied, CellsOK
    <3> HIDE DEF new
    <3>2. r.type \in Settable /\ r.value \in Known
      BY <1>1
    <3> HIDE DEF r
    <3>3. Matches(r, t) => TypeOf(t) \in Settable
      BY <3>2 DEF Matches
    <3>4. Rule(r, t, now[t]) = now[t] \/ (Matches(r, t) /\ Rule(r, t, now[t]) = Set(now[t], r.value))
      BY DEF Rule
    <3> QED
      BY <3>1, <3>2, <3>3, <3>4, Sets
  <2> HIDE DEF new
  <2>3. CellsOK(new)
    BY <2>1, <2>2, CellMap
  <2> QED
    BY <2>3 DEF new
<1>3. FoldLeft(RuleApplied, cs, rules) = Ruling!FoldOf(0, cs, rules)
  BY Zenon DEF Ruling!FoldOf, Ruling!FoldLeft, Ruling!MapThenFoldSet,
               Ruling!Max, FoldLeft, MapThenFoldSet, Max
<1> HIDE DEF n
<1>4. CellsOK(Ruling!FoldOf(0, cs, rules))
  BY <1>1, <1>2, Ruling!FoldInvariant
<1> QED
  BY <1>3, <1>4

-----------------------------------------------------------------------------
(* Repairs.                                                                *)

(* Looking one unit further up sees nothing but conditions. *)
LEMMA LooksOn ==
    ASSUME plant \in Plants, CellsOK(cells), CondsOK(conds), NEW seen, SeenOK(seen), NEW u
    PROVE  SeenOK(OneFurther(seen, u))
<1>1. Nothing \in [T : Maybe, P : Maybe]
  BY DEF Nothing, Maybe
<1>2. ASSUME NEW i \in DOMAIN plant.streams
      PROVE  Upstream(seen, plant.streams[i]) \in [T : Maybe, P : Maybe]
  <2> DEFINE s == plant.streams[i]
             made == [T |-> cells[s.src].T, P |-> Or(cells[s.src].P, conds[s.tag].P)]
  <2>1. s.tag \in StreamTags /\ s.src \in Tags \cup {None}
    BY StreamFacts
  <2>2. conds[s.tag] \in [T : Maybe, P : Maybe]
    BY <2>1 DEF CondsOK, CondOK
  <2>3. s.src # None => seen[s.src] \in [T : Maybe, P : Maybe]
    BY <2>1 DEF SeenOK, CondOK
  <2>4. s.src # None => cells[s.src].T \in Maybe /\ cells[s.src].P \in Maybe
    BY <2>1, UnitFacts, CellKnown DEF CellsOK
  <2>5. s.src # None => made \in [T : Maybe, P : Maybe]
    BY <2>2, <2>4, OrKnown
  <2>6. Upstream(seen, s) = IF conds[s.tag].T # None THEN conds[s.tag]
                            ELSE IF s.src = None THEN Nothing
                            ELSE IF TypeOf(s.src) # "Reactor" /\ Value(cells[s.src]) # None THEN made
                            ELSE seen[s.src]
    BY DEF Upstream
  <2> HIDE DEF made, s
  <2>7. Upstream(seen, s) \in [T : Maybe, P : Maybe]
    BY <1>1, <2>2, <2>3, <2>5, <2>6
  <2> QED
    BY <2>7 DEF s
<1>3. ASSUME NEW t \in Tags PROVE OneFurther(seen, u)[t] \in [T : Maybe, P : Maybe]
  <2> DEFINE values == [i \in DOMAIN plant.streams |-> Upstream(seen, plant.streams[i])]
  <2>1. OneFurther(seen, u)[t] = First(values, t, Nothing)
    BY DEF OneFurther
  <2>2. \A i \in DOMAIN plant.streams : values[i] \in [T : Maybe, P : Maybe]
    BY <1>2
  <2> HIDE DEF values
  <2>3. First(values, t, Nothing) \in [T : Maybe, P : Maybe]
    BY <1>1, <2>2, FirstIn
  <2> QED
    BY <2>1, <2>3
<1> QED
  BY <1>3 DEF SeenOK, CondOK

(* What a repair sees of an inlet is well typed. *)
LEMMA SeenKnown ==
    ASSUME plant \in Plants, CellsOK(cells), CondsOK(conds), NEW t \in Tags
    PROVE  Seen(t).T \in Maybe /\ Seen(t).P \in Maybe
<1> DEFINE base == [x \in Tags |-> Nothing]
           end == FoldLeft(OneFurther, base, plant.units)
           n == Len(plant.units)
<1>1. n \in Nat /\ DOMAIN plant.units = 1..n
  BY UnitFacts
<1>2. SeenOK(base)
  BY DEF SeenOK, CondOK, Nothing, Maybe
<1>3. end = Looking!FoldOf(0, base, plant.units)
  BY Zenon DEF Looking!FoldOf, Looking!FoldLeft, Looking!MapThenFoldSet,
               Looking!Max, FoldLeft, MapThenFoldSet, Max
<1>4. Seen(t) = end[t]
  BY DEF Seen
<1> HIDE DEF base, end, n
<1>5. \A i \in 1..n : \A seen : SeenOK(seen) => SeenOK(OneFurther(seen, plant.units[i]))
  BY LooksOn
<1>6. SeenOK(Looking!FoldOf(0, base, plant.units))
  BY <1>1, <1>2, <1>5, Looking!FoldInvariant
<1> QED
  BY <1>3, <1>4, <1>6 DEF SeenOK, CondOK

(* A candidate is a known value, for a unit that has a setpoint. *)
LEMMA CandidatesKnown ==
    ASSUME BubbleKnown, plant \in Plants, CellsOK(cells), CondsOK(conds), NEW t \in Tags
    PROVE  \A v \in Candidates(t) : v \in Known /\ TypeOf(t) \in Settable
<1> DEFINE seen == Seen(t)
           bp == Bp(seen.P)
           ft == Or(seen.T, 298)
           fp == Or(seen.P, Atm)
<1>1. bp \in Maybe /\ ft \in Known /\ fp \in Known
  <2>1. seen.T \in Maybe /\ seen.P \in Maybe
    BY SeenKnown
  <2> HIDE DEF seen
  <2>2. bp \in Maybe
    BY <2>1, BpKnown
  <2>3. ft \in Known /\ fp \in Known
    BY <2>1 DEF Or, Maybe, Known, Atm
  <2> QED
    BY <2>2, <2>3
<1>2. ASSUME NEW a \in Int, NEW b \in Known PROVE Max({a, b}) \in Known
  <2>1. b \in Int
    BY DEF Known
  <2> QED
    BY <2>1, PairExtremes DEF Known
<1>3. Freezing \in Known /\ 233 \in Known /\ Atm \in Known
  BY DEF Freezing, Atm, Known
<1>4. PhysicsCandidates(t, bp) \subseteq Known
  <2>1. bp # None => bp - 15 \in Int /\ \A d \in {15, 20, 30} : bp + d \in Known
    BY <1>1 DEF Maybe, Known
  <2> HIDE DEF bp
  <2>2. bp # None => Max({bp - 15, Freezing}) \in Known
    BY <1>2, <1>3, <2>1
  <2>3. PhysicsCandidates(t, bp) \subseteq
           IF bp = None THEN {} ELSE {bp + d : d \in {15, 20, 30}} \cup {Max({bp - 15, Freezing})}
    BY DEF PhysicsCandidates
  <2> QED
    BY <2>1, <2>2, <2>3
<1>5. CASE TypeOf(t) = "Heater"
  <2> DEFINE flash == IF bp = None THEN {} ELSE {bp + d : d \in {10, 20, 35}}
             tiers == {ft + d : d \in {25, 50, 75, 100}}
  <2>0. Candidates(t) = {v \in HeaterTiers(t, ft, bp) : seen.T = None \/ v > seen.T}
    BY <1>5 DEF Candidates, Raisers
  <2>1. HeaterTiers(t, ft, bp) = tiers \cup PhysicsCandidates(t, bp) \cup flash
    BY DEF HeaterTiers
  <2>2. \A d \in {25, 50, 75, 100} : ft + d \in Known
    BY <1>1 DEF Known
  <2>3. bp # None => \A d \in {10, 20, 35} : bp + d \in Known
    BY <1>1 DEF Maybe, Known
  <2> HIDE DEF bp, ft
  <2>4. flash \subseteq Known /\ tiers \subseteq Known
    BY <2>2, <2>3
  <2> QED
    BY <1>4, <1>5, <2>0, <2>1, <2>4 DEF Settable, Thermal
<1>6. CASE TypeOf(t) = "Cooler"
  <2> DEFINE tiers == {Max({ft - d, 233}) : d \in {20, 40, 60, 80, 100, 120, 150}}
  <2>0. Candidates(t) = {v \in CoolerTiers(t, ft, bp) : seen.T = None \/ v < seen.T}
    BY <1>6 DEF Candidates, Raisers
  <2>1. CoolerTiers(t, ft, bp) = tiers \cup {233, 253, 273} \cup PhysicsCandidates(t, bp)
    BY DEF CoolerTiers
  <2>2. \A d \in {20, 40, 60, 80, 100, 120, 150} : ft - d \in Int
    BY <1>1 DEF Known
  <2> HIDE DEF bp, ft
  <2>3. tiers \subseteq Known
    BY <1>2, <1>3, <2>2
  <2>4. {233, 253, 273} \subseteq Known
    BY DEF Known
  <2> QED
    BY <1>4, <1>6, <2>0, <2>1, <2>3, <2>4 DEF Settable, Thermal
<1>7. CASE TypeOf(t) \in Raisers
  <2>1. Candidates(t) = {fp * d : d \in {2, 3, 5, 7, 10, 15, 20}} \cup {500, 1000, 2000, 5000, 10000}
    BY <1>7 DEF Candidates, Raisers
  <2> HIDE DEF fp
  <2>2. \A d \in {2, 3, 5, 7, 10, 15, 20} : fp * d \in Known
    BY <1>1 DEF Known
  <2>3. {500, 1000, 2000, 5000, 10000} \subseteq Known
    BY DEF Known
  <2> QED
    BY <1>7, <2>1, <2>2, <2>3 DEF Settable
<1>8. CASE TypeOf(t) = "Expander"
  <2>1. Candidates(t) = {Max({fp \div d, Atm}) : d \in {2, 3, 5}}
    BY <1>8 DEF Candidates, Raisers
  <2> HIDE DEF fp
  <2>2. \A d \in {2, 3, 5} : fp \div d \in Int
    BY <1>1 DEF Known
  <2>3. \A d \in {2, 3, 5} : Max({fp \div d, Atm}) \in Known
    BY <1>2, <1>3, <2>2
  <2> QED
    BY <1>8, <2>1, <2>3 DEF Settable
<1>9. CASE TypeOf(t) \notin Settable
  <2>1. Candidates(t) = {}
    BY <1>9 DEF Candidates, Settable, Thermal, Raisers
  <2> QED
    BY <2>1
<1> QED
  BY <1>5, <1>6, <1>7, <1>8, <1>9 DEF Settable, Thermal

(* Settling the neighbours of a new pressure corrects heaters and coolers. *)
LEMMA SettleKeeps ==
    ASSUME BubbleKnown, plant \in Plants, NEW cs, CellsOK(cs), NEW tag \in Tags
    PROVE  CellsOK(Settle(cs, tag))
<1> DEFINE bp == Bp(cs[tag].P)
           cool == Max({bp - 15, Freezing})
           new == Settle(cs, tag)
<1>1. bp \in Maybe
  BY UnitFacts, CellKnown, BpKnown DEF CellsOK
<1>2. CASE TypeOf(tag) \in Thermal \/ bp = None
  <2>1. new = cs
    BY <1>2 DEF Settle
  <2> QED
    BY <2>1
<1>3. CASE ~(TypeOf(tag) \in Thermal \/ bp = None)
  <2>1. bp \in Known
    BY <1>1, <1>3 DEF Maybe
  <2>2. cool \in Known /\ bp + 20 \in Known
    <3>1. bp - 15 \in Int /\ Freezing \in Int
      BY <2>1 DEF Known, Freezing
    <3> HIDE DEF bp
    <3> QED
      BY <2>1, <3>1, PairExtremes DEF Known, Freezing
  <2>3. DOMAIN new = Tags
    BY <1>3 DEF Settle, CellsOK
  <2>4. ASSUME NEW t \in Tags
        PROVE  \/ new[t] = cs[t]
               \/ TypeOf(t) = "Cooler" /\ new[t] = Correct(cs[t], cool)
               \/ TypeOf(t) = "Heater" /\ new[t] = Correct(cs[t], bp + 20)
    BY <1>3 DEF Settle, CellsOK
  <2> HIDE DEF new, cool, bp
  <2>5. ASSUME NEW t \in Tags PROVE CellOK(t, new[t])
    <3>1. CellOK(t, cs[t])
      BY DEF CellsOK
    <3> QED
      BY <2>2, <2>4, <3>1, Corrects DEF Settable, Thermal
  <2>6. CellsOK(new)
    BY <2>3, <2>5, CellMap
  <2> QED
    BY <2>6 DEF new
<1> QED
  BY <1>2, <1>3

(* A move of the descent is a known value, for a unit that has a setpoint. *)
LEMMA MovesKnown ==
    ASSUME BubbleKnown, plant \in Plants, CellsOK(cells), CondsOK(conds), NEW t \in Tags
    PROVE  \A v \in Moves(t) : v \in Known /\ TypeOf(t) \in Settable
<1>1. TypeOf(t) \in UnitTypes /\ CellOK(t, cells[t])
  BY UnitFacts DEF CellsOK
<1>2. InletT(conds, t) \in Maybe /\ Bp(InletP(conds, t)) \in Maybe
  BY InletKnown, BpKnown
<1>3. Lower(t) \in Int /\ Lower(t) >= 150
  <2> DEFINE inT == InletT(conds, t)
             bp == Bp(InletP(conds, t))
             A == IF TypeOf(t) # "Heater" \/ inT = None THEN {} ELSE {inT + 1}
             B == IF TypeOf(t) = "Heater" /\ bp # None /\ Feeds(t, "Vessel") THEN {bp + 5} ELSE {}
             S == {150} \cup A \cup B
  <2>1. Lower(t) = Max(S)
    <3>1. {150} \cup (IF TypeOf(t) # "Heater" THEN {} ELSE
              (IF inT = None THEN {} ELSE {inT + 1})
              \cup (IF bp # None /\ Feeds(t, "Vessel") THEN {bp + 5} ELSE {})) = S
      OBVIOUS
    <3> QED
      BY <3>1 DEF Lower
  <2>2. (inT # None => inT + 1 \in Nat) /\ (bp # None => bp + 5 \in Nat)
    BY <1>2 DEF Maybe, Known
  <2>3. A \subseteq Nat /\ B \subseteq Nat
    BY <2>2
  <2>4. IsFiniteSet({150}) /\ IsFiniteSet(A) /\ IsFiniteSet(B)
    BY FS_EmptySet, FS_Singleton
  <2> HIDE DEF A, B
  <2>5. IsFiniteSet(S) /\ S \subseteq Nat /\ 150 \in S
    <3>1. IsFiniteSet({150} \cup A)
      BY <2>4, FS_Union
    <3>2. IsFiniteSet(({150} \cup A) \cup B)
      BY <2>4, <3>1, FS_Union
    <3> QED
      BY <2>3, <3>2
  <2> HIDE DEF S
  <2>6. Passing!IsFiniteSet(S)
    BY Zenon, <2>5 DEF IsFiniteSet, Passing!IsFiniteSet
  <2>7. Passing!Max(S) \in S /\ \A y \in S : Passing!Max(S) >= y
    BY <2>5, <2>6, Passing!FiniteMax
  <2>8. Passing!Max(S) = Max(S)
    BY Zenon DEF Passing!Max, Max
  <2>9. Max(S) \in Nat /\ Max(S) >= 150
    BY <2>5, <2>7, <2>8
  <2> QED
    BY <2>1, <2>9
<1>4. Upper(t) \in Int
  BY <1>2 DEF Upper, Or, Maybe, Known
<1>5. CASE TypeOf(t) \in Thermal
  <2>1. Moves(t) = TryTemperature(t, Value(cells[t]))
    BY <1>5 DEF Moves, Thermal, Raisers
  <2>2. \A v \in TryTemperature(t, Value(cells[t])) : \E w \in 51 .. 1999 : v = Clamp(t, w)
    BY DEF TryTemperature
  <2>3. ASSUME NEW w \in Int PROVE Clamp(t, w) \in Known
    <3> DEFINE low == Lower(t)
               high == Upper(t)
               inner == Min({high, w})
    <3>1. low \in Int /\ low >= 150 /\ high \in Int
      BY <1>3, <1>4
    <3> HIDE DEF low, high
    <3>2. inner \in Int
      <4>1. inner = IF high <= w THEN high ELSE w
        BY <3>1, PairExtremes
      <4> QED
        BY <3>1, <4>1
    <3> HIDE DEF inner
    <3>3. Max({low, inner}) \in Int /\ Max({low, inner}) >= 150
      BY <3>1, <3>2, PairExtremes
    <3>4. Clamp(t, w) = Max({low, inner})
      BY DEF Clamp, Resolve, low, high, inner
    <3> QED
      BY <3>3, <3>4 DEF Known
  <2>4. \A v \in Moves(t) : v \in Known
    BY <2>1, <2>2, <2>3
  <2> QED
    BY <1>5, <2>4 DEF Settable
<1>6. CASE TypeOf(t) \in Raisers \cup {"Expander"}
  <2> DEFINE value == Value(cells[t])
  <2>1. value \in Known
    BY <1>1, <1>6 DEF CellOK, Shaped, Settable, Thermal, Raisers, Value, Or
  <2>2. \A v \in Moves(t) :
          /\ v > 0
          /\ \E d \in {10, 25, 50, -10, -25, -50}, m \in {1, 2, 4} :
                v = (value * (100 + d * m)) \div 100
    BY <1>6 DEF Moves, TryPressure, Thermal, Raisers
  <2> HIDE DEF value
  <2>3. ASSUME NEW d \in Int, NEW m \in Int PROVE (value * (100 + d * m)) \div 100 \in Int
    <3>1. \A a, b \in Int : a * b \in Int /\ 100 + a \in Int /\ a \div 100 \in Int
      OBVIOUS
    <3>2. 100 + d * m \in Int /\ value \in Int
      BY <2>1, <3>1 DEF Known
    <3> QED
      BY <3>1, <3>2
  <2>4. ASSUME NEW v \in Moves(t) PROVE v > 0 /\ v \in Int
    <3>1. PICK d \in {10, 25, 50, -10, -25, -50}, m \in {1, 2, 4} : v = (value * (100 + d * m)) \div 100
      BY <2>2
    <3>2. d \in Int /\ m \in Int
      OBVIOUS
    <3> QED
      BY <2>2, <2>3, <3>1, <3>2
  <2> QED
    BY <1>6, <2>4 DEF Known, Settable
<1>7. CASE TypeOf(t) \notin Settable
  <2>1. Moves(t) = {}
    BY <1>7 DEF Moves, Settable, Thermal, Raisers
  <2> QED
    BY <2>1
<1> QED
  BY <1>5, <1>6, <1>7 DEF Settable, Thermal

-----------------------------------------------------------------------------
(* The invariant.                                                          *)

(* The flowsheet's units and streams stay what they are. *)
LEMMA Unmoved ==
    ASSUME plant' = plant
    PROVE  /\ Tags' = Tags
           /\ CellsOK(cells') => CellsOK(cells)'
           /\ CondsOK(conds') => CondsOK(conds)'
<1>1. Tags' = Tags /\ StreamTags' = StreamTags /\ Temps' = Temps
  BY DEF Tags, Units, StreamTags, Temps
<1>2. \A t : (TypeOf(t))' = TypeOf(t)
  BY DEF TypeOf, Units
<1>3. Feed' = Feed
  BY Zenon DEF Feed
<1>4. CellsOK(cells') => CellsOK(cells)'
  BY <1>1, <1>2, <1>3 DEF CellsOK, CellOK, Shaped, Sound
<1>5. CondsOK(conds') => CondsOK(conds)'
  BY <1>1 DEF CondsOK, CondOK
<1> QED
  BY <1>1, <1>4, <1>5

(* A graph as extracted and built satisfies the invariant.                 *)
LEMMA CondInit == Init => CondInv
<1> SUFFICES ASSUME Init PROVE CondInv
  OBVIOUS
<1>1. plant \in Plants /\ pc = "assign" /\ cells = [t \in Tags |-> Unset]
      /\ fixed = {} /\ repairs = 0 /\ outcome = None
  BY DEF Init
<1>2. CondsOK(conds)
  <2> DEFINE streams == ToSet(plant.streams)
             given(s) == CHOOSE j \in streams : j.tag = s
  <2>1. conds = [s \in {i.tag : i \in streams} |-> [T |-> given(s).T, P |-> given(s).P]]
    BY DEF Init
  <2>2. streams = {plant.streams[i] : i \in DOMAIN plant.streams}
    BY Zenon DEF ToSet
  <2>3. \A j \in streams : j.T \in Maybe /\ j.P \in Maybe
    BY <1>1, <2>2, StreamFacts
  <2>4. StreamTags = {i.tag : i \in streams}
    BY DEF StreamTags
  <2> HIDE DEF streams
  <2>5. \A s \in StreamTags : given(s) \in streams
    BY <2>4
  <2> HIDE DEF given
  <2>6. \A s \in StreamTags : [T |-> given(s).T, P |-> given(s).P] \in [T : Maybe, P : Maybe]
    BY <2>3, <2>5
  <2> QED
    BY <2>1, <2>4, <2>6 DEF CondsOK, CondOK
<1>3. repairs \in 0 .. MaxRepairs
  BY <1>1, BoundsAssumption
<1> QED
  BY <1>1, <1>2, <1>3 DEF CondInv

(* Correcting one unit of the graph by hand. *)
LEMMA FixOne ==
    ASSUME NEW cs, CellsOK(cs), NEW t \in Tags, TypeOf(t) \in Settable, NEW v \in Known
    PROVE  CellsOK([cs EXCEPT ![t] = Correct(@, v)])
<1>1. CellOK(t, Correct(cs[t], v))
  BY Corrects DEF CellsOK
<1> QED
  BY <1>1 DEF CellsOK

(* Reading a temperature as Celsius makes a temperature of it. *)
LEMMA Kelvin ==
    /\ \A v \in Known : InKelvin(v) \in Known
    /\ \A v \in Maybe : InKelvin(v) \in Maybe
BY NoneApart DEF InKelvin, Freezing, Known, Maybe

(* Steps change setpoints and conditions only in these ways. *)
LEMMA GraphStep ==
    ASSUME BubbleKnown, CondInv, Next
    PROVE  /\ plant' = plant
           /\ pc' # "assign" /\ CellsOK(cells') /\ CondsOK(conds')
<1>0. /\ plant \in Plants /\ CondsOK(conds)
      /\ pc # "assign" => CellsOK(cells)
      /\ pc = "assign" => cells = [t \in Tags |-> Unset]
  BY DEF CondInv
<1>1. CASE Assign
  BY <1>0, <1>1, AssignKeeps DEF Assign
<1>2. CASE Consistency
  <2>1. CellsOK(Graph.cells) /\ CondsOK(Graph.conds)
    BY <1>0, <1>2 DEF Consistency, Graph
  <2>2. CellsOK(Apply(Graph).cells) /\ CondsOK(Apply(Graph).conds)
    BY <1>0, <2>1, ApplyKeeps
  <2> QED
    BY <1>2, <2>2 DEF Consistency
<1>3. CASE ApplyRules
  BY <1>0, <1>3, RulesKeep DEF ApplyRules
<1>4. CASE Validate
  BY <1>0, <1>4 DEF Validate
<1>5. CASE Solve
  BY <1>0, <1>5 DEF Solve
<1>6. CASE RepairOne
  <2>1. PICK t \in Tags : \E v \in Candidates(t) : cells' = [cells EXCEPT ![t] = Correct(@, v)]
    BY <1>6 DEF RepairOne
  <2>2. PICK v \in Candidates(t) : cells' = [cells EXCEPT ![t] = Correct(@, v)]
    BY <2>1
  <2>3. CellsOK(cells)
    BY <1>0, <1>6 DEF RepairOne
  <2>4. v \in Known /\ TypeOf(t) \in Settable
    BY <1>0, <2>3, CandidatesKnown
  <2> QED
    BY <1>0, <1>6, <2>2, <2>3, <2>4, FixOne DEF RepairOne
<1>7. CASE BeamStep
  <2>0. PICK t \in Tags \ fixed : \E v \in Candidates(t) :
          LET g == Apply([Graph EXCEPT !.cells[t] = Correct(@, v)])
          IN  cells' = Settle(g.cells, t) /\ conds' = g.conds
    BY <1>7 DEF BeamStep
  <2>1. PICK v \in Candidates(t) :
          LET g == Apply([Graph EXCEPT !.cells[t] = Correct(@, v)])
          IN  cells' = Settle(g.cells, t) /\ conds' = g.conds
    BY <2>0
  <2>2. CellsOK(cells)
    BY <1>0, <1>7 DEF BeamStep
  <2>3. v \in Known /\ TypeOf(t) \in Settable
    BY <1>0, <2>2, CandidatesKnown
  <2> DEFINE h == [Graph EXCEPT !.cells[t] = Correct(@, v)]
  <2>4. h.cells = [cells EXCEPT ![t] = Correct(@, v)] /\ h.conds = conds
    BY DEF Graph
  <2> HIDE DEF h
  <2>5. CellsOK(h.cells) /\ CondsOK(h.conds)
    BY <1>0, <2>2, <2>3, <2>4, FixOne
  <2>6. CellsOK(Apply(h).cells) /\ CondsOK(Apply(h).conds)
    BY <1>0, <2>5, ApplyKeeps
  <2>7. CellsOK(Settle(Apply(h).cells, t))
    BY <1>0, <2>6, SettleKeeps
  <2> QED
    BY <1>7, <2>1, <2>6, <2>7 DEF BeamStep, h
<1>8. CASE Descend
  <2>0. PICK t \in Tags : \E v \in Moves(t) : cells' = [cells EXCEPT ![t] = Correct(@, v)]
    BY <1>8 DEF Descend
  <2>1. PICK v \in Moves(t) : cells' = [cells EXCEPT ![t] = Correct(@, v)]
    BY <2>0
  <2>2. CellsOK(cells)
    BY <1>0, <1>8 DEF Descend
  <2>3. v \in Known /\ TypeOf(t) \in Settable
    BY <1>0, <2>2, MovesKnown
  <2> QED
    BY <1>0, <1>8, <2>1, <2>2, <2>3, FixOne DEF Descend
<1>9. CASE EndRepair
  BY <1>0, <1>9 DEF EndRepair
<1>10. CASE ConvertUnit
  <2>1. PICK t \in Tags :
          /\ TypeOf(t) \in Thermal
          /\ cells' = [cells EXCEPT ![t] = IF @.T < 100 THEN Correct(@, InKelvin(@.T)) ELSE @]
    BY <1>10 DEF ConvertUnit
  <2>2. CellsOK(cells)
    BY <1>0, <1>10 DEF ConvertUnit
  <2>3. cells[t].T \in Known /\ TypeOf(t) \in Settable
    BY <2>1, <2>2 DEF CellsOK, CellOK, Shaped, Settable
  <2>4. CASE cells[t].T < 100
    <3>1. cells' = [cells EXCEPT ![t] = Correct(@, InKelvin(cells[t].T))]
      BY <2>1, <2>4
    <3> QED
      BY <1>0, <1>10, <2>2, <2>3, <3>1, Kelvin, FixOne DEF ConvertUnit
  <2>5. CASE ~(cells[t].T < 100)
    <3>1. cells' = [cells EXCEPT ![t] = @]
      BY <2>1, <2>5
    <3>2. CellsOK(cells')
      BY <2>2, <3>1 DEF CellsOK
    <3> QED
      BY <1>0, <1>10, <3>2 DEF ConvertUnit
  <2> QED
    BY <2>4, <2>5
<1>11. CASE ConvertStream
  <2>1. PICK s \in DOMAIN conds : conds' = [conds EXCEPT ![s].T = InKelvin(@)]
    BY <1>11 DEF ConvertStream
  <2>2. CondOK(conds[s])
    BY <1>0 DEF CondsOK
  <2>3. [conds[s] EXCEPT !.T = InKelvin(@)] \in [T : Maybe, P : Maybe]
    BY <2>2, Kelvin DEF CondOK
  <2>4. CondsOK(conds')
    BY <1>0, <2>1, <2>3 DEF CondsOK, CondOK
  <2> QED
    BY <1>0, <1>11, <2>4 DEF ConvertStream
<1> QED
  BY <1>1, <1>2, <1>3, <1>4, <1>5, <1>6, <1>7, <1>8, <1>9, <1>10, <1>11 DEF Next

(* So does every graph a pass, a rule or a repair makes of one that does.  *)
LEMMA CondStep == BubbleKnown /\ CondInv /\ [Next]_vars => CondInv'
<1> SUFFICES ASSUME BubbleKnown, CondInv, [Next]_vars PROVE CondInv'
  OBVIOUS
<1>1. CASE Next
  <2>1. /\ plant' = plant /\ pc' # "assign" /\ CellsOK(cells)' /\ CondsOK(conds)' /\ Tags' = Tags
    BY <1>1, GraphStep, Unmoved
  <2>2. /\ pc' \in {"assign", "consistency", "rules", "validate", "solve", "repair", "optimise", "done"}
        /\ fixed' \subseteq Tags
        /\ repairs' \in 0 .. MaxRepairs
        /\ outcome' \in {None, "PASS", "MAX_ITER", "INVALID_IR"}
        /\ (pc' = "done") = (outcome' # None)
    <3>1. repairs \in 0 .. MaxRepairs /\ MaxRepairs \in Nat
      BY BoundsAssumption DEF CondInv
    <3>2. CASE Solve
      BY <1>1, <3>1, <3>2, NoneApart DEF CondInv, Solve
    <3>3. CASE Validate
      BY <3>1, <3>3, NoneApart DEF CondInv, Validate
    <3>4. CASE Assign \/ Consistency \/ ApplyRules
      BY <3>1, <3>4 DEF CondInv, Assign, Consistency, ApplyRules
    <3>5. CASE RepairOne \/ Descend \/ EndRepair
      BY <3>1, <3>5 DEF CondInv, RepairOne, Descend, EndRepair
    <3>6. CASE BeamStep
      BY <3>1, <3>6 DEF CondInv, BeamStep
    <3>7. CASE ConvertUnit \/ ConvertStream
      BY <3>1, <3>7 DEF CondInv, ConvertUnit, ConvertStream
    <3> QED
      BY <1>1, <3>2, <3>3, <3>4, <3>5, <3>6, <3>7 DEF Next
  <2> QED
    BY <2>1, <2>2 DEF CondInv
<1>2. CASE UNCHANGED vars
  <2>1. plant' = plant /\ pc' = pc /\ cells' = cells /\ conds' = conds
        /\ fixed' = fixed /\ repairs' = repairs /\ outcome' = outcome
    BY <1>2 DEF vars
  <2>2. Tags' = Tags /\ (CellsOK(cells) => CellsOK(cells)') /\ (CondsOK(conds) => CondsOK(conds)')
    BY <2>1, Unmoved
  <2> QED
    BY <2>1, <2>2 DEF CondInv
<1> QED
  BY <1>1, <1>2

-----------------------------------------------------------------------------

(* Setpoints are typed and their claims true, conditions are typed. *)
THEOREM CondInvariance == ASSUME BubbleKnown PROVE Spec => []CondInv
<1>1. Init => CondInv
  BY CondInit
<1>2. CondInv /\ [Next]_vars => CondInv'
  BY CondStep
<1> QED
  BY <1>1, <1>2, PTL DEF Spec

(* Once Stage 3 has run, every unit that needs a setpoint has a positive   *)
(* one of known origin, whatever passes, rules and repairs follow: the     *)
(* language model is never asked for a missing value.                      *)
THEOREM CondTypeCorrect == ASSUME BubbleKnown PROVE Spec => []TypeOK
<1>1. CondInv => TypeOK
  <2> SUFFICES ASSUME CondInv PROVE TypeOK
    OBVIOUS
  <2>1. ASSUME pc # "assign", NEW t \in Tags PROVE Filled(t)
    <3>1. CellOK(t, cells[t])
      BY <2>1 DEF CondInv, CellsOK
    <3>2. None \notin Known
      BY NoneApart
    <3> DEFINE c == cells[t]
    <3> HIDE DEF c
    <3>3. Shaped(t, c)
      BY <3>1 DEF CellOK, c
    <3>4. CASE TypeOf(t) \in Thermal
      BY <3>2, <3>3, <3>4 DEF Filled, Shaped, Value, Or, Settable, c
    <3>5. CASE TypeOf(t) \in Settable \ Thermal
      BY <3>2, <3>3, <3>5 DEF Filled, Shaped, Value, Or, c
    <3>6. CASE TypeOf(t) = "Reactor"
      <4>1. "extracted" \in DOMAIN Authority
        BY DEF Authority
      <4> QED
        BY <3>2, <3>3, <3>6, <4>1 DEF Filled, Shaped, Value, Or, Settable, Thermal, Raisers, c
    <3>7. CASE TypeOf(t) \notin Settable \cup {"Reactor"}
      BY <3>7 DEF Filled
    <3> QED
      BY <3>4, <3>5, <3>6, <3>7
  <2> QED
    BY <2>1 DEF CondInv, TypeOK
<1> QED
  BY <1>1, CondInvariance, PTL

(* A setpoint that says it was read from the description is what the       *)
(* description states of the unit, and a guess is one of the text's values *)
(* or the feed's, after any number of passes, rules and repairs.           *)
THEOREM ProvenanceStaysTruthful == ASSUME BubbleKnown PROVE Spec => []ProvenanceTruthful
<1>1. CondInv => ProvenanceTruthful
  <2> SUFFICES ASSUME CondInv PROVE ProvenanceTruthful
    OBVIOUS
  <2>1. CASE pc = "assign"
    <3>1. \A t \in Tags : cells[t] = Unset
      BY <2>1 DEF CondInv
    <3>2. Unset.source = None /\ Unset.described = FALSE
      BY DEF Unset
    <3>3. None # "extracted" /\ None # "fallback"
      BY NoneApart
    <3> QED
      BY <3>1, <3>2, <3>3 DEF ProvenanceTruthful
  <2>2. CASE pc # "assign"
    <3>1. \A t \in Tags : Sound(t, cells[t])
      BY <2>2 DEF CondInv, CellsOK, CellOK
    <3> QED
      BY <3>1 DEF Sound, ProvenanceTruthful
  <2> QED
    BY <2>1, <2>2
<1> QED
  BY <1>1, CondInvariance, PTL

=============================================================================
