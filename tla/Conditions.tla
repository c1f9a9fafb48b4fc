----------------------------- MODULE Conditions -----------------------------
(***************************************************************************)
(* The temperatures and pressures of one flowsheet, from the description   *)
(* to the solver: agents/stage3/param_mapper.py, ir/consistency.py,        *)
(* ir/constraint_solver.py, agents/rule_store.py (apply_to_graph), the     *)
(* direction checks of ir/validate.py, and the parameter repairs of        *)
(* agents/stage4, ir/coupling.py and ir/local_optimiser.py.                *)
(*                                                                         *)
(* Temperatures are integers in kelvin, pressures in kPa. Every tracked    *)
(* parameter carries its provenance (ir/graph.py: Source and the           *)
(* description sentinel), which decides who may overwrite it.              *)
(***************************************************************************)
EXTENDS Integers, SequencesExt, FiniteSetsExt, TLC

CONSTANTS
    Plants,      \* flowsheets, with what their descriptions say (see Init)
    RuleBooks,   \* sequences of active synthesized rules
    Bubble(_),   \* bubble point of the feed at a pressure (ir/thermo_estimation.py)
    MaxSteps,    \* bound: errors one beam search works through
    MaxRepairs,  \* bound: repairs after a failed solve
    None         \* Python's None

Atm == 100
Freezing == 273

(* What is known of a temperature or pressure is a positive number.        *)
Known == Nat \ {0}
Maybe == Known \cup {None}
Thermal == {"Heater", "Cooler"}
Raisers == {"Pump", "Compressor"}
Settable == Thermal \cup Raisers \cup {"Expander"}
UnitTypes == Settable \cup {"Reactor", "Mixer", "Splitter", "Vessel", "Decanter"}

(* A graph's nodes are keyed by tag, and its streams end at its units.     *)
UnitTagsOf(p) == {p.units[i].tag : i \in DOMAIN p.units}
ASSUME PlantsAssumption ==
    \A p \in Plants :
        /\ p.units \in Seq(ToSet(p.units)) /\ p.streams \in Seq(ToSet(p.streams))
        /\ \A i \in DOMAIN p.units : p.units[i].type \in UnitTypes
        /\ \A i, j \in DOMAIN p.units : p.units[i].tag = p.units[j].tag => i = j
        /\ \A i \in DOMAIN p.streams :
              /\ p.streams[i].T \in Maybe /\ p.streams[i].P \in Maybe
              /\ p.streams[i].src \in UnitTagsOf(p) \cup {None}
        /\ p.temps \in Seq(Known) /\ p.pressures \subseteq Known /\ IsFiniteSet(p.pressures)
        /\ \A t \in UnitTagsOf(p) : p.stated[t] \in Maybe /\ p.seeded[t] \in Maybe
(* A feed has its temperature and pressure: extraction retries until then. *)
IsFeed(s) == s.src = None /\ s.T # None
ASSUME FeedAssumption ==
    \A p \in Plants :
        /\ \E i \in DOMAIN p.streams : IsFeed(p.streams[i])
        /\ \A i \in DOMAIN p.streams : IsFeed(p.streams[i]) => p.streams[i].P # None
(* What a rule sets is the setpoint of its unit type.                      *)
ASSUME RulesAssumption ==
    \A rules \in RuleBooks :
        /\ rules \in Seq(ToSet(rules))
        /\ \A i \in DOMAIN rules : rules[i].type \in Settable /\ rules[i].value \in Known
ASSUME NoneAssumption ==
    None \notin Int /\ None \notin {"extracted", "fallback", "PASS", "MAX_ITER", "INVALID_IR"}
ASSUME BoundsAssumption == MaxSteps \in Nat \ {0} /\ MaxRepairs \in Nat

VARIABLES
    pc,       \* step of _thermo_node and of the repair loop to run next
    plant,    \* the flowsheet: units in walk order, streams, what is stated
    cells,    \* unit tag -> its setpoint: node.params
    conds,    \* stream tag -> the T and P the graph records
    fixed,    \* units the current beam search has fixed
    repairs,  \* repairs done
    outcome

vars == <<pc, plant, cells, conds, fixed, repairs, outcome>>

-----------------------------------------------------------------------------
(* The graph.                                                              *)

Units == ToSet(plant.units)
Tags == {u.tag : u \in Units}
TypeOf(tag) == (CHOOSE u \in Units : u.tag = tag).type
InletsOf(tag) == {i \in DOMAIN plant.streams : plant.streams[i].dst = tag}
OutletsOf(tag) == {s.tag : s \in {t \in ToSet(plant.streams) : t.src = tag}}
Links == {<<s.src, s.dst>> : s \in {t \in ToSet(plant.streams) : t.src # None /\ t.dst # None}}
Feeds(tag, type) == \E l \in Links : l[1] = tag /\ TypeOf(l[2]) = type

Or(v, default) == IF v # None THEN v ELSE default
(* The first inlet, as the graph lists them, with something to say.        *)
First(values, tag, nothing) ==
    LET known == {i \in InletsOf(tag) : values[i] # nothing}
    IN  IF known = {} THEN nothing ELSE values[Min(known)]
InletT(c, tag) == First([i \in DOMAIN plant.streams |-> c[plant.streams[i].tag].T], tag, None)
InletP(c, tag) == First([i \in DOMAIN plant.streams |-> c[plant.streams[i].tag].P], tag, None)

(* No component data, no bubble point.                                     *)
Bp(p) == IF plant.data THEN Bubble(Or(p, Atm)) ELSE None

FeedOf(p) == p.streams[Min({i \in DOMAIN p.streams : IsFeed(p.streams[i])})]
Feed == FeedOf(plant)

(* Units an unreliable temperature comes out of: pressure raisers, and     *)
(* what only passes their discharge on.                                    *)
Hot ==
    FoldLeft(LAMBDA S, u : S \cup {v.tag : v \in {w \in Units :
                 /\ w.type \notin Thermal \cup {"Reactor"}
                 /\ \E l \in Links : l[2] = w.tag /\ l[1] \in S}},
             {u.tag : u \in {v \in Units : v.type \in Raisers}}, plant.units)
Shadowed(tag) == \E l \in Links : l[2] = tag /\ l[1] \in Hot

-----------------------------------------------------------------------------
(* A setpoint and its provenance.                                          *)

Unset == [T |-> None, P |-> None, source |-> None, described |-> FALSE]
Cell(type, v, source, described) ==
    [T |-> IF type \in Thermal THEN v ELSE None,
     P |-> IF type \in Thermal THEN None ELSE v,
     source |-> source, described |-> described]
Value(cell) == Or(cell.T, cell.P)

(* correct_param overrides whatever is there, and says so.                 *)
CorrectInPlace(cell, v) ==
    IF cell.T # None THEN [cell EXCEPT !.T = v] ELSE [cell EXCEPT !.P = v]
Correct(cell, v) ==
    [CorrectInPlace(cell, v) EXCEPT !.source = "computed", !.described = FALSE]

(* set_param writes only over a lower authority.                           *)
Authority == [source \in {"fallback", "computed", "rule", "extracted"} |->
    CASE source = "fallback" -> 1 [] source = "computed" -> 2 [] source = "rule" -> 3
      [] source = "extracted" -> 5]
Set(cell, v) ==
    IF Authority[cell.source] < Authority["rule"]
      THEN [CorrectInPlace(cell, v) EXCEPT !.source = "rule"]
      ELSE cell

-----------------------------------------------------------------------------
(* Stage 3: a setpoint per unit, stated, guessed or estimated.             *)

Lowest(S) == IF S = {} THEN None ELSE Min(S)
Highest(S) == IF S = {} THEN None ELSE Max(S)
Temps == ToSet(plant.temps)

(* After a pressure raiser the inlet is unknown: the feed's own            *)
(* temperature is a target only when the text repeats it.                  *)
CoolTarget ==
    LET near == SelectSeq(plant.temps, LAMBDA t : t - Feed.T \in -1 .. 1)
        others == Temps \ ToSet(near)
    IN  IF others # {} THEN Min(others)
        ELSE IF Len(near) > 1 THEN Feed.T ELSE None

Pooled(type, inT) ==
    CASE type = "Heater"     -> Lowest({t \in Temps : t > Or(inT, Feed.T) + 1})
      [] type = "Cooler"     -> IF inT = None THEN CoolTarget
                                ELSE Highest({t \in Temps : t < inT - 1})
      [] type \in Raisers    -> Lowest({p \in plant.pressures : 20 * p > 21 * Feed.P})
      [] type = "Expander"   -> Highest({p \in plant.pressures : 20 * p < 19 * Feed.P})

LowPressure(p) == Max({p \div 3, Atm})
Estimate(unit) ==
    LET bp == Bp(Feed.P)
        margin == IF Feeds(unit.tag, "Vessel") THEN 25 ELSE 15
    IN  CASE unit.type = "Heater"   -> IF bp # None THEN bp + margin ELSE Feed.T + margin + 25
          [] unit.type = "Cooler"   -> IF Feeds(unit.tag, "Pump") /\ bp # None
                                         THEN Max({bp - 20, Freezing})
                                         ELSE Max({Feed.T - 30, Freezing})
          [] unit.type \in Raisers  -> 5 * Feed.P
          [] unit.type = "Expander" -> LowPressure(Feed.P)

(* A reactor takes the highest temperature of the text, else a value       *)
(* seeded from the reference, else its reaction's template.                *)
Template == 673
ReactorCell(unit) ==
    [T |-> Or(Highest(Temps), Or(plant.seeded[unit.tag], Template)),
     P |-> Or(Highest(plant.pressures), Feed.P),
     source |-> IF Temps = {} /\ plant.seeded[unit.tag] = None THEN "template" ELSE "extracted",
     described |-> FALSE]

AssignIfTextless(unit, inT) ==
    LET stated == plant.stated[unit.tag]
        guess == Pooled(unit.type, inT)
    IN  IF unit.type \in {"Mixer", "Splitter", "Vessel", "Decanter"} THEN Unset
        ELSE IF unit.type = "Reactor" THEN ReactorCell(unit)
        ELSE IF stated # None THEN Cell(unit.type, stated, "extracted", TRUE)
        ELSE IF guess # None THEN Cell(unit.type, guess, "fallback", FALSE)
        ELSE IF plant.temps # <<>> THEN Unset
        ELSE Cell(unit.type, Estimate(unit), "computed", FALSE)
AssignUnit(unit, inT) ==
    LET stated == plant.stated[unit.tag]
        guess == Pooled(unit.type, inT)
    IN  IF unit.type \in {"Mixer", "Splitter", "Vessel", "Decanter"} THEN Unset
        ELSE IF unit.type = "Reactor" THEN ReactorCell(unit)
        ELSE IF stated # None THEN Cell(unit.type, stated, "extracted", TRUE)
        ELSE IF guess # None THEN Cell(unit.type, guess, "fallback", FALSE)
        ELSE Cell(unit.type, Estimate(unit), "computed", FALSE)

(* The mapper's own propagation: a discharge temperature is unknown.       *)
AssignedSoFar(acc, unit) ==
    LET inT == First([i \in DOMAIN plant.streams |-> acc.T[plant.streams[i].tag]], unit.tag, None)
        cell == AssignUnit(unit, inT)
        outT == IF cell.T # None THEN cell.T
                ELSE IF unit.type \in {"Compressor", "Expander"} THEN None ELSE inT
    IN  [cells |-> [acc.cells EXCEPT ![unit.tag] = cell],
         T |-> [s \in DOMAIN acc.T |-> IF s \in OutletsOf(unit.tag) THEN outT ELSE acc.T[s]]]

Assign ==
    /\ pc = "assign"
    /\ cells' = FoldLeft(AssignedSoFar,
                    [cells |-> cells, T |-> [s \in DOMAIN conds |-> conds[s].T]],
                    plant.units).cells
    /\ pc' = "consistency"
    /\ UNCHANGED <<plant, conds, fixed, repairs, outcome>>

-----------------------------------------------------------------------------
(* GlobalConsistencyPass.                                                  *)

(* Known stream conditions seed the walk; a unit's outlet overrides them.  *)
Outlet(unit, cell, inT, inP) ==
    [T |-> IF unit.type \in Thermal \cup {"Reactor"} THEN cell.T ELSE inT,
     P |-> IF unit.type \in Raisers \cup {"Expander", "Reactor"} THEN cell.P ELSE inP]
PassedOn(cs, c, u) ==
    LET out == Outlet(u, cs[u.tag], InletT(c, u.tag), InletP(c, u.tag))
    IN  [s \in DOMAIN c |-> IF s \in OutletsOf(u.tag)
            THEN [T |-> Or(out.T, c[s].T), P |-> Or(out.P, c[s].P)]
            ELSE c[s]]
Propagate(cs, seeds) == FoldLeft(LAMBDA c, u : PassedOn(cs, c, u), seeds, plant.units)

Plausible(t, inT) == t - inT \in 5 .. 200

FixHeaterBlindly(cell, inT, inP) ==
    LET bp == Bp(inP)
        kept == IF cell.described THEN Plausible(cell.T, inT) ELSE cell.T > inT
    IN  IF inT = None \/ kept THEN cell ELSE Correct(cell, Or(bp, inT + 15) + 15)
FixHeater(cell, inT, inP) ==
    LET bp == Bp(inP)
        kept == IF cell.described THEN Plausible(cell.T, inT) ELSE cell.T > inT
    IN  IF inT = None \/ kept THEN cell
        ELSE Correct(cell, IF bp # None /\ bp > inT THEN bp + 15 ELSE inT + 30)
FixCooler(cell, inT) ==
    IF inT = None \/ cell.T < inT THEN cell ELSE Correct(cell, Max({inT - 25, Freezing}))
FixRaiser(cell, inP) ==
    IF inP = None \/ cell.P > inP THEN cell ELSE Correct(cell, 5 * inP)
FixExpander(cell, inP) ==
    IF inP = None \/ cell.P < inP THEN cell ELSE Correct(cell, LowPressure(inP))

(* Each unit is judged against a fresh propagation, so that it sees what   *)
(* was corrected before it.                                                *)
Corrected(seeds, done, u) ==
    LET now == Propagate(done, seeds)
        inT == InletT(now, u.tag)
        inP == InletP(now, u.tag)
    IN  [done EXCEPT ![u.tag] =
            CASE u.type = "Heater"   -> FixHeater(@, inT, inP)
              [] u.type = "Cooler"   -> IF Shadowed(u.tag) THEN @ ELSE FixCooler(@, inT)
              [] u.type \in Raisers  -> FixRaiser(@, inP)
              [] u.type = "Expander" -> FixExpander(@, inP)
              [] OTHER               -> @]
Monotonic(cs, seeds) == FoldLeft(LAMBDA done, u : Corrected(seeds, done, u), cs, plant.units)

(* ConstraintSolver.resolve, whose callers never give bounds that conflict.*)
Resolve(v, low, high) == Max({low, Min({high, v})})

(* What the next unit needs, judged by the propagation of before the       *)
(* monotonic fixes.                                                        *)
FlashFeed(cell, inT, bp) ==
    IF cell.described
      THEN IF inT # None /\ Plausible(cell.T, inT) THEN cell ELSE Correct(cell, bp + 15)
      ELSE IF cell.T < bp + 5 THEN Correct(cell, bp + 15) ELSE cell
LiquidFeed(cell, bp) ==
    LET wanted == Resolve(cell.T, 0, bp - 10)
    IN  IF wanted # cell.T THEN Correct(cell, Max({wanted, Freezing})) ELSE cell
Backward(cs, before) ==
    [t \in DOMAIN cs |->
        LET bp == Bp(InletP(before, t))
        IN  IF bp = None THEN cs[t]
            ELSE IF TypeOf(t) = "Heater" /\ Feeds(t, "Vessel")
              THEN FlashFeed(cs[t], InletT(before, t), bp)
            ELSE IF TypeOf(t) = "Cooler" /\ Feeds(t, "Pump") THEN LiquidFeed(cs[t], bp)
            ELSE cs[t]]

(* The final catch: the same requirement of a heater once more.            *)
FlashCheck(cell, inT, bp) ==
    IF \/ cell.T >= bp + 5
       \/ cell.described /\ inT # None /\ Plausible(cell.T, inT)
      THEN cell ELSE Correct(cell, bp + 15)
Coupling(cs, before) ==
    [t \in DOMAIN cs |->
        LET bp == Bp(InletP(before, t))
        IN  IF bp # None /\ TypeOf(t) = "Heater" /\ Feeds(t, "Vessel")
              THEN FlashCheck(cs[t], InletT(before, t), bp) ELSE cs[t]]

(* The feed's temperature as the graph records it now.                     *)
FeedT(c) ==
    LET fed == {i \in DOMAIN plant.streams :
                    plant.streams[i].src = None /\ c[plant.streams[i].tag].T # None}
    IN  IF fed = {} THEN None ELSE c[plant.streams[Min(fed)].tag].T

(* The graph's streams take what they lacked; a vessel whose inlets all    *)
(* stay without a temperature takes the feed's.                            *)
WriteBack(old, new) ==
    LET full == [s \in DOMAIN old |-> [T |-> Or(old[s].T, new[s].T), P |-> Or(old[s].P, new[s].P)]]
        dry == {t \in Tags : TypeOf(t) = "Vessel" /\ InletT(full, t) = None}
    IN  [s \in DOMAIN full |->
            IF \E t \in dry : s \in {plant.streams[i].tag : i \in InletsOf(t)}
              THEN [full[s] EXCEPT !.T = FeedT(full)] ELSE full[s]]

Apply(g) ==
    LET before == Propagate(g.cells, g.conds)
        after == Coupling(Backward(Monotonic(g.cells, g.conds), before), before)
    IN  [cells |-> after, conds |-> WriteBack(g.conds, Propagate(after, g.conds))]
Graph == [cells |-> cells, conds |-> conds]

Consistency ==
    /\ pc = "consistency"
    /\ cells' = Apply(Graph).cells
    /\ conds' = Apply(Graph).conds
    /\ pc' = "rules"
    /\ UNCHANGED <<plant, fixed, repairs, outcome>>

-----------------------------------------------------------------------------
(* The synthesized rules, and the second validation.                       *)

Differs(v, target, type) ==
    IF type \in Thermal THEN v - target \notin -5 .. 5
    ELSE 20 * (v - target) \notin -target .. target
Matches(rule, tag) ==
    TypeOf(tag) = rule.type /\ (rule.down = None \/ Feeds(tag, rule.down))
Rule(rule, tag, cell) ==
    IF Matches(rule, tag) /\ Differs(Value(cell), rule.value, rule.type)
      THEN Set(cell, rule.value) ELSE cell
RuleApplied(cs, rule) == [t \in DOMAIN cs |-> Rule(rule, t, cs[t])]

ApplyRules ==
    /\ pc = "rules"
    /\ \E rules \in RuleBooks :
         cells' = FoldLeft(RuleApplied, cells, rules)
    /\ pc' = "validate"
    /\ UNCHANGED <<plant, conds, fixed, repairs, outcome>>

(* A unit that works against its type, by the temperatures its inlet       *)
(* streams record.                                                         *)
WrongWay(cs, c, tag) ==
    LET inT == InletT(c, tag)
        inP == InletP(c, tag)
    IN  CASE TypeOf(tag) = "Heater"   -> inT # None /\ cs[tag].T <= inT
          [] TypeOf(tag) = "Cooler"   -> inT # None /\ cs[tag].T >= inT /\ ~Shadowed(tag)
          [] TypeOf(tag) \in Raisers  -> inP # None /\ cs[tag].P <= inP
          [] TypeOf(tag) = "Expander" -> inP # None /\ cs[tag].P >= inP
          [] OTHER                    -> FALSE
Faults(cs, c) == {t \in Tags : WrongWay(cs, c, t)}

Validate ==
    /\ pc = "validate"
    /\ IF Faults(cells, conds) = {}
         THEN pc' = "solve" /\ UNCHANGED outcome
         ELSE pc' = "done" /\ outcome' = "INVALID_IR"
    /\ UNCHANGED <<plant, cells, conds, fixed, repairs>>

Solve ==
    /\ pc = "solve"
    /\ \/ pc' = "done" /\ outcome' = "PASS" /\ UNCHANGED <<fixed, repairs>>
       \/ /\ repairs < MaxRepairs
          /\ pc' = "repair" /\ repairs' = repairs + 1 /\ fixed' = {} /\ UNCHANGED outcome
       \/ pc' = "done" /\ outcome' = "MAX_ITER" /\ UNCHANGED <<fixed, repairs>>
    /\ UNCHANGED <<plant, cells, conds>>

-----------------------------------------------------------------------------
(* Repairs: the deterministic candidates for one parameter.                *)

(* The inlet of a unit as the repair sees it: the first stream with a      *)
(* temperature, else what the nearest unit upstream sets, a reactor apart. *)
Nothing == [T |-> None, P |-> None]
Upstream(seen, s) ==
    IF conds[s.tag].T # None THEN conds[s.tag]
    ELSE IF s.src = None THEN Nothing
    ELSE IF TypeOf(s.src) # "Reactor" /\ Value(cells[s.src]) # None
      THEN [T |-> cells[s.src].T, P |-> Or(cells[s.src].P, conds[s.tag].P)]
    ELSE seen[s.src]
OneFurther(seen, u) ==
    [t \in Tags |-> First([i \in DOMAIN plant.streams |-> Upstream(seen, plant.streams[i])],
                          t, Nothing)]
Seen(tag) == FoldLeft(OneFurther, [t \in Tags |-> Nothing], plant.units)[tag]

(* What the violated phase requirement asks for.                           *)
PhysicsCandidates(tag, bp) ==
    IF bp = None THEN {}
    ELSE IF TypeOf(tag) = "Heater" /\ Feeds(tag, "Vessel") THEN {bp + d : d \in {15, 20, 30}}
    ELSE IF TypeOf(tag) = "Cooler" /\ Feeds(tag, "Pump") THEN {Max({bp - 15, Freezing})}
    ELSE {}

(* Together with the tiers by feed condition. Simulation hints, the        *)
(* oscillation escape, the wider tiers of an uncertain estimate and the    *)
(* model's own proposal add more of the kind.                              *)
HeaterTiers(tag, ft, bp) ==
    {ft + d : d \in {25, 50, 75, 100}} \cup PhysicsCandidates(tag, bp)
        \cup (IF bp = None THEN {} ELSE {bp + d : d \in {10, 20, 35}})
CoolerTiers(tag, ft, bp) ==
    {Max({ft - d, 233}) : d \in {20, 40, 60, 80, 100, 120, 150}} \cup {233, 253, 273}
        \cup PhysicsCandidates(tag, bp)
Candidates(tag) ==
    LET seen == Seen(tag)
        bp == Bp(seen.P)
        ft == Or(seen.T, 298)
        fp == Or(seen.P, Atm)
    IN  CASE TypeOf(tag) = "Heater" ->
               {v \in HeaterTiers(tag, ft, bp) : seen.T = None \/ v > seen.T}
          [] TypeOf(tag) = "Cooler" ->
               {v \in CoolerTiers(tag, ft, bp) : seen.T = None \/ v < seen.T}
          [] TypeOf(tag) \in Raisers ->
               {fp * d : d \in {2, 3, 5, 7, 10, 15, 20}} \cup {500, 1000, 2000, 5000, 10000}
          [] TypeOf(tag) = "Expander" -> {Max({fp \div d, Atm}) : d \in {2, 3, 5}}
          [] OTHER -> {}

(* A temperature below 100 is taken for degrees Celsius. (A pressure below *)
(* 500 Pa is taken for bar; it is below the unit of this model.)           *)
InKelvin(t) == IF t # None /\ t < 100 THEN t + Freezing ELSE t

(* UNIT_CONVERSION, before the condition fixes of the same repair, at what *)
(* the language model's classification of the failure names. A unit's      *)
(* setpoint goes through correct_param; a stream has no record to keep.    *)
ConvertUnit ==
    /\ pc = "repair" /\ fixed = {}
    /\ \E t \in Tags :
         /\ TypeOf(t) \in Thermal
         /\ cells' = [cells EXCEPT ![t] = IF @.T < 100 THEN Correct(@, InKelvin(@.T)) ELSE @]
    /\ pc' \in {"repair", "solve"}
    /\ UNCHANGED <<plant, conds, fixed, repairs, outcome>>

ConvertStream ==
    /\ pc = "repair" /\ fixed = {}
    /\ \E s \in DOMAIN conds : conds' = [conds EXCEPT ![s].T = InKelvin(@)]
    /\ pc' \in {"repair", "solve"}
    /\ UNCHANGED <<plant, cells, fixed, repairs, outcome>>

(* A single error: the value is written and nothing else is looked at.     *)
RepairOne ==
    /\ pc = "repair" /\ fixed = {}
    /\ \E t \in Tags : \E v \in Candidates(t) :
         cells' = [cells EXCEPT ![t] = Correct(@, v)]
    /\ pc' = "solve"
    /\ UNCHANGED <<plant, conds, fixed, repairs, outcome>>

(* CoupledSettler: a new pressure moves the bubble point the neighbours    *)
(* were set by. (Its rule for a heater upstream that feeds a vessel as     *)
(* well never applies: a heater has one outlet once normalised.)           *)
Settle(cs, tag) ==
    LET bp == Bp(cs[tag].P)
        cool == Max({bp - 15, Freezing})
        Settled(t) ==
            IF TypeOf(t) = "Cooler" /\ <<t, tag>> \in Links /\ cs[t].T > cool + 5
              THEN Correct(cs[t], cool)
            ELSE IF TypeOf(tag) \notin {"Compressor", "Expander"} \/ <<tag, t>> \notin Links
              THEN cs[t]
            ELSE IF TypeOf(t) = "Cooler" /\ Differs(cs[t].T, cool, "Cooler")
              THEN Correct(cs[t], cool)
            ELSE IF /\ TypeOf(t) = "Heater" /\ Feeds(t, "Vessel")
                    /\ Differs(cs[t].T, bp + 20, "Heater")
              THEN Correct(cs[t], bp + 20)
            ELSE cs[t]
    IN  IF TypeOf(tag) \in Thermal \/ bp = None THEN cs ELSE [t \in DOMAIN cs |-> Settled(t)]

(* One step of the beam search: a candidate, the pass over the whole       *)
(* graph, then the neighbours.                                             *)
BeamStep ==
    /\ pc = "repair" /\ Cardinality(fixed) < MaxSteps
    /\ \E t \in Tags \ fixed : \E v \in Candidates(t) :
         LET g == Apply([Graph EXCEPT !.cells[t] = Correct(@, v)])
         IN  cells' = Settle(g.cells, t) /\ conds' = g.conds /\ fixed' = fixed \cup {t}
    /\ UNCHANGED <<pc, plant, repairs, outcome>>

(* Coordinate descent: a move within the unit's bounds that leaves fewer   *)
(* units working the wrong way.                                            *)
Lower(tag) ==
    LET bp == Bp(InletP(conds, tag))
    IN  Max({150} \cup (IF TypeOf(tag) # "Heater" THEN {} ELSE
            (IF InletT(conds, tag) = None THEN {} ELSE {InletT(conds, tag) + 1})
            \cup (IF bp # None /\ Feeds(tag, "Vessel") THEN {bp + 5} ELSE {})))
Upper(tag) == IF TypeOf(tag) = "Cooler" THEN Or(InletT(conds, tag), 2001) - 1 ELSE 2000
Clamp(tag, v) == Resolve(v, Lower(tag), Upper(tag))
TryTemperature(tag, value) ==
    LET Steps == {d * m : d \in {5, 10, 20, 40}, m \in {1, 2, 4}}
        moved == {value + d : d \in Steps} \cup {value - d : d \in Steps}
    IN  {Clamp(tag, v) : v \in {w \in moved : w \in 51..1999 /\ Clamp(tag, w) - w \in -2 .. 2}}
TryPressure(value) ==
    {v \in {(value * (100 + d * m)) \div 100 : d \in {10, 25, 50, -10, -25, -50}, m \in {1, 2, 4}}
       : v > 0}
Moves(tag) ==
    CASE TypeOf(tag) \in Thermal                 -> TryTemperature(tag, Value(cells[tag]))
      [] TypeOf(tag) \in Raisers \cup {"Expander"} -> TryPressure(Value(cells[tag]))
      [] OTHER                                   -> {}
Improved(tag, v) ==
    Cardinality(Faults([cells EXCEPT ![tag] = Correct(@, v)], conds))
        < Cardinality(Faults(cells, conds))

Descend ==
    /\ pc \in {"repair", "optimise"} /\ fixed # {}
    /\ \E t \in Tags : \E v \in Moves(t) :
         Improved(t, v) /\ cells' = [cells EXCEPT ![t] = Correct(@, v)]
    /\ pc' = "optimise"
    /\ UNCHANGED <<plant, conds, fixed, repairs, outcome>>

EndRepair ==
    /\ pc \in {"repair", "optimise"} /\ fixed # {}
    /\ \A t \in Tags : \A v \in Moves(t) : ~Improved(t, v)
    /\ pc' = "solve"
    /\ UNCHANGED <<plant, cells, conds, fixed, repairs, outcome>>

Init ==
    /\ pc = "assign"
    /\ plant \in Plants
    /\ cells = [t \in Tags |-> Unset]
    /\ conds = [s \in {i.tag : i \in ToSet(plant.streams)} |->
                  LET i == CHOOSE j \in ToSet(plant.streams) : j.tag = s
                  IN  [T |-> i.T, P |-> i.P]]
    /\ fixed = {} /\ repairs = 0 /\ outcome = None

Next ==
    \/ Assign \/ Consistency \/ ApplyRules \/ Validate \/ Solve
    \/ ConvertUnit \/ ConvertStream \/ RepairOne \/ BeamStep \/ Descend \/ EndRepair

Spec == Init /\ [][Next]_vars

-----------------------------------------------------------------------------
(* Properties.                                                             *)

(* Once Stage 3 has run, every unit that needs a setpoint has one, with a  *)
(* known origin, and no temperature is negative: the fallback to the       *)
(* language model and the pass's own gap filling are never reached.        *)
Filled(t) ==
    TypeOf(t) \in Settable \cup {"Reactor"} =>
        /\ Value(cells[t]) \in Known
        /\ cells[t].source \in DOMAIN Authority \cup {"template"}
TypeOK ==
    /\ pc \in {"assign", "consistency", "rules", "validate", "solve", "repair", "optimise", "done"}
    /\ plant \in Plants
    /\ pc # "assign" => \A t \in Tags : Filled(t)
    /\ fixed \subseteq Tags /\ repairs \in 0 .. MaxRepairs
    /\ outcome \in {None, "PASS", "MAX_ITER", "INVALID_IR"} /\ (pc = "done") = (outcome # None)

(* A value that says it was read from the description is the value the     *)
(* description states, whatever the pass, the rules and the repairs did    *)
(* to it or to its neighbours: "the record stays truthful" (ir/graph.py).  *)
ProvenanceTruthful ==
    \A t \in Tags :
        /\ cells[t].described => cells[t].source = "extracted"
        /\ cells[t].source = "extracted" =>
              IF TypeOf(t) = "Reactor" THEN cells[t].T \in Temps \cup {plant.seeded[t]}
              ELSE cells[t].described /\ Value(cells[t]) = plant.stated[t]
        /\ cells[t].source = "fallback" => Value(cells[t]) \in Temps \cup plant.pressures \cup {Feed.T}

(* From any state the pipeline reaches, running the pass again and again   *)
(* comes to rest, and at rest no unit works against its type, except       *)
(* where a floor (273 K, 1 atm) is in the way: what the pass writes back   *)
(* and reads as given the next time never sends it round in circles.       *)
Ends == FoldLeft(LAMBDA g, u : Apply(g), Apply(Graph), plant.units)
AtFloor(cell) == cell.T = Freezing \/ cell.P = Atm
Directed(g) ==
    \A t \in Faults(g.cells, Propagate(g.cells, g.conds)) : AtFloor(g.cells[t])
PassSettles ==
    pc # "assign" => Apply(Ends) = Ends /\ Directed(Ends)

(* A stated heater temperature that is plausible for the inlet the heater  *)
(* has once the pass is done survived it. agents/test_provenance_end_to_end*)
(* says "a specified, physically-plausible value survives BOTH mutators    *)
(* untouched"; the second of them, the rules, leaves an extracted value    *)
(* alone (Set), so that the pass is what can break it.                     *)
DescribedKept ==
    \A t \in Tags :
        pc = "rules" /\ TypeOf(t) = "Heater" /\ plant.stated[t] # None =>
            LET inT == InletT(Propagate(cells, conds), t)
            IN  inT # None /\ Plausible(plant.stated[t], inT) => cells[t].source = "extracted"

(* What is handed to the solver has no unit that works against its type.   *)
(* agents/graph_pipeline.py says beside its routing that "an invalid graph *)
(* must never be solved"; after a repair the graph is validated again, and *)
(* the errors become warnings.                                             *)
InvalidNeverSolved == pc = "solve" => Faults(cells, conds) = {}

(* A setpoint seeded from the reference answer survives parameter          *)
(* mapping: agents/graph_pipeline.py says that "ParamMapper preserves      *)
(* existing node.params", "so the reference setpoints survive".            *)
SeededSurvive ==
    pc = "consistency" =>
        \A t \in Tags : plant.seeded[t] # None => Value(cells[t]) = plant.seeded[t]
=============================================================================
