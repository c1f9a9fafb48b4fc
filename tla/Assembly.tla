------------------------------ MODULE Assembly ------------------------------
(***************************************************************************)
(* From the language model's stream list to the connections DWSIM gets:    *)
(* agents/stage1/stream_extractor.py, the recycle guards of both drivers,  *)
(* agents/stage2/graph_builder.py, ir/normalise.py, ir/validate.py, the    *)
(* deterministic topology repair of agents/graph_pipeline.py,              *)
(* ir/repair.py and ir/to_dwsim.py.                                        *)
(*                                                                         *)
(* A stream tag matters for the phase words it contains and nothing else;  *)
(* temperatures, compositions and unit parameters are left out (see        *)
(* Conditions), except that a feed stream may be unsound.                  *)
(***************************************************************************)
EXTENDS Naturals, FiniteSets, SequencesExt, TLC

CONSTANTS
    Sheets,      \* processes: unit list, stream lists the model may reply, ...
    Drivers,     \* subset of {"v2", "graph"}
    MaxTries,    \* StreamExtractor.extract's max_retries (3 in the code)
    MaxRepairs,  \* bound: repairs after a solve
    None         \* Python's None

ASSUME TriesAssumption == MaxTries \in Nat \ {0} /\ MaxRepairs \in Nat
ASSUME DriversAssumption == Drivers \subseteq {"v2", "graph"}

Phases == {"mixed", "vapour", "liquid"}

(* A stream as the extractor parses it (port and phase are defaults) and   *)
(* as every later stage knows it.                                          *)
IsStream(s) ==
    /\ s = [tag |-> s.tag, src |-> s.src, dst |-> s.dst, port |-> s.port, phase |-> s.phase,
            recycle |-> s.recycle, target |-> s.target, words |-> s.words, sound |-> s.sound]
    /\ s.port \in Nat /\ s.phase \in Phases /\ s.recycle \in BOOLEAN

(* A reply is no reply or a list of streams; what is near a tag is a tag.  *)
ASSUME SheetsAssumption ==
    \A x \in Sheets :
        LET tags == {u.tag : u \in ToSet(x.units)}
        IN  /\ x.units \in Seq(ToSet(x.units)) /\ None \notin tags
            /\ \A near \in DOMAIN x.near : x.near[near] \in tags
            /\ \A reply \in x.replies \ {None} :
                  reply \in Seq(ToSet(reply)) /\ \A i \in DOMAIN reply : IsStream(reply[i])

VARIABLES
    pc,         \* stage to run next; "done", or "crash" when run() raises
    driver,     \* which of the two drivers runs
    sheet,      \* the process being built
    tries,      \* extraction attempts used
    streams,    \* sem_topo.streams
    origin,     \* recycle targets as extracted, by tag (recycle_origin)
    graph,      \* the FlowsheetGraph
    valid,      \* what the last validate(graph) said
    outcome,    \* outcome of the run, "MAX_ITER" while it lasts
    flowsheet,  \* dwsim_json
    repairs     \* repairs done after a solve

given == <<driver, sheet>>
stage1 == <<tries, streams, origin>>
vars == <<pc, given, stage1, graph, valid, outcome, flowsheet, repairs>>

-----------------------------------------------------------------------------
(* Unit types and their ports.                                             *)

MaxInlets(type) == IF type = "Mixer" THEN 16 ELSE 1

OutletPhases(type) ==
    CASE type = "Vessel"   -> [p \in {0, 1} |-> IF p = 0 THEN "vapour" ELSE "liquid"]
      [] type = "Decanter" -> [p \in {0, 1, 2} |-> IF p = 0 THEN "vapour" ELSE "liquid"]
      [] type \in {"Column", "Splitter"}     -> [p \in {0, 1} |-> "any"]
      [] type \in {"Compressor", "Expander"} -> [p \in {0} |-> "vapour"]
      [] type = "Pump" -> [p \in {0} |-> "liquid"]
      [] OTHER         -> [p \in {0} |-> "any"]

MaxOutlets(type) == Cardinality(DOMAIN OutletPhases(type))
RequiredOutlets(type) ==
    IF type \in {"Vessel", "Decanter", "Column", "Splitter"} THEN 2 ELSE 1

(* The word classes a tag is searched for.                                 *)
VapourWords == {"gas", "top"}
LiquidWords == {"liq", "bot"}
Named(s, words) == s.words \cap words # {}

(* The elements of a sequence that are in a set, in their order.           *)
Within(seq, S) ==
    FoldLeft(LAMBDA kept, x : IF x \in S THEN Append(kept, x) ELSE kept, <<>>, seq)

UnitTags(g) == {u.tag : u \in ToSet(g.units)}
StreamTags(g) == {s.tag : s \in ToSet(g.streams)}
Outlets(g, tag) == Within(g.streams, {s \in ToSet(g.streams) : s.src = tag})
Products(g, tag) == Within(g.streams, {s \in ToSet(g.streams) : s.src = tag /\ ~s.recycle})
Inlets(g, tag) == {s \in ToSet(g.streams) : s.dst = tag}
Recycles(g) == {s \in ToSet(g.streams) : s.recycle}

Stream(tag, src, dst, port, phase, words) ==
    [tag |-> tag, src |-> src, dst |-> dst, port |-> port, phase |-> phase,
     recycle |-> FALSE, target |-> None, words |-> words, sound |-> TRUE]

(* Streams by tag, with a new port and phase where `ports` has their tag.  *)
Relabel(g, ports) ==
    [g EXCEPT !.streams = [i \in DOMAIN g.streams |->
        LET s == g.streams[i]
        IN  IF s.tag \in DOMAIN ports
              THEN [s EXCEPT !.port = ports[s.tag][1], !.phase = ports[s.tag][2]]
              ELSE s]]

-----------------------------------------------------------------------------
(* Stage 1: a reply is parsed, repaired and accepted or retried.           *)

(* A repeated tag gets a number at every occurrence.                       *)
DedupeTags(reply) ==
    LET Same(i) == {j \in DOMAIN reply : reply[j].tag = reply[i].tag}
    IN  [i \in DOMAIN reply |->
            IF Cardinality(Same(i)) = 1 THEN reply[i]
            ELSE [reply[i] EXCEPT !.tag =
                    @ \o "-" \o ToString(Cardinality({j \in Same(i) : j <= i}))]]

SheetTags == {u.tag : u \in ToSet(sheet.units)}

(* A near miss is snapped to a unit, a phantom becomes a boundary.         *)
Snap(ref) ==
    IF ref = None \/ ref \in SheetTags THEN ref
    ELSE IF ref \in DOMAIN sheet.near THEN sheet.near[ref] ELSE None

Attached(list) == Within(list, {s \in ToSet(list) : s.src # None \/ s.dst # None})
ReconcileSources(reply) ==
    Attached([i \in DOMAIN reply |-> [reply[i] EXCEPT !.src = Snap(@)]])

ReconcileRefs(reply) ==
    Attached([i \in DOMAIN reply |-> [reply[i] EXCEPT !.src = Snap(@), !.dst = Snap(@)]])

(* SemanticTopology.validate: the recycle target must already be a unit.   *)
Acceptable(list) ==
    /\ \A i \in DOMAIN list :
          /\ list[i].sound
          /\ list[i].recycle => list[i].target \in SheetTags
    /\ \A i, j \in DOMAIN list : list[i].tag = list[j].tag => i = j

Extract ==
    /\ pc = "extract"
    /\ \E reply \in sheet.replies :
         LET list == ReconcileRefs(DedupeTags(reply))
         IN  IF reply # None /\ Acceptable(list)
               THEN /\ streams' = list
                    /\ origin' = [t \in {list[i].tag : i \in {j \in DOMAIN list : list[j].recycle}}
                                    |-> (CHOOSE s \in ToSet(list) : s.tag = t).target]
                    /\ pc' = "guards"
                    /\ UNCHANGED <<tries, outcome>>
               ELSE /\ tries' = tries + 1
                    /\ IF tries' = MaxTries
                         THEN pc' = "done" /\ outcome' = "PLAN_FAILED"
                         ELSE UNCHANGED <<pc, outcome>>
                    /\ UNCHANGED <<streams, origin>>
    /\ UNCHANGED <<given, graph, valid, flowsheet, repairs>>

-----------------------------------------------------------------------------
(* The three recycle guards, the same text in both drivers.                *)

Clear(s) == [s EXCEPT !.recycle = FALSE, !.target = None]

(* Guard 1: exact, resolved from natural language, or cleared.             *)
ResolveTarget(s) ==
    IF ~s.recycle \/ s.target \in SheetTags THEN s
    ELSE IF s.target \in DOMAIN sheet.meant THEN [s EXCEPT !.target = sheet.meant[@]]
    ELSE Clear(s)

Position(tag) == SelectInSeq(sheet.units, LAMBDA u : u.tag = tag)

RanksBelowFurthest(s, t) == Position(t.target) < Position(s.target)

(* Guard 2: of several recycles from one unit the most upstream target     *)
(* stays, the first of them on a tie.                                      *)
RanksBelow(s, t) ==
    LET Downstream(x) == Position(x.target) >= Position(x.src)
    IN  IF Downstream(s) # Downstream(t) THEN ~Downstream(s)
        ELSE Position(s.target) < Position(t.target)

Redundant(list, i) ==
    /\ list[i].recycle /\ list[i].src # None
    /\ \E j \in DOMAIN list :
          /\ list[j].recycle /\ list[j].src = list[i].src /\ j # i
          /\ RanksBelow(list[j], list[i]) \/ (j < i /\ ~RanksBelow(list[i], list[j]))

DedupeRecycles(list) ==
    [i \in DOMAIN list |-> IF Redundant(list, i) THEN Clear(list[i]) ELSE list[i]]

(* Guard 3: no recycle without a trigger phrase in the description.        *)
PhraseGuard(list) ==
    [i \in DOMAIN list |-> IF sheet.trigger THEN list[i] ELSE Clear(list[i])]

Guards ==
    /\ pc = "guards"
    /\ streams' = PhraseGuard(DedupeRecycles([i \in DOMAIN streams |-> ResolveTarget(streams[i])]))
    /\ pc' = "build"
    /\ UNCHANGED <<given, tries, origin, graph, valid, outcome, flowsheet, repairs>>

-----------------------------------------------------------------------------
(* normalise: each transform visits the units of the graph it gets.        *)

OverUnits(g, Step(_, _)) == FoldLeft(Step, g, g.units)

(* More than one inlet, counting recycles that only name the unit, goes    *)
(* through a mixer.                                                        *)
InsertMixer(g, u) ==
    LET mixer == "MIX-" \o u.tag
        inlets == Inlets(g, u.tag) \cup {s \in Recycles(g) : s.target = u.tag /\ s.dst = None}
    IN  IF u.type = "Mixer" \/ Cardinality(inlets) <= 1 \/ mixer \in UnitTags(g) THEN g
        ELSE [units |-> Append(g.units, [tag |-> mixer, type |-> "Mixer"]),
              streams |-> Append(
                  [i \in DOMAIN g.streams |->
                      IF g.streams[i] \in inlets THEN [g.streams[i] EXCEPT !.dst = mixer]
                      ELSE g.streams[i]],
                  Stream("S-" \o mixer \o "-OUT", mixer, u.tag, 0, "mixed", {}))]

(* More products than outlet ports are split; recycles stay where they are.*)
InsertSplitter(g, u) ==
    LET splitter == "SPL-" \o u.tag
        products == Products(g, u.tag)
        Moved(s) == [s EXCEPT !.src = splitter,
                              !.port = SelectInSeq(products, LAMBDA p : p = s) - 1]
    IN  IF u.type = "Splitter" \/ Len(products) <= MaxOutlets(u.type) \/ splitter \in UnitTags(g)
          THEN g
        ELSE [units |-> Append(g.units, [tag |-> splitter, type |-> "Splitter"]),
              streams |-> Append(
                  [i \in DOMAIN g.streams |->
                      IF Contains(products, g.streams[i]) THEN Moved(g.streams[i])
                      ELSE g.streams[i]],
                  Stream("S-" \o u.tag \o "-SPL", u.tag, splitter, 0, "mixed", {}))]

PlainTag(g, base) == base

UniqueTag(g, base) ==
    IF base \notin StreamTags(g) THEN base
    ELSE CHOOSE t \in {base \o "-" \o ToString(n) : n \in 2..(Len(g.streams) + 2)} :
             t \notin StreamTags(g)

Product(g, u, suffix, port, phase, words) ==
    [g EXCEPT !.streams =
        Append(@, Stream(UniqueTag(g, u.tag \o suffix), u.tag, None, port, phase, words))]

(* The lowest port but 0 that is not in use.                               *)
FreePort(used) == Min((1..(Cardinality(used) + 1)) \ used)

(* A column with one product gets the other, a decanter with less than     *)
(* two liquids the missing ones, on free ports.                            *)
CompleteOutlets(g, u) ==
    LET outs == Outlets(g, u.tag)
        used == {s.port : s \in ToSet(outs)}
        liquids == {i \in DOMAIN outs : ~Named(outs[i], {"gas"})}
        free == FreePort(used)
    IN  CASE u.type = "Column" /\ Len(outs) = 1 ->
               LET label == IF Named(outs[1], {"bot"}) THEN <<"-DIST", {"top"}>>
                            ELSE <<"-BOT", {"bot"}>>
               IN  Product(g, u, label[1], IF outs[1].port = 0 THEN 1 ELSE 0, "mixed", label[2])
          [] u.type = "Decanter" /\ Len(outs) > 0 /\ Cardinality(liquids) = 1 ->
               Product(g, u, "-L2", free, "liquid", {})
          [] u.type = "Decanter" /\ Len(outs) > 0 /\ liquids = {} ->
               Product(Product(g, u, "-L1", free, "liquid", {}),
                       u, "-L2", FreePort(used \cup {free}), "liquid", {})
          [] OTHER -> g

(* The new port and phase of two outlets that trade places.                *)
Swapped(s0, s1) ==
    [t \in {s0.tag, s1.tag} |-> IF t = s0.tag THEN <<1, "liquid">> ELSE <<0, "vapour">>]
Misnamed(s0, s1) == Named(s0, LiquidWords) \/ Named(s1, VapourWords)

RepairVesselAnyName(g, u) ==
    LET outs == ToSet(Outlets(g, u.tag))
        At(p) == CHOOSE s \in outs : s.port = p
    IN  IF /\ u.type = "Vessel" /\ Cardinality(outs) = 2
           /\ {s.port : s \in outs} = {0, 1}
           /\ \E s \in outs : Named(s, LiquidWords)
          THEN Relabel(g, Swapped(At(0), At(1)))
          ELSE g

(* A vessel's outlets change ports when a name contradicts its port - also *)
(* when both names ask for the same one.                                   *)
RepairVessel(g, u) ==
    LET outs == ToSet(Outlets(g, u.tag))
        At(p) == CHOOSE s \in outs : s.port = p
    IN  IF /\ u.type = "Vessel" /\ Cardinality(outs) = 2
           /\ {s.port : s \in outs} = {0, 1}
           /\ Misnamed(At(0), At(1))
          THEN Relabel(g, Swapped(At(0), At(1)))
          ELSE g

(* Distillate to port 0, bottoms to port 1, by the first name that tells   *)
(* the two apart.                                                          *)
RepairColumn(g, u) ==
    LET outs == Outlets(g, u.tag)
        Tells(words) == Named(outs[1], words) # Named(outs[2], words)
        bottoms == CASE Tells({"bot"}) -> IF Named(outs[1], {"bot"}) THEN 1 ELSE 2
                     [] ~Tells({"bot"}) /\ Tells({"top"}) -> IF Named(outs[1], {"top"}) THEN 2 ELSE 1
                     [] OTHER -> 0
    IN  IF u.type # "Column" \/ Len(outs) # 2 \/ bottoms = 0 THEN g
        ELSE Relabel(g, [t \in {outs[1].tag, outs[2].tag} |->
                            IF t = outs[bottoms].tag THEN <<1, "liquid">>
                            ELSE <<0, outs[3 - bottoms].phase>>])

(* The vapour outlet to port 0, the first two others to ports 1 and 2.     *)
RepairDecanter(g, u) ==
    LET outs == Outlets(g, u.tag)
        IsVapour(s) == Named(s, {"gas"}) /\ ~Named(s, LiquidWords)
        vapours == {s \in ToSet(outs) : IsVapour(s)}
        liquids == Within(outs, ToSet(outs) \ vapours)
        first == {liquids[i].tag : i \in DOMAIN liquids \cap {1, 2}}
        last == IF vapours = {} THEN {}
                ELSE {outs[Max({i \in DOMAIN outs : outs[i] \in vapours})].tag}
    IN  IF u.type # "Decanter" THEN g
        ELSE Relabel(g, [t \in first \cup last |->
                 IF t \in first THEN <<SelectInSeq(liquids, LAMBDA s : s.tag = t), "liquid">>
                 ELSE <<0, "vapour">>])

TypeOf(g, tag) == (CHOOSE u \in ToSet(g.units) : u.tag = tag).type

OutletPhase(g, s) ==
    LET phases == OutletPhases(TypeOf(g, s.src))
    IN  IF s.port \in DOMAIN phases THEN phases[s.port] ELSE "any"

Phased(g, s) ==
    IF s.src \in UnitTags(g) /\ s.phase = "mixed" /\ OutletPhase(g, s) # "any"
      THEN [s EXCEPT !.phase = OutletPhase(g, s)] ELSE s
PropagatePhases(g) ==
    [g EXCEPT !.streams = [i \in DOMAIN g.streams |-> Phased(g, g.streams[i])]]

Normalise(g) ==
    LET mixed == OverUnits(g, InsertMixer)
        split == OverUnits(mixed, InsertSplitter)
        whole == OverUnits(split, CompleteOutlets)
        vessels == OverUnits(whole, RepairVessel)
        columns == OverUnits(vessels, RepairColumn)
    IN  PropagatePhases(OverUnits(columns, RepairDecanter))

-----------------------------------------------------------------------------
(* validate: the structural part, as far as this graph can fail it.        *)

(* A set of streams whose sources are its destinations holds a cycle.      *)
Closed(edges) == edges # {} /\ {s.src : s \in edges} = {s.dst : s \in edges}
Between(g) == {s \in ToSet(g.streams) : s.src # None /\ s.dst # None}

HasParts(g) == g.units # <<>> /\ g.streams # <<>>
Acyclic(g) == \A edges \in SUBSET {s \in Between(g) : ~s.recycle} : ~Closed(edges)
Connected(g) == \A s \in ToSet(g.streams) : s.src # None \/ s.dst # None
RecyclesTargeted(g) == \A s \in Recycles(g) : s.target \in UnitTags(g)
InletsFit(g) ==
    \A u \in ToSet(g.units) : Cardinality(Inlets(g, u.tag)) \in 1..MaxInlets(u.type)
VesselsPaired(g) ==
    \A u \in ToSet(g.units) : u.type = "Vessel" => Len(Outlets(g, u.tag)) = 2
OutletsEnough(g) ==
    \A u \in ToSet(g.units) : Len(Outlets(g, u.tag)) >= RequiredOutlets(u.type)
PortsDistinct(g) ==
    \A s, t \in ToSet(g.streams) : s.src # None /\ s.src = t.src /\ s.port = t.port => s = t

PhasesFit(g) ==
    /\ \A s \in {x \in ToSet(g.streams) : x.dst # None} :
          /\ TypeOf(g, s.dst) = "Pump" => s.phase # "vapour"
          /\ TypeOf(g, s.dst) \in {"Compressor", "Expander"} => s.phase # "liquid"
    /\ \A s \in {x \in ToSet(g.streams) : x.src # None /\ TypeOf(g, x.src) = "Vessel"} :
          <<s.port, s.phase>> \notin {<<0, "liquid">>, <<1, "vapour">>}

Valid(g) ==
    /\ HasParts(g) /\ Acyclic(g) /\ Connected(g) /\ RecyclesTargeted(g)
    /\ InletsFit(g) /\ VesselsPaired(g) /\ OutletsEnough(g)
    /\ PortsDistinct(g) /\ PhasesFit(g)

-----------------------------------------------------------------------------
(* Stage 2.                                                                *)

(* Only a unit with several outlet ports numbers its outlets, by order.    *)
Built(list) ==
    [units |-> sheet.units,
     streams |-> [i \in DOMAIN list |->
        LET s == list[i]
            earlier == {j \in 1..(i - 1) : list[j].src = s.src}
        IN  [s EXCEPT !.port =
                IF s.src # None /\ MaxOutlets((CHOOSE u \in ToSet(sheet.units) : u.tag = s.src).type) > 1
                  THEN Cardinality(earlier) ELSE 0]]]

(* A recycle whose source was a phantom fails the builder's last check,    *)
(* with a ValueError neither driver catches.                               *)
Build ==
    /\ pc = "build"
    /\ IF \E i \in DOMAIN streams : streams[i].recycle /\ streams[i].src = None
         THEN pc' = "crash" /\ UNCHANGED graph
         ELSE pc' = "validate" /\ graph' = Normalise(Built(streams))
    /\ UNCHANGED <<given, stage1, valid, outcome, flowsheet, repairs>>

Validate ==
    /\ pc = "validate"
    /\ valid' = Valid(graph)
    /\ IF valid' THEN pc' = "map" /\ UNCHANGED outcome
       ELSE IF driver = "graph" /\ (~VesselsPaired(graph) \/ ~Acyclic(graph))
         THEN pc' = "topology_repair" /\ outcome' = "INVALID_TOPOLOGY"
         ELSE pc' = "done" /\ outcome' = "INVALID_IR"
    /\ UNCHANGED <<given, stage1, graph, flowsheet, repairs>>

-----------------------------------------------------------------------------
(* The deterministic topology repair of the graph driver.                  *)

Lonely(g, u) == u.type = "Vessel" /\ Len(Outlets(g, u.tag)) = 1

(* Fix 1: the outlet the port of the existing one leaves out, unless the   *)
(* feed is superheated vapour.                                             *)
AddOutlet(g, u) ==
    IF ~Lonely(g, u) \/ u.tag \in sheet.superheated THEN g
    ELSE IF Outlets(g, u.tag)[1].port = 0
      THEN Product(g, u, "_LIQUIDOUT", 1, "liquid", {"liq"})
      ELSE Product(g, u, "_VAPOUROUT", 0, "vapour", {"gas"})

(* unit_graph keeps one stream between two units, the last; recycles too.  *)
UnitGraph(g) ==
    {g.streams[i] : i \in {j \in DOMAIN g.streams :
        /\ g.streams[j] \in Between(g)
        /\ \A k \in (j + 1)..Len(g.streams) :
              <<g.streams[k].src, g.streams[k].dst>> # <<g.streams[j].src, g.streams[j].dst>>}}

Cycles(g) ==
    {c \in SUBSET UnitGraph(g) : Closed(c) /\ \A d \in (SUBSET c) \ {c} : ~Closed(d)}

(* Fix 2: on one cycle, the flags the guards dropped.                      *)
Repropagate(g, cycle) ==
    [g EXCEPT !.streams = [i \in DOMAIN g.streams |->
        LET s == g.streams[i]
        IN  IF s \in cycle /\ ~s.recycle /\ s.tag \in DOMAIN origin
              THEN [s EXCEPT !.recycle = TRUE, !.target = origin[s.tag]] ELSE s]]

RepairedTopologies ==
    LET g == OverUnits(graph, AddOutlet)
    IN  IF Cycles(g) = {} THEN {g} ELSE {Repropagate(g, c) : c \in Cycles(g)}

TopologyRepair ==
    /\ pc = "topology_repair"
    /\ graph' \in RepairedTopologies
    /\ valid' = Valid(graph')
    /\ IF valid' THEN pc' = "map" /\ outcome' = "TOPO_OK"
       ELSE IF \E u \in ToSet(graph.units) : Lonely(graph, u) /\ u.tag \in sheet.superheated
         THEN pc' = "done" /\ outcome' = "TOPO_INFEASIBLE"
         ELSE pc' = "repair" /\ outcome' = "TOPO_REPAIR_LLM"
    /\ UNCHANGED <<given, stage1, flowsheet, repairs>>

-----------------------------------------------------------------------------
(* to_dwsim: connections <<from, to, source port, destination port>>.      *)

Sent(s) == IF s.recycle THEN s.tag \o "-INIT" ELSE s.tag

InletPortZero(g, i) == 0

(* A mixer's inlet ports are numbered in the order of the streams.         *)
InletPort(g, i) ==
    IF MaxInlets(TypeOf(g, g.streams[i].dst)) = 1 THEN 0
    ELSE Cardinality({j \in 1..(i - 1) : g.streams[j].dst = g.streams[i].dst})

Wires(g) ==
    {<<s.src, s.tag, s.port, 0>> : s \in {x \in ToSet(g.streams) : x.src # None}}
      \cup {<<Sent(g.streams[i]), g.streams[i].dst, 0, InletPort(g, i)>> :
               i \in {j \in DOMAIN g.streams : g.streams[j].dst # None}}

(* Both material outlets of a reactor carry a stream.                      *)
DeadEnds(g) ==
    {<<u, u \o "-OUT" \o ToString(p), p, 0>> :
        u \in {x.tag : x \in {y \in ToSet(g.units) : y.type = "ConversionReactor"}}, p \in {0, 1}}

OpenOutlets(g) ==
    {d \in DeadEnds(g) : \A w \in Wires(g) : ~(w[1] = d[1] /\ w[3] = d[3])}

ToDwsim(g) ==
    [units |-> UnitTags(g),
     streams |-> StreamTags(g) \cup {Sent(s) : s \in Recycles(g)} \cup {d[2] : d \in OpenOutlets(g)},
     wires |-> Wires(g) \cup OpenOutlets(g),
     blocks |-> {<<s.tag, Sent(s)>> : s \in Recycles(g)}]

-----------------------------------------------------------------------------
(* Stage 3 leaves the structure alone; it may fail, or leave conditions    *)
(* the second validation refuses.                                          *)
Map ==
    /\ pc = "map"
    /\ \/ pc' = "done" /\ outcome' = "PLAN_FAILED" /\ UNCHANGED <<graph, valid, flowsheet>>
       \/ \E sane \in BOOLEAN :
            /\ graph' = Normalise(graph)
            /\ valid' = (sane /\ Valid(graph'))
            /\ IF valid'
                 THEN pc' = "solve" /\ flowsheet' = ToDwsim(graph') /\ UNCHANGED outcome
                 ELSE /\ pc' = "done"
                      /\ outcome' = IF driver = "v2" THEN "INVALID_JSON" ELSE "INVALID_IR"
                      /\ UNCHANGED flowsheet
    /\ UNCHANGED <<given, stage1, repairs>>

(* The solver's answer ends the run or asks for a repair.                  *)
Solve ==
    /\ pc = "solve"
    /\ \/ pc' = "done" /\ UNCHANGED repairs
       \/ repairs < MaxRepairs /\ pc' = "repair" /\ repairs' = repairs + 1
    /\ UNCHANGED <<given, stage1, graph, valid, outcome, flowsheet>>

(* PORT_REPAIR: vessel outlets by phase, other units back to port 0.       *)
FixedPort(g, s) ==
    LET outs == Outlets(g, s.src)
        unphased == Within(outs, {x \in ToSet(outs) : x.phase \notin {"vapour", "liquid"}})
    IN  IF TypeOf(g, s.src) # "Vessel"
          THEN IF s.port >= MaxOutlets(TypeOf(g, s.src)) THEN 0 ELSE s.port
        ELSE CASE s.phase = "vapour" -> 0
               [] s.phase = "liquid" -> 1
               [] OTHER -> SelectInSeq(unphased, LAMBDA x : x = s) - 1
FixPorts(g) ==
    [g EXCEPT !.streams = [i \in DOMAIN g.streams |->
        LET s == g.streams[i]
        IN  IF s.src = None THEN s ELSE [s EXCEPT !.port = FixedPort(g, s)]]]

(* Whatever the repair agent does to the structure, normalise follows, and *)
(* validation only warns.                                                  *)
Repair ==
    /\ pc = "repair"
    /\ \E repaired \in {graph, Normalise(graph), FixPorts(graph)} :
         /\ graph' = Normalise(repaired)
         /\ flowsheet' = ToDwsim(graph')
    /\ valid' = Valid(graph')
    /\ pc' = "solve"
    /\ UNCHANGED <<given, stage1, outcome, repairs>>

-----------------------------------------------------------------------------
Init ==
    /\ pc = "extract" /\ driver \in Drivers /\ sheet \in Sheets
    /\ tries = 0 /\ streams = <<>> /\ origin = <<>>
    /\ graph = None /\ valid = None /\ outcome = "MAX_ITER" /\ flowsheet = None
    /\ repairs = 0

Next ==
    \/ Extract \/ Guards \/ Build \/ Validate \/ TopologyRepair \/ Map \/ Solve \/ Repair

Spec == Init /\ [][Next]_vars

-----------------------------------------------------------------------------
(* Properties.                                                             *)

Stages == {"extract", "guards", "build", "validate", "topology_repair", "map",
           "solve", "repair", "done", "crash"}

(* Streams of the graph run between units of the graph; a flowsheet has    *)
(* the graph's objects.                                                    *)
TypeOK ==
    /\ pc \in Stages /\ tries \in 0..MaxTries /\ repairs \in 0..MaxRepairs
    /\ graph # None => \A s \in ToSet(graph.streams) :
          /\ {s.src, s.dst} \subseteq UnitTags(graph) \cup {None}
          /\ s.port \in Nat /\ s.phase \in Phases
    /\ flowsheet # None \/ pc = "solve" \/ repairs > 0 => flowsheet.units = UnitTags(graph)

SourceOf(tag) == (CHOOSE s \in ToSet(streams) : s.tag = tag).src

(* Where the description speaks of a recycle, the guards leave exactly one *)
(* to every unit the model gave any, an upstream one if there was one, and *)
(* whatever is kept becomes a recycle block of the flowsheet.              *)
RecycleKept ==
    pc \notin {"extract", "guards"} /\ sheet.trigger =>
        \A u \in SheetTags :
            LET before == {t \in DOMAIN origin : SourceOf(t) = u}
                kept == {s \in ToSet(streams) : s.recycle /\ s.src = u}
            IN  /\ before # {} => Cardinality(kept) = 1
                /\ \A s \in kept, t \in before :
                       Position(origin[t]) < Position(u) => Position(s.target) < Position(u)
                /\ flowsheet # None => \A s \in kept : <<s.tag, Sent(s)>> \in flowsheet.blocks

(* Two outlets of a vessel whose names fit no assignment of ports.         *)
Torn(g, u) ==
    /\ u.type = "Vessel"
    /\ \E s, t \in ToSet(Outlets(g, u.tag)) : s # t /\ Misnamed(s, t) /\ Misnamed(t, s)

(* More products than outlet ports: validate computes the maximum and does *)
(* not look at it.  A decanter gets there when an outlet named for gas and *)
(* liquid both is no liquid to the completion and none of the vapour to    *)
(* the ports.                                                              *)
Overfull(g, u) ==
    /\ u.type # "Splitter"
    /\ Len(Products(g, u.tag)) > MaxOutlets(u.type)

Wiring(g) == [units |-> g.units, ends |-> {<<s.tag, s.src, s.dst>> : s \in ToSet(g.streams)}]

(* normalise runs again after Stage 3 and after every repair.  On a graph  *)
(* it has been applied to and validated it inserts and rewires nothing if  *)
(* no unit is overfull, and leaves every port alone unless the names of a  *)
(* vessel's outlets contradict each other.                                 *)
NormaliseSettles ==
    [][/\ valid = TRUE /\ pc' = "solve"
       /\ \A u \in ToSet(graph.units) : ~Overfull(graph, u)
       => /\ Wiring(graph') = Wiring(graph)
          /\ pc = "map" /\ (\A u \in ToSet(graph.units) : ~Torn(graph, u)) =>
                graph' = graph]_vars

(* Every node and every simulator object has a name of its own: adding one *)
(* under a name in use would replace the node behind it.                   *)
Names(g) ==
    {[kind |-> "unit", of |-> i, name |-> g.units[i].tag] : i \in DOMAIN g.units}
      \cup {[kind |-> "stream", of |-> i, name |-> g.streams[i].tag] : i \in DOMAIN g.streams}
      \cup {[kind |-> "init", of |-> i, name |-> Sent(g.streams[i])] :
               i \in {j \in DOMAIN g.streams : g.streams[j].recycle}}
      \cup {[kind |-> "end", of |-> <<d[1], d[3]>>, name |-> d[2]] : d \in OpenOutlets(g)}
NamesApart ==
    pc \in {"validate", "topology_repair", "map", "solve", "repair"} \/ flowsheet # None =>
        \A m, n \in Names(graph) : m.name = n.name => m = n

(* Connections of a flowsheet between units, recycle blocks cut.           *)
Feeds(f, u, v) == \E w, x \in f.wires : w[1] = u /\ w[2] = x[1] /\ x[2] = v

(* validate checks the graph, DWSIM gets the connections: those of a valid *)
(* graph use every port once, and every loop passes a recycle block.       *)
FlowsheetSound ==
    flowsheet # None /\ valid =>
        /\ \A w, x \in flowsheet.wires : w # x =>
              /\ w[1] \in flowsheet.units => <<w[1], w[3]>> # <<x[1], x[3]>>
              /\ w[2] \in flowsheet.units => <<w[2], w[4]>> # <<x[2], x[4]>>
        /\ \A loop \in (SUBSET flowsheet.units) \ {{}} :
              \E u \in loop : \A v \in loop : ~Feeds(flowsheet, v, u)

-----------------------------------------------------------------------------
(* What comments of the source say, and the code does not keep.            *)

(* "<tag>-INIT : the assumed stream (Recycle block -> upstream unit,       *)
(* initial guess)": a recycle that only names its target is wired by       *)
(* _insert_mixers, which passes over a target that is itself a mixer or    *)
(* has no other inlet; its INIT stream then feeds nothing.                 *)
RecycleClosed ==
    flowsheet # None /\ valid =>
        \A b \in flowsheet.blocks : \E w \in flowsheet.wires : w[1] = b[2]

(* "normalise(graph) is a no-op on already-validated IR": not for a vessel *)
(* whose outlets are both named for one phase.                             *)
NormaliseIsNoop == pc = "solve" /\ valid => Normalise(graph) = graph

=============================================================================
