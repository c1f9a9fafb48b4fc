---------------------------- MODULE MCConditions ----------------------------
(* Small flowsheets for Conditions: one for every coupling of the pass.    *)
EXTENDS Conditions

Water(p) == 340 + p \div 10

Chain(tags, types) == [i \in DOMAIN tags |-> [tag |-> tags[i], type |-> types[i]]]
Pipe(tag, src, dst) == [tag |-> tag, src |-> src, dst |-> dst, T |-> None, P |-> None]
Fed(tag, dst, t, p) == [tag |-> tag, src |-> None, dst |-> dst, T |-> t, P |-> p]

Plant(units, streams) ==
    [units |-> units, streams |-> streams, temps |-> <<>>, pressures |-> {},
     stated |-> [t \in {u.tag : u \in ToSet(units)} |-> None],
     seeded |-> [t \in {u.tag : u \in ToSet(units)} |-> None],
     data |-> TRUE]

(* Heater to a vessel that a second stream of unknown temperature enters.  *)
Flash == Plant(Chain(<<"H1", "V1">>, <<"Heater", "Vessel">>),
               <<Fed("FEED", "H1", 300, 100), Pipe("S1", "H1", "V1"),
                 Pipe("V", "V1", None), Pipe("L", "V1", None)>>)
Flashes ==
    {Flash, [Flash EXCEPT !.data = FALSE], [Flash EXCEPT !.stated["H1"] = 320],
     [Flash EXCEPT !.stated["H1"] = 80], [Flash EXCEPT !.temps = <<300, 345>>],
     [Flash EXCEPT !.seeded["H1"] = 330]}

(* Cooler, heater, vessel: the pass corrects one of them against the other.*)
Train == Plant(Chain(<<"C1", "H2", "V1">>, <<"Cooler", "Heater", "Vessel">>),
               <<Fed("FEED", "C1", 310, 100), Pipe("S1", "C1", "H2"), Pipe("S2", "H2", "V1"),
                 Pipe("V", "V1", None), Pipe("L", "V1", None)>>)
Trains ==
    {[Train EXCEPT !.temps = <<310, 380>>],
     [Train EXCEPT !.stated = "C1" :> 378 @@ "H2" :> 380 @@ "V1" :> None]}

(* Two heaters in a row, the first before a vessel.                        *)
Reheat == Plant(Chain(<<"H1", "V1", "H2">>, <<"Heater", "Vessel", "Heater">>),
                <<Fed("FEED", "H1", 300, 100), Fed("AUX", "H1", None, None), Pipe("S1", "H1", "V1"),
                  Pipe("V", "V1", "H2"), Pipe("L", "V1", None), Pipe("OUT", "H2", None)>>)
Reheats == {[Reheat EXCEPT !.temps = <<300, 340>>], [Reheat EXCEPT !.stated["H2"] = 352]}

Subcooler == Plant(Chain(<<"C1", "P1", "H1">>, <<"Cooler", "Pump", "Heater">>),
                   <<Fed("FEED", "C1", 400, 100), Pipe("S1", "C1", "P1"), Pipe("S2", "P1", "H1"),
                     Pipe("OUT", "H1", None)>>)
Subcoolers == {Subcooler, [Subcooler EXCEPT !.stated["C1"] = 345],
               [Subcooler EXCEPT !.stated["P1"] = 90]}

(* An intercooler, whose recorded inlet is the cold feed.                  *)
Intercooled == Plant(Chain(<<"K1", "C1", "V1">>, <<"Compressor", "Cooler", "Vessel">>),
                     <<Fed("FEED", "K1", 298, 100), Pipe("S1", "K1", "C1"), Pipe("S2", "C1", "V1"),
                       Pipe("V", "V1", None), Pipe("L", "V1", None)>>)
Intercoolers ==
    {[Intercooled EXCEPT !.temps = <<298, 298>>, !.pressures = {100, 500}],
     [Intercooled EXCEPT !.temps = <<299, 299>>], [Intercooled EXCEPT !.stated["C1"] = 313],
     [Intercooled EXCEPT !.temps = <<298, 320>>]}

LetDown == Plant(Chain(<<"X1", "H1", "V1">>, <<"Expander", "Heater", "Vessel">>),
                 <<Fed("FEED", "X1", 290, 600), Pipe("S1", "X1", "H1"), Pipe("S2", "H1", "V1"),
                   Pipe("V", "V1", None), Pipe("L", "V1", None)>>)
Chiller == Plant(Chain(<<"X1", "C1">>, <<"Expander", "Cooler">>),
                 <<Fed("FEED", "X1", 290, 600), Pipe("S1", "X1", "C1"), Pipe("OUT", "C1", None)>>)
LetDowns == {Chiller, LetDown, [LetDown EXCEPT !.pressures = {200, 600}], [LetDown EXCEPT !.stated["X1"] = 700]}

Reaction == Plant(Chain(<<"R1", "C1">>, <<"Reactor", "Cooler">>),
                  <<Fed("FEED", "R1", 300, 100), Pipe("S1", "R1", "C1"), Pipe("OUT", "C1", None)>>)
Reactions == {Reaction, [Reaction EXCEPT !.seeded["R1"] = 700],
              [Reaction EXCEPT !.temps = <<300, 500>>, !.pressures = {300}]}

(* A vessel fed only by a stream nothing is known about.                   *)
Blind == Plant(Chain(<<"H1", "V1">>, <<"Heater", "Vessel">>),
               <<Fed("FEED", "H1", 300, 100), Pipe("OUT", "H1", None), Fed("AUX", "V1", None, None),
                 Pipe("V", "V1", None), Pipe("L", "V1", None)>>)

(* A loop: the recycle is the first inlet of its mixer.                    *)
Loop == Plant(Chain(<<"M1", "K1", "C1">>, <<"Mixer", "Compressor", "Cooler">>),
              <<Pipe("R", "C1", "M1"), Fed("FEED", "M1", 300, 100), Pipe("S1", "M1", "K1"),
                 Pipe("S2", "K1", "C1")>>)

(* Celsius written as kelvin: a feed, and a setpoint.                      *)
Warmer == Plant(Chain(<<"H1">>, <<"Heater">>),
                <<Fed("FEED", "H1", 80, 100), Pipe("OUT", "H1", None)>>)
Miswritten == {[Warmer EXCEPT !.temps = <<80, 345>>], [Subcooler EXCEPT !.stated["C1"] = 80]}

AllPlants == Flashes \cup Trains \cup Reheats \cup Subcoolers \cup Intercoolers \cup LetDowns
                \cup Reactions \cup Miswritten \cup {Blind, Loop}
AllRules == {<<>>,
             <<[type |-> "Heater", down |-> "Vessel", value |-> 290],
               [type |-> "Pump", down |-> None, value |-> 800]>>,
             <<[type |-> "Cooler", down |-> None, value |-> 305]>>}
=============================================================================
