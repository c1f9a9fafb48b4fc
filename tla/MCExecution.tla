---------------------------- MODULE MCExecution ----------------------------
(* A heater, a column with a package of its own, a reactor short of a      *)
(* parameter, a recycle, and a flowsheet the checks refuse.                *)
EXTENDS Execution, TLC

Feed == [given |-> {"T", "P", "flow"}, mole |-> {"a", "b"}, whole |-> TRUE]
Inner == [given |-> {}, mole |-> {}, whole |-> FALSE]

Unit(type, given) == [type |-> type, given |-> given, absurd |-> {}, package |-> None,
                       changesMoles |-> TRUE]
HeaterUnit == Unit("Heater", {"T_out"})
ColumnUnit == [Unit("Column", SetterNeeds("Column")) EXCEPT !.package = "NRTL"]

Line(u, unit) ==
    [compounds |-> {"a", "b"}, package |-> "UNIQUAC",
     streams |-> ("F" :> Feed @@ "P" :> Inner), units |-> (u :> unit),
     wires |-> {<<"F", u>>, <<u, "P">>}, bips |-> {}, recycles |-> {}]

ColumnSheet == Line("COL", ColumnUnit)
ReactorSheet ==
    [Line("RX", Unit("ConversionReactor", SetterNeeds("ConversionReactor") \cup {"reaction"}))
        EXCEPT !.package = "Raoult's Law"]
ShortSheet == Line("RX", Unit("ConversionReactor", {"conversion"}))
RecycleSheet ==
    [Line("HT", HeaterUnit) EXCEPT !.streams = "F" :> Feed @@ "P" :> Inner @@ "R" :> Feed,
                                   !.package = "NRTL", !.bips = {"NRTL"},
                                   !.wires = @ \cup {<<"R", "HT">>},
                                   !.recycles = {[tag |-> "REC", inlet |-> "P", outlet |-> "R"]}]
RefusedSheet == [Line("HT", HeaterUnit) EXCEPT !.units = "HT" :> Unit("Heater", {})]

Sheets == {ColumnSheet, ReactorSheet, ShortSheet, RecycleSheet, RefusedSheet}
ColumnOnly == {ColumnSheet}
=============================================================================
