--------------------------- MODULE MCRepairSearch ---------------------------
(* Small instances of RepairSearch: a cooler that feeds a pump whose inlet *)
(* temperature and outlet pressure are both reported.                      *)
EXTENDS RepairSearch

CONSTANTS cooler, pump, T, P

CoolerT == <<cooler, T>>
PumpT == <<pump, T>>
PumpP == <<pump, P>>
ThreeTargets == {CoolerT, PumpT, PumpP}

(* 2 is a value of the LLM's that rounds to 1. *)
TwoRoundsDown == [v \in Values |-> 1]
AllRound == [v \in Values |-> v]

(* The round value, or none while the cooler is at 1. *)
One == [g \in Graphs |-> [t \in Targets |-> {1}]]
NoneWhenCold == [g \in Graphs |-> [t \in Targets |-> IF g[CoolerT] = 1 THEN {} ELSE {1}]]
OneOrNone == {One, NoneWhenCold}
All == {[g \in Graphs |-> [t \in Targets |-> Values]]}

NoneOneOrAll == {{}, {PumpT}, ThreeTargets}
PumpErrors == {{PumpT}}
AllErrors == {ThreeTargets}

NoneOrPumpFailed == {{}, {pump}}
NoneFailed == {{}}

(* Validation rejects one of the cooler's values. *)
ColdCooler == {<<CoolerT, 1>>}

(* Cooler and pump are coupled; a new pressure resets the cooler. *)
CoolerPump ==
    [t \in Targets |->
        [u \in Units |-> IF <<t, u>> \in {<<CoolerT, pump>>, <<PumpP, cooler>>}
                         THEN 1 ELSE 0]]
PressureResetsCooler == [t \in Targets |-> IF t = PumpP THEN {CoolerT} ELSE {}]

TunedToTwo == {[t \in Targets |-> 2]}

AllOne == {[t \in Targets |-> 1]}

=============================================================================
