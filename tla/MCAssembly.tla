---------------------------- MODULE MCAssembly ----------------------------
(* Every subset of a list of candidate streams is a reply: around a loop   *)
(* of mixer, reactor and vessel, and for separators of the other types.    *)
EXTENDS Assembly

Raw(tag, src, dst, words) == Stream(tag, src, dst, 0, "mixed", words)
Back(tag, src, dst, target, words) ==
    [Raw(tag, src, dst, words) EXCEPT !.recycle = TRUE, !.target = target]

Replies(list) == {SelectSeq(list, LAMBDA s : s \in some) : some \in SUBSET ToSet(list)}
With(always, list) == {always \o r : r \in Replies(list)}

Units(u, t) == [i \in DOMAIN u |-> [tag |-> u[i], type |-> t[i]]]
NoTags == [t \in {} |-> None]

Sheet(units, replies, trigger) ==
    [units |-> units, near |-> NoTags, meant |-> NoTags, replies |-> replies,
     trigger |-> trigger, superheated |-> {}]

LoopUnits == Units(<<"MX", "RX", "V">>, <<"Mixer", "ConversionReactor", "Vessel">>)
LoopReplies ==
    With(<<Raw("FEED", None, "MX", {}), Raw("S1", "MX", "RX", {}), Raw("S2", "RX", "V", {})>>,
         <<Back("LIQ", "V", "RX", "RX", {"liq"}), Back("VAP", "V", None, "MX", {"gas"}),
           Back("TOP", "V", "MX", "MX", {"top"}), Raw("BOT", "V", None, {"bot"}),
           Back("OVER", "V", None, "V", {"top"})>>)
LoopSheet == Sheet(LoopUnits, LoopReplies, TRUE)
QuietLoop == Sheet(LoopUnits, LoopReplies, FALSE)

(* A heater whose single feed, second feed and recycle need a mixer, whose *)
(* products need a splitter; a phantom source, a repeated tag, a near miss,*)
(* an unsound feed, an empty answer.                                       *)
HeaterReplies ==
    With(<<Raw("FEED", None, "H1", {})>>,
         <<Raw("FEED", None, "H-1", {}), Raw("P1", "H1", None, {}), Raw("P2", "H1", None, {}),
           Back("R", "H1", None, "H1", {}), Back("R2", "COLUMN", None, "H1", {})>>)
      \cup {None, <<[Raw("FEED", None, "H1", {}) EXCEPT !.sound = FALSE]>>,
            <<Raw("FEED", None, "H1", {}), Back("R", "H1", None, "the heater", {})>>}
HeaterSheet ==
    [Sheet(Units(<<"H1">>, <<"Heater">>), HeaterReplies, TRUE)
        EXCEPT !.near = "H-1" :> "H1", !.meant = "the heater" :> "H1"]

SeparatorReplies ==
    With(<<Raw("FEED", None, "C1", {})>>,
         <<Raw("RESIDUE", "C1", "D1", {"bot"}), Raw("LIGHTS", "C1", None, {"top"}),
           Raw("GAS", "D1", None, {"gas"}), Raw("OIL", "D1", "P1", {}),
           Raw("WATER", "D1", None, {}), Raw("OUT", "P1", None, {})>>)
SeparatorSheet == Sheet(Units(<<"C1", "D1", "P1">>, <<"Column", "Decanter", "Pump">>),
                        SeparatorReplies, FALSE)

FlashReplies ==
    With(<<Raw("FEED", None, "V1", {})>>,
         <<Raw("LIQ1", "V1", "K1", {"liq"}), Raw("VAP1", "V1", "K1", {"gas"}),
           Raw("X", "V1", None, {}), Raw("LIQ2", "V1", None, {"liq"}),
           Raw("OUT", "K1", None, {})>>)
FlashUnits == Units(<<"V1", "K1">>, <<"Vessel", "Compressor">>)
FlashSheet == Sheet(FlashUnits, FlashReplies, FALSE)
DrySheet == [FlashSheet EXCEPT !.superheated = {"V1"}]

(* A splitter of the process itself, with more outlets than its type names.*)
SplitSheet ==
    Sheet(Units(<<"SP", "H1">>, <<"Splitter", "Cooler">>),
          With(<<Raw("FEED", None, "SP", {}), Raw("A", "SP", "H1", {}), Raw("B", "SP", None, {})>>,
               <<Raw("C", "SP", None, {}), Raw("OUT", "H1", None, {})>>), FALSE)

(* Outlets named for gas and liquid both.                                  *)
PetrolSheet ==
    Sheet(Units(<<"V1", "D1">>, <<"Vessel", "Decanter">>),
          With(<<Raw("FEED", None, "V1", {})>>,
               <<Raw("LIQUEFIEDGAS", "V1", "D1", {"liq", "gas"}), Raw("REST", "V1", None, {}),
                 Raw("LIQUIDGAS", "D1", None, {"liq", "gas"}), Raw("OFFGAS", "D1", None, {"gas"}),
                 Raw("WATER", "D1", None, {})>>), FALSE)

AllSheets == {LoopSheet, QuietLoop, HeaterSheet, SeparatorSheet, SplitSheet, FlashSheet,
              DrySheet, PetrolSheet}
=============================================================================
