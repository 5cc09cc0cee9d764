------------------------- MODULE MCWarningEvaluator -------------------------
(* Two levels, "low" under "high"; the settings a user moves between: both, *)
(* and the higher level deleted.                                            *)
EXTENDS WarningEvaluator

Point(level, value) == [direction |-> "max", value |-> value, level |-> level, enabled |-> TRUE]
Both == [enabled |-> TRUE, levels |-> <<"low", "high">>,
         points |-> {Point("low", 0), Point("high", 1)}]
LowOnly == [enabled |-> TRUE, levels |-> <<"low">>, points |-> {Point("low", 0)}]

MCConfigs == {Both, LowOnly}
MCValues == 0..2
=============================================================================
