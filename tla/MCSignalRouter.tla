--------------------------- MODULE MCSignalRouter ---------------------------
(* A finite instance of SignalRouter for TLC: two signals of one lane,      *)
(* which a batch holds, and a lane that stays empty.                        *)
EXTENDS SignalRouter

MCSignals == 1..2
MCKindOf == <<"competitor.pricing_change", "prospect.replied">>
MCLaneOf == <<1, 1>>
=============================================================================
