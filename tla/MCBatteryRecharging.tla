------------------------- MODULE MCBatteryRecharging -------------------------
(* 100% and the eight levels below it; polls that come together, that      *)
(* divide a transition and that miss its end.                              *)
EXTENDS BatteryRecharging

MCGaps == {0, 1, 3, 7}
=============================================================================
