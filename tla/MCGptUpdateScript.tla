-------------------------- MODULE MCGptUpdateScript --------------------------
(* All the LUNs have twins.                                                *)
EXTENDS GptUpdateScript

AllTwin == Luns
=============================================================================
