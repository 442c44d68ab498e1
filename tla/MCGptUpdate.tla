----------------------------- MODULE MCGptUpdate -----------------------------
(* Three LUNs with critical images; the middle one has no twins.           *)
EXTENDS GptUpdate

OuterTwins == {1, 3}
=============================================================================
