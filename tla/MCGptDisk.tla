------------------------------ MODULE MCGptDisk ------------------------------
(* Two handles that two callers use at the same time.                      *)
EXTENDS GptDisk

TwoHandles == {"h1", "h2"}
=============================================================================
