----------------------------- MODULE MCModemDump -----------------------------
(* Both build variants, kills at any point, and room for one change of a   *)
(* property that init has not handled when a call begins.                  *)
EXTENDS ModemDump
=============================================================================
