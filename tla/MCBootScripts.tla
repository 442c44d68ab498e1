---------------------------- MODULE MCBootScripts ----------------------------
(* Two versions of the firmware, one file of the configuration beside      *)
(* mbn_ota.txt, one retry; the service does not die while two property     *)
(* changes wait for init.                                                  *)
EXTENDS BootScripts
=============================================================================
