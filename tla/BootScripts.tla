----------------------------- MODULE BootScripts -----------------------------
(***************************************************************************)
(* The start-up scripts of one device over many boots: the radio script    *)
(* and the fingerprint script run beside each other, and a power cut ends  *)
(* both.  Properties and processes are gone after it, files stay.          *)
(***************************************************************************)
EXTENDS RadioScript, FingerprintScript

vars == <<radioVars, fingerprintVars>>

TypeOK == RadioTypeOK /\ FingerprintTypeOK

Init == RadioInit /\ FingerprintInit

On == rpc # "down"

Boot == \E v \in Versions : RadioBoot(v) /\ FingerprintBoot

PowerCut == RadioPowerCut /\ FingerprintCut

Radio == RadioStep /\ UNCHANGED fingerprintVars

Fingerprint == On /\ FingerprintStep /\ UNCHANGED radioVars

Service == On /\ (Dies \/ Restarts) /\ UNCHANGED radioVars

Next == Boot \/ PowerCut \/ Radio \/ Fingerprint \/ Service

(* The scripts and init run while there is power.                          *)
Spec == /\ Init /\ [][Next]_vars
        /\ WF_vars(Radio)
        /\ WF_vars(On /\ Script /\ UNCHANGED radioVars)
        /\ WF_vars(On /\ Trigger /\ UNCHANGED radioVars)

-----------------------------------------------------------------------------
(* Every run of a script ends unless power is cut, whichever cp or echo    *)
(* fails and however often the fingerprint service dies; only a service    *)
(* that is seen again and again neither running nor stopped keeps its      *)
(* script going, since such a look is not counted.                         *)
ScriptsEnd == /\ (rpc = "db") ~> (rpc \in {"end", "down"})
              /\ []<>(fps_svc_state = "other") \/ ((fpc = "sleep") ~> (fpc = "off"))
=============================================================================
