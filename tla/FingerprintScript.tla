-------------------------- MODULE FingerprintScript --------------------------
(***************************************************************************)
(* init.fingerprint.sh: it starts the fingerprint service until it runs,   *)
(* at most max_times times, and init starts the script when the device has *)
(* booted and when the service ends after it had been running              *)
(* (init.hardware.rc:825-829).                                             *)
(*                                                                         *)
(* External: the service, whose definition is not in the repository, so    *)
(* that it may end, be restarted or be stopped at any time; and init,      *)
(* which handles property changes and ended processes later, in order, and *)
(* for which starting what is still running is no change.                  *)
(***************************************************************************)
EXTENDS Integers, Sequences

CONSTANTS max_times,    \* the argument of the script
          MaxEvents     \* bound: property changes waiting for init

ASSUME MaxEventsAssumption == MaxEvents \in Nat \ {0}
ASSUME MaxTimesAssumption == max_times \in Nat \ {0}

VARIABLES
  fps_hal,      \* init.svc.vendor.fps_hal; "other": restarting, stopping, unset
  succeed,      \* vendor.fps.init.succeed; "unset" when it was never set
  events,       \* property changes init has not handled
  fpc,          \* where the script is; "off": init knows no process of it
  init_retry_count,
  fps_svc_state,        \* what the script read of fps_hal
  missed        \* a start of the script was no change though it had seen
                \* the service running and was about to end

fingerprintVars == <<fps_hal, succeed, events, fpc, init_retry_count, fps_svc_state, missed>>

States == {"running", "stopped", "other"}

(* The changes that can match a trigger; "fps_hal" is one to "stopped".    *)
Changes == {"boot_completed", "succeed", "fps_hal"}

FingerprintTypeOK ==
  /\ {fps_hal, fps_svc_state} \subseteq States
  /\ succeed \in {"unset", "false", "true"}
  /\ events \in Seq(Changes)
  /\ fpc \in {"off", "sleep", "decide", "exit"}
  /\ init_retry_count \in 0 .. max_times
  /\ missed \in BOOLEAN

(* Without power there are no properties and no processes.                 *)
FingerprintInit == /\ fps_hal = "other" /\ succeed = "unset"
                   /\ events = << >>
                   /\ fpc = "off" /\ init_retry_count = 0 /\ fps_svc_state = "stopped"
                   /\ missed = FALSE

FingerprintCut == /\ fps_hal' = "other" /\ succeed' = "unset"
                  /\ events' = << >>
                  /\ fpc' = "off" /\ init_retry_count' = 0 /\ fps_svc_state' = "stopped"
                  /\ missed' = FALSE

(* The boot is completed, whatever has become of the service until then.   *)
FingerprintBoot == /\ fps_hal' \in States /\ succeed' = "unset"
                   /\ events' = <<"boot_completed">>
                   /\ fpc' = "off" /\ init_retry_count' = 0 /\ fps_svc_state' = "stopped"
                   /\ missed' = FALSE

(* sleep 5; getprop                                                        *)
Sample == /\ fpc = "sleep"
          /\ fps_svc_state' = fps_hal
          /\ fpc' = "decide"
          /\ UNCHANGED <<fps_hal, succeed, events, init_retry_count, missed>>

(* init starts a service that is being restarted at once, one that is      *)
(* being stopped later, and an unknown one never.                          *)
Start == fps_hal' \in {"running"} \cup ({fps_hal} \cap {"other"})

(* Mutant: the retries are not counted.                                    *)
Retry_uncounted == /\ fpc = "decide" /\ fps_svc_state = "stopped" /\ init_retry_count < max_times
                   /\ succeed' = "false"
                   /\ Start
                   /\ fpc' = "sleep"
                   /\ UNCHANGED <<events, init_retry_count, fps_svc_state, missed>>

(* Mutant: -le where the script has -lt.                                   *)
Retry_le == /\ fpc = "decide" /\ fps_svc_state = "stopped" /\ init_retry_count <= max_times
            /\ init_retry_count' = init_retry_count + 1
            /\ succeed' = "false"
            /\ Start
            /\ fpc' = "sleep"
            /\ UNCHANGED <<events, fps_svc_state, missed>>

(* "false" matches no trigger.                                             *)
Retry == /\ fpc = "decide" /\ fps_svc_state = "stopped" /\ init_retry_count < max_times
         /\ init_retry_count' = init_retry_count + 1
         /\ succeed' = "false"
         /\ Start
         /\ fpc' = "sleep"
         /\ UNCHANGED <<events, fps_svc_state, missed>>

GiveUp == /\ fpc = "decide" /\ fps_svc_state = "stopped" /\ init_retry_count = max_times
          /\ fpc' = "exit"
          /\ UNCHANGED <<fps_hal, succeed, events, init_retry_count, fps_svc_state, missed>>

Succeed == /\ fpc = "decide" /\ fps_svc_state = "running"
           /\ succeed' = "true"
           /\ events' = Append(events, "succeed")
           /\ fpc' = "exit"
           /\ UNCHANGED <<fps_hal, init_retry_count, fps_svc_state, missed>>

(* Neither branch: once more round the loop, and nothing is counted.  What *)
(* was read is read anew.                                                  *)
Again == /\ fpc = "decide" /\ fps_svc_state = "other"
         /\ fpc' = "sleep" /\ fps_svc_state' = "stopped"
         /\ UNCHANGED <<fps_hal, succeed, events, init_retry_count, missed>>

(* init learns that the script has ended.                                  *)
Reap == /\ fpc = "exit"
        /\ fpc' = "off" /\ fps_svc_state' = "stopped"
        /\ UNCHANGED <<fps_hal, succeed, events, init_retry_count, missed>>

Script == Sample \/ Retry \/ GiveUp \/ Succeed \/ Again \/ Reap

(* The service ends or is stopped, and init learns of it; or it is         *)
(* restarted, in two changes that match no trigger.                        *)
Dies == /\ fps_hal # "stopped" /\ Len(events) < MaxEvents
        /\ fps_hal' = "stopped"
        /\ events' = Append(events, "fps_hal")
        /\ UNCHANGED <<succeed, fpc, init_retry_count, fps_svc_state, missed>>

Restarts == /\ fps_hal # "stopped"
            /\ fps_hal' \in {"running", "other"} \ {fps_hal}
            /\ UNCHANGED <<succeed, events, fpc, init_retry_count, fps_svc_state, missed>>

(* Mutant: the trigger is evaluated on the change of one property only.    *)
Triggers_one(change) == change = "boot_completed" \/ (change = "fps_hal" /\ succeed = "true")

(* The conditions of the two "on property" lines: the changed property by  *)
(* its value then, the other one by its value now.                         *)
Triggers(change) == \/ change = "boot_completed"
                    \/ change = "succeed" /\ fps_hal = "stopped"
                    \/ change = "fps_hal" /\ succeed = "true"

StartScript == IF fpc = "off"
                 THEN fpc' = "sleep" /\ init_retry_count' = 0 /\ missed' = FALSE
                 ELSE /\ missed' = (missed \/ (fpc = "exit" /\ fps_svc_state = "running"))
                      /\ UNCHANGED <<fpc, init_retry_count>>

Trigger == /\ events # <<>>
           /\ events' = Tail(events)
           /\ IF Triggers(Head(events)) THEN StartScript
                                        ELSE UNCHANGED <<fpc, init_retry_count, missed>>
           /\ UNCHANGED <<fps_hal, succeed, fps_svc_state>>

FingerprintStep == Script \/ Trigger

-----------------------------------------------------------------------------
(* When all is quiet the service is not stopped, or the script has used up *)
(* its retries, or the start of a new run met the end of the last one.  No *)
(* other order of deaths, samples and property changes loses a death.      *)
DeathNoticed == events = <<>> /\ fpc = "off" /\ fps_hal = "stopped" =>
                  \/ succeed = "false" /\ init_retry_count = max_times
                  \/ missed
=============================================================================
