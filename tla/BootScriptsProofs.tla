-------------------------- MODULE BootScriptsProofs --------------------------
(***************************************************************************)
(* Proofs about the start-up scripts, for any versions of the firmware,    *)
(* any files of its configuration, any number of retries and any number    *)
(* of boots, power cuts and deaths of the fingerprint service.             *)
(***************************************************************************)
EXTENDS BootScripts, FiniteSetTheorems, TLAPS

-----------------------------------------------------------------------------
(* Types of the radio script.                                              *)

RadioFlags == /\ mounted \in BOOLEAN /\ qcril \in BOOLEAN
              /\ copy_complete \in BOOLEAN /\ unrecorded \in BOOLEAN

RadioPCs == {"down", "db", "compare", "remove", "copy", "mbn", "flag", "end"}

RadioData == /\ fw \in Versions
             /\ config \in [Files -> Contents]
             /\ verInfo \in Contents
             /\ rpc \in RadioPCs
             /\ uncopied \subseteq Configs
             /\ blamed \subseteq Files

LEMMA FlagsKept ==
  ASSUME RadioFlags, RadioStep \/ RadioPowerCut \/ (\E v \in Versions : RadioBoot(v))
  PROVE  RadioFlags'
<1>1. CASE \E v \in Versions : RadioBoot(v)
  BY <1>1 DEF RadioBoot, RadioFlags
<1>2. CASE RadioPowerCut
  BY <1>2 DEF RadioPowerCut, CutShort, RadioFlags
<1>3. CASE CopyQcril \/ Compare \/ RemoveConfig \/ CopyConfig
  BY <1>3 DEF CopyQcril, Compare, RemoveConfig, CopyConfig, RadioFlags, history
<1>4. CASE CopyVerInfo \/ CopyMbn \/ SetFlag
  BY <1>4 DEF CopyVerInfo, CopyMbn, SetFlag, RadioFlags, history
<1>5. QED
  BY <1>1, <1>2, <1>3, <1>4 DEF RadioStep

LEMMA DataKept ==
  ASSUME RadioData, RadioStep \/ RadioPowerCut \/ (\E v \in Versions : RadioBoot(v))
  PROVE  RadioData'
<1>. USE DEF RadioData, RadioPCs, history
<1>1. /\ None \in Contents /\ Torn \in Contents /\ Versions \subseteq Contents
      /\ Configs \subseteq Files /\ Mbn \in Files
  BY DEF Contents, Files
<1>2. \A c \in Contents : Partly(c) \subseteq Contents
  BY <1>1 DEF Partly
<1>3. CASE \E v \in Versions : RadioBoot(v)
  BY <1>1, <1>3 DEF RadioBoot
<1>4. CASE CopyQcril
  BY <1>4 DEF CopyQcril, Partly
<1>5. CASE Compare \/ SetFlag
  BY <1>5 DEF Compare, SetFlag
<1>6. CASE RemoveConfig
  BY <1>1, <1>6 DEF RemoveConfig
<1>7. CASE CopyConfig
  BY <1>1, <1>2, <1>7 DEF CopyConfig
<1>8. CASE CopyVerInfo
  BY <1>1, <1>2, <1>8 DEF CopyVerInfo
<1>9. CASE CopyMbn
  BY <1>1, <1>2, <1>9 DEF CopyMbn
<1>10. CASE RadioPowerCut
  <2>1. CutShort /\ rpc' = "down" /\ uncopied' = {} /\ UNCHANGED <<fw, blamed>>
    BY <1>10 DEF RadioPowerCut
  <2>2. verInfo' \in Contents
    BY <1>1, <2>1 DEF CutShort
  <2>3. config' \in [Files -> Contents]
    BY <1>1, <2>1 DEF CutShort
  <2>4. QED
    BY <2>1, <2>2, <2>3
<1>11. QED
  BY <1>3, <1>4, <1>5, <1>6, <1>7, <1>8, <1>9, <1>10 DEF RadioStep

-----------------------------------------------------------------------------
(* What is in modem_config.                                                *)

(* Every file but the blamed ones belongs to version v.                    *)
ConfigOf(v) == \A f \in Configs \ blamed : config[f] = v

ConfigInv ==
  /\ rpc = "copy" =>
       unrecorded /\ \A f \in Configs \ (uncopied \cup blamed) : config[f] = fw
  /\ ~unrecorded /\ verInfo \in Versions => ConfigOf(verInfo)
  /\ rpc \in {"db", "compare"} /\ unrecorded /\ verInfo = fw => Configs \subseteq blamed
  /\ rpc \in {"mbn", "flag", "end"} => ConfigOf(fw)
  /\ rpc \in {"flag", "end"} /\ Mbn \notin blamed => config[Mbn] = fw
  /\ copy_complete => rpc \in {"end", "down"}
  /\ ConfigWhole

LEMMA StepConfig ==
  ASSUME RadioData, ConfigInv, RadioStep
  PROVE  ConfigInv'
<1>. USE FilesAssumption, VersionsAssumption
     DEF RadioData, ConfigInv, ConfigOf, ConfigWhole, history
<1>1. CASE CopyQcril
  BY <1>1 DEF CopyQcril
<1>2. CASE Compare
  BY <1>2 DEF Compare, NewFirmware
<1>3. CASE RemoveConfig
  BY <1>3 DEF RemoveConfig
<1>4. CASE CopyConfig
  BY <1>4 DEF CopyConfig, Files
<1>5. CASE CopyVerInfo
  BY <1>5 DEF CopyVerInfo
<1>6. CASE CopyMbn
  BY <1>6 DEF CopyMbn, Files
<1>7. CASE SetFlag
  BY <1>7 DEF SetFlag, Files
<1>8. QED
  BY <1>1, <1>2, <1>3, <1>4, <1>5, <1>6, <1>7 DEF RadioStep

LEMMA PowerConfig ==
  ASSUME RadioData, ConfigInv, RadioPowerCut \/ (\E v \in Versions : RadioBoot(v))
  PROVE  ConfigInv'
<1>. USE FilesAssumption, VersionsAssumption
     DEF RadioData, ConfigInv, ConfigOf, ConfigWhole, history
<1>1. CASE \E v \in Versions : RadioBoot(v)
  BY <1>1 DEF RadioBoot
<1>2. CASE RadioPowerCut
  BY <1>2 DEF RadioPowerCut, CutShort, Files
<1>3. QED
  BY <1>1, <1>2

-----------------------------------------------------------------------------
(* The fingerprint script.                                                 *)

ScriptPCs == {"off", "sleep", "decide", "exit"}

ScriptType == /\ fps_hal \in States /\ fps_svc_state \in States
              /\ succeed \in {"unset", "false", "true"}
              /\ events \in Seq(Changes)
              /\ fpc \in ScriptPCs
              /\ init_retry_count \in 0 .. max_times

(* The first start of a boot is still to come.                             *)
BootPending == events # << >> /\ Head(events) = "boot_completed"

GivenUp == succeed = "false" /\ init_retry_count = max_times

(* A service that ended is noticed: by a change that will start the        *)
(* script, or by the script that runs.                                     *)
DeathInv ==
  /\ BootPending => fpc = "off"
  /\ fpc \in {"sleep", "decide"} /\ init_retry_count > 0 => succeed = "false"
  /\ fpc = "exit" /\ succeed = "true" => fps_svc_state = "running"
  /\ fpc \in {"exit", "off"} => succeed = "true" \/ BootPending \/ GivenUp
  /\ fps_hal = "stopped" =>
       \/ BootPending
       \/ events # << >> /\ succeed = "true"
       \/ fpc \in {"sleep", "decide"}
       \/ GivenUp
       \/ missed

(* Nothing but the start of power puts boot_completed into the queue.      *)
QueueInv == \A i \in 2 .. Len(events) : events[i] # "boot_completed"

LEMMA Appended ==
  ASSUME NEW q \in Seq(Changes), NEW e \in {"succeed", "fps_hal"},
         \A i \in 2 .. Len(q) : q[i] # "boot_completed"
  PROVE  /\ Append(q, e) \in Seq(Changes) /\ Append(q, e) # << >>
         /\ Head(Append(q, e)) = "boot_completed" <=> q # << >> /\ Head(q) = "boot_completed"
         /\ \A i \in 2 .. Len(Append(q, e)) : Append(q, e)[i] # "boot_completed"
<1>. DEFINE r == Append(q, e)
<1>1. e \in Changes /\ e # "boot_completed"
  BY DEF Changes
<1>2. /\ r \in Seq(Changes) /\ Len(r) = Len(q) + 1 /\ r[Len(q) + 1] = e
      /\ \A i \in 1 .. Len(q) : r[i] = q[i]
  BY <1>1
<1>. HIDE DEF r
<1>3. Len(q) \in Nat /\ r # << >> /\ Head(r) = r[1]
  BY <1>2
<1>4. \A i \in 2 .. Len(r) : r[i] # "boot_completed"
  BY <1>1, <1>2, <1>3
<1>5. CASE q = << >>
  <2>1. Len(q) = 0 /\ r[1] = e
    BY <1>2, <1>5
  <2>2. QED
    BY <1>1, <1>2, <1>3, <1>4, <1>5, <2>1 DEF r
<1>6. CASE q # << >>
  <2>1. Len(q) >= 1 /\ Head(q) = q[1]
    BY <1>6
  <2>2. Head(r) = Head(q)
    BY <1>2, <1>3, <2>1
  <2>3. QED
    BY <1>2, <1>3, <1>4, <1>6, <2>2 DEF r
<1>7. QED
  BY <1>5, <1>6

LEMMA Popped ==
  ASSUME NEW q \in Seq(Changes), q # << >>, \A i \in 2 .. Len(q) : q[i] # "boot_completed"
  PROVE  /\ Tail(q) \in Seq(Changes)
         /\ Tail(q) # << >> => Head(Tail(q)) # "boot_completed"
         /\ \A i \in 2 .. Len(Tail(q)) : Tail(q)[i] # "boot_completed"
<1>. DEFINE r == Tail(q)
<1>1. /\ r \in Seq(Changes) /\ Len(r) = Len(q) - 1 /\ Len(q) \in Nat \ {0}
      /\ \A i \in 1 .. Len(r) : r[i] = q[i + 1]
  OBVIOUS
<1>. HIDE DEF r
<1>2. \A i \in 1 .. Len(r) : r[i] # "boot_completed"
  BY <1>1
<1>3. r # << >> => 1 \in 1 .. Len(r) /\ Head(r) = r[1]
  BY <1>1
<1>4. \A i \in 2 .. Len(r) : i \in 1 .. Len(r)
  BY <1>1
<1>5. QED
  BY <1>1, <1>2, <1>3, <1>4 DEF r

LEMMA ScriptSteps ==
  ASSUME ScriptType, QueueInv, DeathInv, Script \/ Dies \/ Restarts
  PROVE  ScriptType' /\ QueueInv' /\ DeathInv'
<1>. USE MaxTimesAssumption DEF States, ScriptType, DeathInv, ScriptPCs, GivenUp
<1>1. CASE UNCHANGED events
  <2>1. (BootPending' <=> BootPending) /\ QueueInv'
    BY <1>1 DEF BootPending, QueueInv
  <2>2. CASE Sample
    BY <2>1, <2>2 DEF Sample
  <2>3. CASE Retry
    BY <2>1, <2>3 DEF Retry, Start
  <2>4. CASE GiveUp
    BY <2>1, <2>4 DEF GiveUp
  <2>5. CASE Reap
    BY <2>1, <2>5 DEF Reap
  <2>6. CASE Again
    BY <2>1, <2>6 DEF Again
  <2>7. CASE Restarts
    BY <2>1, <2>7 DEF Restarts
  <2>8. ~Succeed /\ ~Dies
    <3>1. Succeed \/ Dies => Len(events') = Len(events) + 1
      BY DEF Succeed, Dies, Changes
    <3>2. Len(events) \in Nat
      OBVIOUS
    <3>3. QED
      BY <1>1, <3>1, <3>2
  <2>9. QED
    BY <2>2, <2>3, <2>4, <2>5, <2>6, <2>7, <2>8 DEF Script
<1>2. CASE \E e \in {"succeed", "fps_hal"} : events' = Append(events, e)
  <2>1. /\ events' \in Seq(Changes) /\ events' # << >>
        /\ BootPending' <=> BootPending
        /\ QueueInv'
    BY <1>2, Appended DEF BootPending, QueueInv
  <2>2. CASE Succeed
    BY <2>1, <2>2 DEF Succeed
  <2>3. CASE Dies
    BY <2>1, <2>3 DEF Dies
  <2>4. CASE Sample \/ Retry \/ GiveUp \/ Again \/ Reap \/ Restarts
    BY <1>1, <2>4 DEF Sample, Retry, GiveUp, Again, Reap, Restarts
  <2>5. QED
    BY <2>2, <2>3, <2>4 DEF Script
<1>3. QED
  BY <1>1, <1>2 DEF Script, Sample, Retry, GiveUp, Again, Reap, Succeed, Dies, Restarts

LEMMA TriggerSteps ==
  ASSUME ScriptType, QueueInv, DeathInv, Trigger
  PROVE  ScriptType' /\ QueueInv' /\ DeathInv'
<1>1. events' \in Seq(Changes) /\ QueueInv' /\ ~BootPending'
  BY Popped DEF Trigger, ScriptType, QueueInv, BootPending
<1>2. UNCHANGED <<fps_hal, succeed, fps_svc_state>> /\ events # << >>
  BY DEF Trigger
<1>3. CASE Triggers(Head(events)) /\ fpc = "off"
  <2>1. fpc' = "sleep" /\ init_retry_count' = 0 /\ missed' = FALSE
    BY <1>3 DEF Trigger, StartScript
  <2>2. QED
    BY <1>1, <1>2, <2>1, MaxTimesAssumption DEF ScriptType, DeathInv, ScriptPCs, GivenUp
<1>4. CASE Triggers(Head(events)) /\ fpc # "off"
  <2>1. ~BootPending
    BY <1>4 DEF DeathInv
  <2>2. UNCHANGED <<fpc, init_retry_count>>
    BY <1>4 DEF Trigger, StartScript
  <2>3. missed' = (missed \/ (fpc = "exit" /\ fps_svc_state = "running"))
    BY <1>4 DEF Trigger, StartScript
  <2>4. fpc = "exit" => missed' \/ GivenUp
    BY <2>1, <2>3 DEF DeathInv
  <2>5. missed => missed'
    BY <2>3
  <2>6. QED
    BY <1>1, <1>2, <1>4, <2>1, <2>2, <2>4, <2>5 DEF ScriptType, DeathInv, ScriptPCs, GivenUp
<1>5. CASE ~Triggers(Head(events))
  <2>1. ~BootPending /\ ~(succeed = "true" /\ fps_hal = "stopped")
    <3>1. Head(events) \in Changes
      BY <1>2 DEF ScriptType
    <3>2. QED
      BY <1>5, <3>1 DEF BootPending, Triggers, Changes
  <2>2. UNCHANGED <<fpc, init_retry_count, missed>>
    BY <1>5 DEF Trigger
  <2>3. QED
    BY <1>1, <1>2, <2>1, <2>2 DEF ScriptType, DeathInv, ScriptPCs, GivenUp
<1>6. QED
  BY <1>3, <1>4, <1>5

LEMMA CutScript ==
  ASSUME FingerprintCut
  PROVE  ScriptType' /\ QueueInv' /\ fps_hal' = "other"
<1>1. << >> \in Seq(Changes) /\ Len(<< >>) = 0
  OBVIOUS
<1>2. QED
  BY <1>1, MaxTimesAssumption DEF FingerprintCut, States, ScriptType, QueueInv, ScriptPCs

LEMMA FreshScript ==
  ASSUME FingerprintBoot
  PROVE  ScriptType' /\ QueueInv' /\ DeathInv'
<1>1. <<"boot_completed">> \in Seq(Changes) /\ Len(<<"boot_completed">>) = 1
      /\ Head(<<"boot_completed">>) = "boot_completed"
  BY DEF Changes
<1>2. QED
  BY <1>1, MaxTimesAssumption
     DEF FingerprintBoot, States, ScriptType, QueueInv, DeathInv, ScriptPCs, BootPending, GivenUp

-----------------------------------------------------------------------------
(* Both scripts.                                                           *)

Inv == /\ RadioFlags /\ RadioData /\ ConfigInv /\ ScriptType /\ QueueInv
       /\ On => DeathInv
       /\ ~On => fps_hal = "other"

LEMMA RadioFrame == Inv /\ UNCHANGED radioVars => (RadioFlags /\ RadioData /\ ConfigInv)'
BY DEF Inv, radioVars, RadioFlags, RadioData, ConfigInv, ConfigOf, ConfigWhole

LEMMA FingerprintFrame ==
  ASSUME Inv, UNCHANGED fingerprintVars
  PROVE  ScriptType' /\ QueueInv' /\ (DeathInv => DeathInv')
<1>1. UNCHANGED <<fps_hal, succeed, events, fpc, init_retry_count, fps_svc_state>>
      /\ (missed' <=> missed)
  BY DEF fingerprintVars
<1>2. (BootPending' <=> BootPending) /\ (GivenUp' <=> GivenUp)
  BY <1>1 DEF BootPending, GivenUp
<1>3. QED
  BY <1>1, <1>2 DEF Inv, ScriptType, QueueInv, DeathInv

LEMMA InitInv == Init => Inv
<1>. SUFFICES ASSUME Init PROVE Inv
  OBVIOUS
<1>1. RadioFlags
  BY DEF Init, RadioInit, RadioFlags
<1>2. RadioData
  BY DEF Init, RadioInit, RadioData, RadioPCs, Contents
<1>3. ConfigInv
  BY VersionsAssumption DEF Init, RadioInit, ConfigInv, ConfigOf, ConfigWhole
<1>4. << >> \in Seq(Changes) /\ Len(<< >>) = 0
  OBVIOUS
<1>5. ScriptType /\ QueueInv /\ fps_hal = "other" /\ ~On
  BY <1>4, MaxTimesAssumption
     DEF Init, FingerprintInit, RadioInit, On, States, ScriptType, QueueInv, ScriptPCs
<1>6. QED
  BY <1>1, <1>2, <1>3, <1>5 DEF Inv

LEMMA StepInv == Inv /\ [Next]_vars => Inv'
<1>. SUFFICES ASSUME Inv, [Next]_vars PROVE Inv'
  OBVIOUS
<1>1. CASE Boot
  <2>1. FingerprintBoot /\ \E v \in Versions : RadioBoot(v)
    BY <1>1 DEF Boot
  <2>2. On'
    BY <2>1 DEF RadioBoot, On
  <2>3. QED
    BY <2>1, <2>2, FlagsKept, DataKept, PowerConfig, FreshScript DEF Inv
<1>2. CASE PowerCut
  <2>1. RadioPowerCut /\ FingerprintCut /\ ~On'
    BY <1>2 DEF PowerCut, RadioPowerCut, On
  <2>2. QED
    BY <2>1, FlagsKept, DataKept, PowerConfig, CutScript DEF Inv
<1>3. CASE Radio
  <2>1. RadioStep /\ UNCHANGED fingerprintVars
    BY <1>3 DEF Radio
  <2>2. On /\ On'
    BY <2>1 DEF On, RadioStep, CopyQcril, Compare, RemoveConfig, CopyConfig, CopyVerInfo, CopyMbn,
       SetFlag
  <2>3. QED
    BY <2>1, <2>2, FlagsKept, DataKept, StepConfig, FingerprintFrame DEF Inv
<1>4. CASE Fingerprint \/ Service
  <2>1. On /\ (FingerprintStep \/ Dies \/ Restarts) /\ UNCHANGED radioVars
    BY <1>4 DEF Fingerprint, Service
  <2>2. On'
    BY <2>1 DEF On, radioVars
  <2>3. QED
    BY <2>1, <2>2, RadioFrame, ScriptSteps, TriggerSteps DEF FingerprintStep, Inv
<1>5. CASE UNCHANGED vars
  <2>1. UNCHANGED radioVars /\ UNCHANGED fingerprintVars
    BY <1>5 DEF vars
  <2>2. (On' <=> On) /\ fps_hal' = fps_hal
    BY <2>1 DEF On, radioVars, fingerprintVars
  <2>3. QED
    BY <2>1, <2>2, RadioFrame, FingerprintFrame DEF Inv
<1>6. QED
  BY <1>1, <1>2, <1>3, <1>4, <1>5 DEF Next

(* missed is a truth value.                                                *)
LEMMA MissedType == missed \in BOOLEAN /\ [Next]_vars => missed' \in BOOLEAN
<1>. SUFFICES ASSUME missed \in BOOLEAN, [Next]_vars PROVE missed' \in BOOLEAN
  OBVIOUS
<1>1. CASE UNCHANGED missed
  BY <1>1
<1>2. CASE FingerprintBoot \/ FingerprintCut
  BY <1>2 DEF FingerprintBoot, FingerprintCut
<1>3. CASE Trigger
  BY <1>3 DEF Trigger, StartScript
<1>4. QED
  BY <1>1, <1>2, <1>3
     DEF Next, Boot, PowerCut, Radio, Fingerprint, FingerprintStep, Service, Script, Sample,
         Retry, GiveUp, Succeed, Again, Reap, Dies, Restarts, fingerprintVars, vars

LEMMA InvHolds == Spec => []Inv
BY InitInv, StepInv, PTL DEF Spec

(* Every variable of both scripts keeps its type.                          *)
THEOREM TypeCorrect == Spec => []TypeOK
<1>1. Inv /\ missed \in BOOLEAN => TypeOK
  <2>. SUFFICES ASSUME Inv, missed \in BOOLEAN PROVE TypeOK
    OBVIOUS
  <2>1. {mounted, qcril, copy_complete, unrecorded} \subseteq BOOLEAN
    BY Zenon DEF Inv, RadioFlags
  <2>2. {fps_hal, fps_svc_state} \subseteq States
    BY DEF Inv, ScriptType
  <2>3. RadioTypeOK
    BY <2>1 DEF Inv, RadioData, RadioPCs, RadioTypeOK
  <2>4. FingerprintTypeOK
    BY <2>2 DEF Inv, ScriptType, ScriptPCs, FingerprintTypeOK
  <2>5. QED
    BY <2>3, <2>4 DEF TypeOK
<1>. DEFINE M == missed \in BOOLEAN
<1>2. Init => M
  BY DEF Init, FingerprintInit
<1>3. M /\ [Next]_vars => M'
  BY MissedType
<1>4. Inv /\ M => TypeOK
  BY <1>1
<1>. HIDE DEF M
<1>5. QED
  BY <1>2, <1>3, <1>4, InvHolds, PTL DEF Spec

(* When the modem is told that the copy is complete its configuration      *)
(* belongs to the running firmware, but for files whose cp failed or whose *)
(* removal went unrecorded, after any sequence of power cuts and versions. *)
THEOREM ConfigIsWhole == Spec => []ConfigWhole
<1>1. Inv => ConfigWhole
  BY DEF Inv, ConfigInv
<1>2. QED
  BY <1>1, InvHolds, PTL

(* No death of the fingerprint service goes unnoticed, but for a start of  *)
(* the script that meets the end of its last run.                          *)
THEOREM DeathsAreNoticed == Spec => []DeathNoticed
<1>1. Inv => DeathNoticed
  BY DEF Inv, DeathInv, DeathNoticed, BootPending, GivenUp
<1>2. QED
  BY <1>1, InvHolds, PTL

-----------------------------------------------------------------------------
(* The scripts end.                                                        *)

(* The commands the radio script has still to run.                         *)
RadioLeft == CASE rpc = "db" -> 6 + Cardinality(Configs)
               [] rpc = "compare" -> 5 + Cardinality(Configs)
               [] rpc = "remove" -> 4 + Cardinality(Configs)
               [] rpc = "copy" -> 3 + Cardinality(uncopied)
               [] rpc = "mbn" -> 2
               [] rpc = "flag" -> 1
               [] OTHER -> 0

(* The steps the fingerprint script takes at most from now on if it always *)
(* reads "stopped" or "running".                                           *)
ScriptLeft == CASE fpc = "sleep" -> 3 + 2 * (max_times - init_retry_count)
                [] fpc = "decide" -> 2 + 2 * (max_times - init_retry_count)
                [] fpc = "exit" -> 1
                [] OTHER -> 0

(* Every command of a script, failing or not, brings its end nearer, but   *)
(* for the look at a service that is neither running nor stopped: that     *)
(* leads back to where the script was before it.  Nothing else, neither    *)
(* deaths of the service nor init, takes a script back.                    *)
ScriptsDescend ==
  [][/\ RadioStep => RadioLeft' < RadioLeft
     /\ On /\ ~RadioStep => RadioLeft' <= RadioLeft
     /\ Script /\ ~Again => ScriptLeft' < ScriptLeft
     /\ Again => ScriptLeft' = ScriptLeft + 1
     /\ fpc # "off" /\ ~Script => ScriptLeft' <= ScriptLeft]_vars

LEMMA Sizes ==
  /\ Cardinality(Configs) \in Nat
  /\ \A S \in SUBSET Configs : IsFiniteSet(S) /\ Cardinality(S) \in Nat
  /\ \A S \in SUBSET Configs : \A f \in S : Cardinality(S \ {f}) = Cardinality(S) - 1
<1>1. \A S \in SUBSET Configs : IsFiniteSet(S)
  BY FiniteAssumption, FS_Subset
<1> QED
  BY <1>1, FiniteAssumption, FS_CardinalityType, FS_RemoveElement

LEMMA RadioRank ==
  ASSUME RadioData
  PROVE  /\ RadioLeft \in Nat
         /\ RadioStep => RadioLeft' < RadioLeft
<1>1. Cardinality(Configs) \in Nat /\ Cardinality(uncopied) \in Nat
  BY Sizes DEF RadioData
<1>2. RadioLeft \in Nat
  BY <1>1 DEF RadioLeft
<1>3. CASE CopyQcril
  <2>1. rpc = "db" /\ rpc' = "compare"
    BY <1>3 DEF CopyQcril
  <2> QED
    BY <1>1, <2>1 DEF RadioLeft
<1>4. CASE CopyMbn \/ SetFlag
  <2>1. (rpc = "mbn" /\ rpc' = "flag") \/ (rpc = "flag" /\ rpc' = "end")
    BY <1>4 DEF CopyMbn, SetFlag
  <2> QED
    BY <1>1, <2>1 DEF RadioLeft
<1>5. CASE Compare
  BY <1>1, <1>5 DEF Compare, RadioLeft
<1>6. CASE RemoveConfig
  <2>1. rpc = "remove" /\ rpc' = "copy" /\ uncopied' = Configs
    BY <1>6 DEF RemoveConfig
  <2> QED
    BY <1>1, <2>1 DEF RadioLeft
<1>7. CASE CopyConfig
  <2>1. PICK f \in uncopied : uncopied' = uncopied \ {f}
    BY <1>7 DEF CopyConfig
  <2>2. Cardinality(uncopied') = Cardinality(uncopied) - 1
    BY <2>1, Sizes DEF RadioData
  <2>3. rpc = "copy" /\ rpc' = "copy"
    BY <1>7 DEF CopyConfig
  <2> QED
    BY <1>1, <2>2, <2>3 DEF RadioLeft
<1>8. CASE CopyVerInfo
  BY <1>1, <1>8 DEF CopyVerInfo, RadioLeft
<1> QED
  BY <1>2, <1>3, <1>4, <1>5, <1>6, <1>7, <1>8 DEF RadioStep

LEMMA ScriptRank ==
  ASSUME ScriptType
  PROVE  /\ ScriptLeft \in Nat
         /\ Script /\ ~Again => ScriptLeft' < ScriptLeft
         /\ Again => ScriptLeft' = ScriptLeft + 1
<1>1. init_retry_count \in Nat /\ max_times \in Nat /\ init_retry_count <= max_times
  BY MaxTimesAssumption DEF ScriptType
<1>2. ScriptLeft \in Nat
  BY <1>1 DEF ScriptLeft
<1>3. CASE Sample
  <2>1. fpc = "sleep" /\ fpc' = "decide" /\ init_retry_count' = init_retry_count
    BY <1>3 DEF Sample
  <2> QED
    BY <1>1, <2>1 DEF ScriptLeft, Again
<1>4. CASE Retry
  <2>1. /\ fpc = "decide" /\ fpc' = "sleep" /\ init_retry_count' = init_retry_count + 1
        /\ fps_svc_state = "stopped"
    BY <1>4 DEF Retry
  <2> QED
    BY <1>1, <2>1 DEF ScriptLeft, Again
<1>5. CASE GiveUp \/ Succeed \/ Reap
  <2>1. \/ fpc = "decide" /\ fpc' = "exit" /\ fps_svc_state # "other"
        \/ fpc = "exit" /\ fpc' = "off"
    BY <1>5 DEF GiveUp, Succeed, Reap
  <2> QED
    BY <1>1, <2>1 DEF ScriptLeft, Again
<1>6. Again => ScriptLeft' = ScriptLeft + 1
  BY <1>1 DEF Again, ScriptLeft
<1> QED
  BY <1>2, <1>3, <1>4, <1>5, <1>6 DEF Script

(* A step that is none of the radio script's leaves it, or cuts the power. *)
LEMMA RadioLeftAlone ==
  ASSUME Inv, [Next]_vars, On, ~RadioStep
  PROVE  RadioLeft' <= RadioLeft
<1>1. RadioLeft \in Nat
  BY RadioRank DEF Inv
<1>2. CASE PowerCut
  <2>1. RadioLeft' = 0
    BY <1>2 DEF PowerCut, RadioPowerCut, RadioLeft
  <2> QED
    BY <1>1, <2>1
<1>3. CASE UNCHANGED <<rpc, uncopied>>
  <2>1. RadioLeft' = RadioLeft
    BY <1>3 DEF RadioLeft
  <2> QED
    BY <1>1, <2>1
<1> QED
  BY <1>2, <1>3
  DEF Next, Boot, RadioBoot, On, Radio, Fingerprint, Service, radioVars, vars

LEMMA ScriptLeftAlone ==
  ASSUME Inv, [Next]_vars, fpc # "off", ~Script
  PROVE  ScriptLeft' <= ScriptLeft
<1>1. ScriptLeft \in Nat
  BY ScriptRank DEF Inv
<1>2. CASE FingerprintBoot \/ FingerprintCut
  <2>1. ScriptLeft' = 0
    BY <1>2 DEF FingerprintBoot, FingerprintCut, ScriptLeft
  <2> QED
    BY <1>1, <2>1
<1>3. CASE UNCHANGED <<fpc, init_retry_count>>
  <2>1. ScriptLeft' = ScriptLeft
    BY <1>3 DEF ScriptLeft
  <2> QED
    BY <1>1, <2>1
<1> QED
  BY <1>2, <1>3
  DEF Next, Boot, PowerCut, Radio, Fingerprint, FingerprintStep, Trigger, StartScript,
      Service, Dies, Restarts, fingerprintVars, vars

(* ScriptsEnd without its fairness: each script comes nearer to its end    *)
(* with every step it takes, for any number of files and retries, whatever *)
(* fails and whatever the service, init and the other script do meanwhile; *)
(* only a service seen neither running nor stopped holds its script up.    *)
THEOREM ScriptsGoOn == Spec => ScriptsDescend
<1>1. Inv /\ [Next]_vars
      => [/\ RadioStep => RadioLeft' < RadioLeft
          /\ On /\ ~RadioStep => RadioLeft' <= RadioLeft
          /\ Script /\ ~Again => ScriptLeft' < ScriptLeft
          /\ Again => ScriptLeft' = ScriptLeft + 1
          /\ fpc # "off" /\ ~Script => ScriptLeft' <= ScriptLeft]_vars
  BY RadioRank, ScriptRank, RadioLeftAlone, ScriptLeftAlone DEF Inv
<1> QED
  BY <1>1, InvHolds, PTL DEF Spec, ScriptsDescend
=============================================================================
