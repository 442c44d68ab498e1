----------------------------- MODULE RadioScript -----------------------------
(***************************************************************************)
(* init.radio.sh, which init starts once per boot: it brings the modem's   *)
(* database and the configuration that belongs to the running firmware to  *)
(* /data/vendor/radio and remembers the firmware's version in              *)
(* ver_info.txt.  The modem's interface layer waits for the flag           *)
(* copy_complete.  The script tests no result: it goes on after a cp that  *)
(* failed.  Power may be cut at any time.  The device has two slots        *)
(* (fstab.hardware:11 mounts the firmware by slot), so any boot may find   *)
(* another version of the firmware, an older one included.                 *)
(*                                                                         *)
(* What was written before a power cut is taken to be on the disk in the   *)
(* order of the writes: the script does not sync, the file system has to.  *)
(* Of qcril.db only its existence counts, all that the script looks at.    *)
(* qcril_prebuilt.db and db_check_done, which every run writes and no      *)
(* decision of the script reads, are left out.                             *)
(***************************************************************************)
EXTENDS Integers, FiniteSets

CONSTANTS Versions,     \* firmware versions: the contents of ver_info.txt
          Configs,      \* the files under mcfg/configs
          Mbn           \* mbn_ota.txt

ASSUME FilesAssumption == Mbn \notin Configs
ASSUME FiniteAssumption == IsFiniteSet(Configs)

Files == Configs \cup {Mbn}

None == "none"
Torn == "torn"
ASSUME VersionsAssumption == {None, Torn} \cap Versions = {}

Contents == Versions \cup {None, Torn}

VARIABLES
  fw,           \* the version of the running firmware
  mounted,      \* is /vendor/firmware_mnt there?
  qcril,        \* is there a /data/vendor/radio/qcril.db, whole or in part?
  config,       \* config[f]: whose f is in modem_config
  verInfo,      \* /data/vendor/radio/ver_info.txt
  copy_complete,        \* the flag
  rpc,          \* where the script is; "down": no power, "end": it has ended
  uncopied,     \* what its cp -r has still to copy
  unrecorded,   \* modem_config was removed since verInfo was written
  blamed        \* the files that a failed cp, or a version that came back
                \* while modem_config was unrecorded, may have left wrong

history == <<unrecorded, blamed>>
radioVars == <<fw, mounted, qcril, config, verInfo, copy_complete,
               rpc, uncopied, unrecorded, blamed>>

RadioTypeOK ==
  /\ fw \in Versions
  /\ {mounted, qcril, copy_complete, unrecorded} \subseteq BOOLEAN
  /\ config \in [Files -> Contents]
  /\ verInfo \in Contents
  /\ rpc \in {"down", "db", "compare", "remove", "copy", "mbn", "flag", "end"}
  /\ uncopied \subseteq Configs
  /\ blamed \subseteq Files

(* A device without user data.                                             *)
RadioInit == /\ fw \in Versions /\ mounted = FALSE
             /\ qcril = FALSE
             /\ config = [f \in Files |-> None] /\ verInfo = None
             /\ copy_complete = FALSE
             /\ rpc = "down" /\ uncopied = {}
             /\ unrecorded = FALSE /\ blamed = {}

(* init marks the copy as not complete before it starts the script.        *)
RadioBoot(v) == /\ rpc = "down"
                /\ fw' = v /\ mounted' \in BOOLEAN
                /\ copy_complete' = FALSE
                /\ rpc' = "db"
                /\ blamed' = IF unrecorded /\ verInfo = v THEN blamed \cup Configs ELSE blamed
                /\ UNCHANGED <<qcril, config, verInfo, uncopied, unrecorded>>

(* A failing cp leaves its target as it was, or a part of the source.      *)
Partly(old) == {old, Torn}

(* Only if there is none; a failing cp leaves nothing or a part.           *)
CopyQcril == /\ rpc = "db"
             /\ qcril' \in {TRUE, qcril}
             /\ rpc' = "compare"
             /\ UNCHANGED <<fw, mounted, config, verInfo, copy_complete, uncopied, history>>

(* Mutant: a firmware that is not mounted is the version of before.        *)
NewFirmware_mounted == mounted /\ verInfo # fw

NewFirmware == ~mounted \/ verInfo # fw

Compare == /\ rpc = "compare"
           /\ rpc' = IF NewFirmware THEN "remove" ELSE "mbn"
           /\ UNCHANGED <<fw, mounted, qcril, config, verInfo, copy_complete, uncopied, history>>

RemoveConfig == /\ rpc = "remove"
                /\ config' = [f \in Files |-> None]
                /\ uncopied' = Configs
                /\ unrecorded' = TRUE /\ blamed' = {}
                /\ rpc' = "copy"
                /\ UNCHANGED <<fw, mounted, qcril, verInfo, copy_complete>>

(* One file after the other, whichever comes first.                        *)
CopyConfig ==
  /\ rpc = "copy"
  /\ \E f \in uncopied :
       /\ uncopied' = uncopied \ {f}
       /\ \/ mounted /\ config' = [config EXCEPT ![f] = fw] /\ UNCHANGED blamed
          \/ /\ \E c \in Partly(None) : config' = [config EXCEPT ![f] = c]
             /\ blamed' = blamed \cup {f}
  /\ UNCHANGED <<fw, mounted, qcril, verInfo, copy_complete, rpc, unrecorded>>

CopyVerInfo == /\ rpc = "copy" /\ uncopied = {}
               /\ \/ mounted /\ verInfo' = fw /\ unrecorded' = FALSE
                  \/ verInfo' \in Partly(verInfo) /\ UNCHANGED unrecorded
               /\ rpc' = "mbn"
               /\ UNCHANGED <<fw, mounted, qcril, config, copy_complete, uncopied, blamed>>

CopyMbn == /\ rpc = "mbn"
           /\ \/ /\ mounted /\ config' = [config EXCEPT ![Mbn] = fw]
                 /\ blamed' = blamed \ {Mbn}
              \/ /\ \E c \in Partly(config[Mbn]) : config' = [config EXCEPT ![Mbn] = c]
                 /\ blamed' = blamed \cup {Mbn}
           /\ rpc' = "flag"
           /\ UNCHANGED <<fw, mounted, qcril, verInfo, copy_complete, uncopied, unrecorded>>

(* An echo can fail like a cp; the script has ended all the same.          *)
SetFlag == /\ rpc = "flag"
           /\ copy_complete' \in BOOLEAN
           /\ rpc' = "end"
           /\ UNCHANGED <<fw, mounted, qcril, config, verInfo, uncopied, history>>

RadioStep == \/ CopyQcril \/ Compare \/ RemoveConfig \/ CopyConfig
             \/ CopyVerInfo \/ CopyMbn \/ SetFlag

(* What the command under way when power is cut leaves: a part of a file,  *)
(* or of a directory, or the state before or after it.                     *)
CutShort ==
  \/ UNCHANGED <<qcril, config, verInfo>>
  \/ rpc = "db" /\ qcril' = TRUE /\ UNCHANGED <<config, verInfo>>
  \/ /\ rpc = "remove"
     /\ \E gone \in SUBSET Files : config' = [f \in Files |-> IF f \in gone THEN None ELSE config[f]]
     /\ UNCHANGED <<qcril, verInfo>>
  \/ /\ rpc = "copy"
     /\ \E f \in uncopied : config' = [config EXCEPT ![f] = Torn]
     /\ UNCHANGED <<qcril, verInfo>>
  \/ rpc = "copy" /\ uncopied = {} /\ verInfo' = Torn /\ UNCHANGED <<qcril, config>>
  \/ rpc = "mbn" /\ config' = [config EXCEPT ![Mbn] = Torn] /\ UNCHANGED <<qcril, verInfo>>

RadioPowerCut == /\ rpc # "down"
                 /\ CutShort
                 /\ unrecorded' = (unrecorded \/ rpc = "remove")
                 /\ rpc' = "down" /\ uncopied' = {} /\ mounted' = FALSE
                 /\ UNCHANGED <<fw, copy_complete, blamed>>

-----------------------------------------------------------------------------
(* copy_complete tells the truth after any number of interrupted boots and *)
(* changes of the firmware: modem_config holds the files of the running    *)
(* firmware, except a file whose cp failed, and except when the version    *)
(* that ver_info.txt names comes back after its files were removed.        *)
ConfigWhole == copy_complete => \A f \in Files \ blamed : config[f] = fw
=============================================================================
