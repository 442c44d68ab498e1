------------------------------ MODULE GptUpdate ------------------------------
(***************************************************************************)
(* The fail-safe update of the boot-critical partitions                    *)
(* (gpt-utils/gpt-utils.cpp: prepare_boot_update, prepare_partitions and   *)
(* the functions under them).  An update calls prepare_boot_update with    *)
(* UPDATE_MAIN, UPDATE_BACKUP and UPDATE_FINALIZE; each call walks the     *)
(* LUNs that hold critical images and, by durable writes of single blocks  *)
(* and of the entries array, steers the boot loader to one of the copies.  *)
(* Power may fail between any two writes, and any read or write may fail.  *)
(*                                                                         *)
(* Not under src/, modelled from how this code serves them: the boot       *)
(* loader (it uses the primary GPT when it is valid, else the secondary,   *)
(* see the comments at gpt-utils.cpp:855 and :881) and the updater, which  *)
(* rewrites only the copies the last successful call released.             *)
(***************************************************************************)
EXTENDS Integers

CONSTANTS
  NumLuns,      \* LUNs found by prepare_boot_update, numbered in list order
  Twin,         \* the LUNs where some critical partition has a "bak" entry
  UsesXbl,      \* both XBL_PRIMARY and XBL_BACKUP exist on a UFS device
  ShortWrites   \* write(2) may stop early and report fewer bytes

Luns == 1 .. NumLuns

ASSUME ConstantsAssumption ==
  /\ NumLuns \in Nat
  /\ Twin \subseteq Luns
  /\ UsesXbl \in BOOLEAN
  /\ ShortWrites \in BOOLEAN

(* enum boot_update_stage; no_stage stands for "no call is running".       *)
no_stage == 0
UPDATE_MAIN == 1
UPDATE_BACKUP == 2
UPDATE_FINALIZE == 3

Stages == {UPDATE_MAIN, UPDATE_BACKUP, UPDATE_FINALIZE}

PRIMARY_GPT == "PRIMARY_GPT"
SECONDARY_GPT == "SECONDARY_GPT"
Instances == {PRIMARY_GPT, SECONDARY_GPT}
HeaderStates == {"GPT_OK", "GPT_BAD_SIGNATURE", "GPT_BAD_CRC"}

(* Where the critical names of an entries array lead: "normal" to the      *)
(* primary copies, "backup" to the backup ones; "torn" is half-written.    *)
Tables == {"normal", "backup"}
Arrays == Tables \cup {"torn"}

Copies == {"primary", "backup"}
Images == {"old", "new", "partial"}

Xbl == 0        \* the unit of the xbl images, which live on boot LUNs A and B
Units == Luns \cup (IF UsesXbl THEN {Xbl} ELSE {})

VARIABLES
  gpt,          \* gpt[l][g]: header state, array CRC in the header, entries
  bootLun,      \* the UFS attribute bBootLunEn: LUN "A" or "B"
  image,        \* image[u][c]: what copy c of unit u holds
  pc,           \* where prepare_boot_update is
  stage,        \* its argument
  lun,          \* its index i into lun_list
  isError,      \* its is_error
  granted       \* the copy the last call released to the updater, or "none"

disk == <<gpt, bootLun, image>>
call == <<pc, stage, lun, isError, granted>>
vars == <<gpt, bootLun, image, pc, stage, lun, isError, granted>>

PCs == {"idle", "check", "bootlun", "header", "entries", "primary", "secondary"}

Header == [state : HeaderStates, crc : Tables, entries : Arrays]
Disks == [Luns -> [Instances -> Header]]

TypeOK == /\ gpt \in Disks
          /\ bootLun \in {"A", "B"}
          /\ image \in [Units -> [Copies -> Images]]
          /\ pc \in PCs
          /\ stage \in Stages \cup {no_stage}
          /\ lun \in 1 .. (NumLuns + 1)
          /\ isError \in BOOLEAN
          /\ granted \in Copies \cup {"none"}

-----------------------------------------------------------------------------
(* What the boot loader makes of the disk.                                 *)

ArrayValid(h) == h.entries = h.crc
Valid(h) == h.state = "GPT_OK" /\ ArrayValid(h)

CopyOf(table) == IF table = "normal" THEN "primary" ELSE "backup"

Selected(l) ==
  IF Valid(gpt[l][PRIMARY_GPT]) THEN CopyOf(gpt[l][PRIMARY_GPT].entries)
  ELSE IF Valid(gpt[l][SECONDARY_GPT]) THEN CopyOf(gpt[l][SECONDARY_GPT].entries)
  ELSE "none"

SelectedXbl == IF bootLun = "A" THEN "primary" ELSE "backup"

Running(u) == IF u = Xbl THEN SelectedXbl ELSE Selected(u)

CopiesComplete(c) == \A u \in Units : image[u][c] # "partial"

-----------------------------------------------------------------------------
(* A device as an update finds it: both tables lead to the primary copies, *)
(* and at most one of the two is damaged (by wear, or by a gpt_disk_commit *)
(* that power interrupted).                                                *)

Sound == [state |-> "GPT_OK", crc |-> "normal", entries |-> "normal"]
Damaged == {[Sound EXCEPT !.state = "GPT_BAD_CRC"], [Sound EXCEPT !.entries = "torn"]}

Tables0(p, s) == [g \in Instances |-> IF g = PRIMARY_GPT THEN p ELSE s]

FoundTables == {Tables0(Sound, Sound)} \cup {Tables0(d, Sound) : d \in Damaged}
                 \cup {Tables0(Sound, d) : d \in Damaged}

Init ==
  /\ gpt \in [Luns -> FoundTables]
  /\ bootLun = "A"
  /\ image = [u \in Units |-> [c \in Copies |-> "old"]]
  /\ pc = "idle" /\ stage = no_stage /\ lun = 1 /\ isError = FALSE
  /\ granted = "none"

-----------------------------------------------------------------------------
(* prepare_boot_update.                                                    *)

(* The updater's part of the contract: it leaves a copy to the boot chain  *)
(* only when that copy is complete.                                        *)
MayCall(s) == /\ s = UPDATE_BACKUP => CopiesComplete("primary")
              /\ s = UPDATE_FINALIZE => CopiesComplete("backup")

Call(s) ==
  /\ pc = "idle"
  /\ MayCall(s)
  /\ pc' = "check" /\ stage' = s /\ lun' = 1 /\ isError' = FALSE
  /\ granted' = "none"
  /\ UNCHANGED disk

(* Mutants: the loop skips a LUN; the last LUN alone decides the result.   *)
LunDone_skips(failed) ==
  /\ pc' = "check" /\ lun' = lun + 2
  /\ isError' = IF failed THEN TRUE ELSE isError
  /\ UNCHANGED <<stage, granted>>

LunDone_last(failed) ==
  /\ pc' = "check" /\ lun' = lun + 1
  /\ isError' = failed
  /\ UNCHANGED <<stage, granted>>

(* prepare_partitions returned for this LUN; the loop goes on either way.  *)
LunDone(failed) ==
  /\ pc' = "check" /\ lun' = lun + 1
  /\ isError' = IF failed THEN TRUE ELSE isError
  /\ UNCHANGED <<stage, granted>>

GoTo(label) == pc' = label /\ UNCHANGED <<stage, lun, isError, granted>>

Released == CASE stage = UPDATE_MAIN -> "primary"
              [] stage = UPDATE_BACKUP -> "backup"
              [] OTHER -> "none"

Return ==
  /\ pc = "check" /\ lun > NumLuns
  /\ granted' = IF isError THEN "none" ELSE Released
  /\ pc' = "idle" /\ stage' = no_stage /\ lun' = 1 /\ isError' = FALSE
  /\ UNCHANGED disk

(* The stage the two header states stand for; no_stage when they are       *)
(* unexpected.                                                             *)
InternalStage(l) ==
  LET p == gpt[l][PRIMARY_GPT].state
      s == gpt[l][SECONDARY_GPT].state
  IN  CASE p = "GPT_OK" /\ s = "GPT_OK"            -> UPDATE_MAIN
        [] p = "GPT_BAD_SIGNATURE" /\ s = "GPT_OK" -> UPDATE_BACKUP
        [] p = "GPT_OK" /\ s = "GPT_BAD_SIGNATURE" -> UPDATE_FINALIZE
        [] OTHER                                   -> no_stage

(* Mutant: the secondary header is spoilt before the primary is whole.     *)
FirstWrite_swapped == IF stage = UPDATE_BACKUP THEN "secondary" ELSE "header"

FirstWrite == IF stage = UPDATE_BACKUP THEN "primary" ELSE "header"

(* Mutant: a stage that is already set is an unexpected stage.             *)
AlreadySet_never(internal) == FALSE

AlreadySet(internal) == internal # no_stage /\ stage = internal - 1

CheckStage ==
  /\ pc = "check" /\ lun \in Luns
  /\ LET internal == InternalStage(lun) IN
       \/ AlreadySet(internal) /\ LunDone(FALSE)
       \/ stage # internal /\ ~AlreadySet(internal) /\ LunDone(TRUE)
       \/ /\ stage = internal
          /\ GoTo(IF UsesXbl /\ stage # UPDATE_FINALIZE THEN "bootlun" ELSE FirstWrite)
  /\ UNCHANGED disk

(* Mutant: the boot LUN is never switched back.                            *)
BootLunOf_stays(s) == "B"

BootLunOf(s) == IF s = UPDATE_MAIN THEN "B" ELSE "A"

(* gpt_utils_set_xbl_boot_partition                                        *)
SetBootLun ==
  /\ pc = "bootlun"
  /\ bootLun' = BootLunOf(stage)
  /\ GoTo(FirstWrite)
  /\ UNCHANGED <<gpt, image>>

(* gpt2_set_boot_chain: the primary entries, with the twins swapped for    *)
(* UPDATE_MAIN, become the secondary ones; their CRC goes to the secondary *)
(* header first, the entries follow.  A LUN without twins has nothing to   *)
(* swap: nothing is written and no error is reported.                      *)
Swapped(table) == IF table = "normal" THEN "backup" ELSE "normal"

(* Mutant: the secondary table still leads to the primary copies.          *)
ChainEntries_unswapped(l) == gpt[l][PRIMARY_GPT].entries

ChainEntries(l) ==
  LET read == gpt[l][PRIMARY_GPT].entries
  IN  IF stage = UPDATE_MAIN THEN Swapped(read) ELSE read

(* Mutant: backup_not_found is not looked at.                              *)
ChainHasTwins_ignored(l) == TRUE

ChainHasTwins(l) == stage = UPDATE_MAIN => l \in Twin

PutHeaderCrc(l) == /\ ArrayValid(gpt[l][PRIMARY_GPT]) /\ ChainHasTwins(l)
                   /\ gpt' = [gpt EXCEPT ![l][SECONDARY_GPT].crc = ChainEntries(l)]

PutEntries(l, e) == gpt' = [gpt EXCEPT ![l][SECONDARY_GPT].entries = e]

WriteHeader ==
  /\ pc = "header"
  /\ \/ ~ArrayValid(gpt[lun][PRIMARY_GPT]) /\ LunDone(TRUE) /\ UNCHANGED gpt
     \/ /\ ArrayValid(gpt[lun][PRIMARY_GPT]) /\ ~ChainHasTwins(lun)
        /\ LunDone(FALSE) /\ UNCHANGED gpt
     \/ PutHeaderCrc(lun) /\ GoTo("entries")
  /\ UNCHANGED <<bootLun, image>>

WriteEntries ==
  /\ pc = "entries"
  /\ \E e \in {ChainEntries(lun)} \cup (IF ShortWrites THEN {"torn"} ELSE {}) :
       PutEntries(lun, e)
  /\ GoTo(IF stage = UPDATE_MAIN THEN "primary" ELSE "secondary")
  /\ UNCHANGED <<bootLun, image>>

(* gpt_set_state(fd, instance, state)                                      *)
PutState(l, g, st) == gpt' = [gpt EXCEPT ![l][g].state = st]

PutPrimary(l) == PutState(l, PRIMARY_GPT,
                   IF stage = UPDATE_MAIN THEN "GPT_BAD_SIGNATURE" ELSE "GPT_OK")

PutSecondary(l) == PutState(l, SECONDARY_GPT,
                     IF stage = UPDATE_BACKUP THEN "GPT_BAD_SIGNATURE" ELSE "GPT_OK")

SetPrimary ==
  /\ pc = "primary"
  /\ PutPrimary(lun)
  /\ IF stage = UPDATE_MAIN THEN LunDone(FALSE) ELSE GoTo("secondary")
  /\ UNCHANGED <<bootLun, image>>

SetSecondary ==
  /\ pc = "secondary"
  /\ PutSecondary(lun)
  /\ LunDone(FALSE)
  /\ UNCHANGED <<bootLun, image>>

(* An open, ioctl, read, write or fsync of the step fails: the write of    *)
(* that step did not happen, happened (only its fsync failed) or, for the  *)
(* entries, happened in part.  prepare_partitions returns an error.        *)
IoError ==
  /\ pc # "idle" /\ lun \in Luns
  /\ \/ UNCHANGED gpt
     \/ pc = "header" /\ PutHeaderCrc(lun)
     \/ pc = "entries" /\ \E e \in {ChainEntries(lun), "torn"} : PutEntries(lun, e)
     \/ pc = "primary" /\ PutPrimary(lun)
     \/ pc = "secondary" /\ PutSecondary(lun)
  /\ LunDone(TRUE)
  /\ UNCHANGED <<bootLun, image>>

-----------------------------------------------------------------------------
(* Power fails: the call and what it released are gone, the disk stays.    *)
(* The write under way may have reached the disk (the crash after it), not *)
(* at all (the crash before it) or, for the entries, in part.              *)
Crash ==
  /\ \/ UNCHANGED gpt
     \/ pc = "entries" /\ PutEntries(lun, "torn")
  /\ pc' = "idle" /\ stage' = no_stage /\ lun' = 1 /\ isError' = FALSE
  /\ granted' = "none"
  /\ UNCHANGED <<bootLun, image>>

(* The updater rewrites a released copy: first it is incomplete, then new. *)
Flash(u, i) ==
  /\ pc = "idle" /\ granted # "none"
  /\ image[u][granted] # i
  /\ image' = [image EXCEPT ![u][granted] = i]
  /\ UNCHANGED <<gpt, bootLun>> /\ UNCHANGED call

Step == CheckStage \/ SetBootLun \/ WriteHeader \/ WriteEntries
          \/ SetPrimary \/ SetSecondary

Next == \/ \E s \in Stages : Call(s)
        \/ Step \/ Return \/ IoError
        \/ Crash
        \/ \E u \in Units, i \in {"partial", "new"} : Flash(u, i)

Spec == Init /\ [][Next]_vars

-----------------------------------------------------------------------------
(* Properties.                                                             *)

(* Whatever call, failure or power cut came before, the boot loader finds  *)
(* a table on every LUN with twins, and the copy it leads to is complete:  *)
(* the purpose of the write order in gpt2_set_boot_chain and               *)
(* prepare_partitions.                                                     *)
Bootable == \A l \in Twin : /\ Selected(l) \in Copies
                            /\ image[l][Selected(l)] # "partial"

(* A call that returned 0 released only copies the GPTs do not lead to, on *)
(* every LUN with twins and not only on the one prepared last.             *)
ReleasedNotRunning ==
  granted # "none" => \A l \in Twin : Selected(l) # granted

IsDamaged(l) == \/ \E g \in Instances : gpt[l][g].state = "GPT_BAD_CRC"
                \/ ~ArrayValid(gpt[l][PRIMARY_GPT])

(* A LUN whose header CRC is wrong, or whose primary entries do not match  *)
(* their CRC, is left as it was found, and so is one without twins ("No    *)
(* backup partitions - do not corrupt GPT", gpt-utils.cpp:849): no stage   *)
(* and no failure may write to them.                                       *)
UnfitUntouched ==
  [][\A l \in Luns : IsDamaged(l) \/ l \notin Twin => gpt'[l] = gpt[l]]_vars

(* The abstract fail-safe update this protocol implements on its LUNs.     *)
Abstract == INSTANCE FailsafeUpdate WITH
              Units <- Twin,
              image <- [l \in Twin |-> image[l]],
              selected <- [l \in Twin |-> Selected(l)]

(* Every step of the code is a switch to a complete copy, a write to the   *)
(* copy that is not running, or neither.                                   *)
ImplementsFailsafe == Abstract!Spec

-----------------------------------------------------------------------------
(* The inductive invariant behind Bootable.                                *)

BadSig(l, g) == gpt[l][g].state = "GPT_BAD_SIGNATURE"

(* A GPT the boot loader would use, leading to the copies of one table.    *)
Leads(h, table) == h.state = "GPT_OK" /\ h.crc = table /\ h.entries = table

(* One LUN with twins, whatever is running.                                *)
ChainInv(l) ==
  LET p == gpt[l][PRIMARY_GPT]
      s == gpt[l][SECONDARY_GPT]
  IN  /\ p.crc = "normal" /\ p.entries \in {"normal", "torn"}
      /\ BadSig(l, PRIMARY_GPT) =>
           Leads(s, "backup") /\ p.entries = "normal"
      /\ BadSig(l, SECONDARY_GPT) => Valid(p)
      /\ ~Valid(p) /\ ~BadSig(l, PRIMARY_GPT) => Leads(s, "normal")
      /\ image[l]["primary"] = "partial" => BadSig(l, PRIMARY_GPT)
      /\ image[l]["backup"] = "partial" => BadSig(l, SECONDARY_GPT)

(* The LUN prepare_partitions is at: what its checks and the writes before *)
(* this point established.                                                 *)
StepInv ==
  LET p == gpt[lun][PRIMARY_GPT]
      s == gpt[lun][SECONDARY_GPT]
  IN  /\ pc \in {"bootlun", "header", "entries", "primary"} =>
           InternalStage(lun) = stage
      /\ pc \in {"header", "entries"} => stage # UPDATE_BACKUP
      /\ pc = "primary" => stage # UPDATE_FINALIZE
      /\ pc = "secondary" => stage # UPDATE_MAIN
      /\ pc \in {"entries", "primary", "secondary"} => lun \in Twin /\ ArrayValid(p)
      /\ pc = "entries" => s.crc = ChainEntries(lun)
      /\ pc = "primary" /\ stage = UPDATE_MAIN => s.crc = "backup" /\ ArrayValid(s)
      /\ pc = "secondary" /\ stage = UPDATE_BACKUP =>
           InternalStage(lun) = UPDATE_MAIN
      /\ pc = "secondary" /\ stage = UPDATE_FINALIZE =>
           InternalStage(lun) = UPDATE_FINALIZE /\ ArrayValid(s) /\ s.crc = "normal"

(* What the LUNs already walked look like while no error occurred.         *)
Prepared(l, s) == /\ s = UPDATE_MAIN => BadSig(l, PRIMARY_GPT)
                  /\ s = UPDATE_BACKUP => BadSig(l, SECONDARY_GPT)

CallInv ==
  /\ pc = "idle" <=> stage = no_stage
  /\ granted # "none" => pc = "idle"
  /\ MayCall(stage)
  /\ ~isError => \A l \in Twin : l < lun => Prepared(l, stage)
  /\ granted = "primary" => \A l \in Twin : BadSig(l, PRIMARY_GPT)
  /\ granted = "backup" => \A l \in Twin : BadSig(l, SECONDARY_GPT)

(* No stage marks a LUN that has no twins.                                 *)
NoTwinInv == \A l \in Luns \ Twin, g \in Instances : ~BadSig(l, g)

IInv == /\ TypeOK
        /\ \A l \in Twin : ChainInv(l)
        /\ pc \notin {"idle", "check"} => lun \in Luns /\ StepInv
        /\ CallInv
        /\ NoTwinInv
=============================================================================
