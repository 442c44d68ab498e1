--------------------------- MODULE GptUpdateProofs ---------------------------
(***************************************************************************)
(* Proofs about GptUpdate for any number of LUNs, any set of them with     *)
(* twins, with or without xbl, and any number of failures and power cuts,  *)
(* and about the updater that runs the stages (GptUpdateScript).           *)
(***************************************************************************)
EXTENDS GptUpdateScript, FiniteSetTheorems, TLAPS

(* A change of one header of one LUN keeps the type of the disk.           *)
LEMMA PutType ==
  ASSUME gpt \in Disks, NEW l \in Luns, NEW g \in Instances, NEW h \in Header
  PROVE  [gpt EXCEPT ![l][g] = h] \in Disks
<1>1. gpt[l] \in [Instances -> Header]
  BY DEF Disks
<1>2. [gpt[l] EXCEPT ![g] = h] \in [Instances -> Header]
  BY <1>1
<1>3. [gpt EXCEPT ![l][g] = h] = [gpt EXCEPT ![l] = [gpt[l] EXCEPT ![g] = h]]
  BY <1>1 DEF Disks
<1>4. QED
  BY <1>2, <1>3 DEF Disks

LEMMA PutStateType ==
  ASSUME gpt \in Disks, NEW l \in Luns, NEW g \in Instances, NEW st \in HeaderStates,
         PutState(l, g, st)
  PROVE  gpt' \in Disks
<1>1. [gpt[l][g] EXCEPT !.state = st] \in Header
  BY DEF Disks, Header
<1>2. gpt' = [gpt EXCEPT ![l][g] = [gpt[l][g] EXCEPT !.state = st]]
  BY DEF PutState, Disks
<1>3. QED
  BY <1>1, <1>2, PutType

LEMMA PutEntriesType ==
  ASSUME gpt \in Disks, NEW l \in Luns, NEW e \in Arrays, PutEntries(l, e)
  PROVE  gpt' \in Disks
<1>1. gpt[l][SECONDARY_GPT] \in Header /\ SECONDARY_GPT \in Instances
  BY DEF Disks, Instances
<1>2. [gpt[l][SECONDARY_GPT] EXCEPT !.entries = e] \in Header
  BY <1>1 DEF Header
<1>3. gpt' = [gpt EXCEPT ![l][SECONDARY_GPT] = [gpt[l][SECONDARY_GPT] EXCEPT !.entries = e]]
  BY <1>1 DEF PutEntries, Disks
<1>4. QED
  BY <1>1, <1>2, <1>3, PutType

LEMMA ChainEntriesType ==
  ASSUME gpt \in Disks, NEW l \in Luns
  PROVE  /\ ChainEntries(l) \in Arrays
         /\ ArrayValid(gpt[l][PRIMARY_GPT]) => ChainEntries(l) \in Tables
<1>1. gpt[l][PRIMARY_GPT] \in Header
  BY DEF Disks, Instances
<1>2. QED
  BY <1>1 DEF ChainEntries, Swapped, ArrayValid, Header, Arrays, Tables

LEMMA PutHeaderCrcType ==
  ASSUME gpt \in Disks, NEW l \in Luns, PutHeaderCrc(l)
  PROVE  gpt' \in Disks
<1>1. ChainEntries(l) \in Tables
  BY ChainEntriesType DEF PutHeaderCrc
<1>2. gpt[l][SECONDARY_GPT] \in Header /\ SECONDARY_GPT \in Instances
  BY DEF Disks, Instances
<1>3. [gpt[l][SECONDARY_GPT] EXCEPT !.crc = ChainEntries(l)] \in Header
  BY <1>1, <1>2 DEF Header
<1>4. gpt' = [gpt EXCEPT ![l][SECONDARY_GPT] =
                           [gpt[l][SECONDARY_GPT] EXCEPT !.crc = ChainEntries(l)]]
  BY <1>2 DEF PutHeaderCrc, Disks
<1>5. QED
  BY <1>2, <1>3, <1>4, PutType

LEMMA PutPrimaryType ==
  ASSUME gpt \in Disks, NEW l \in Luns, PutPrimary(l) \/ PutSecondary(l)
  PROVE  gpt' \in Disks
BY PutStateType DEF PutPrimary, PutSecondary, HeaderStates, Instances

LEMMA InitType == Init => TypeOK
<1>. SUFFICES ASSUME Init PROVE TypeOK
  OBVIOUS
<1>1. Sound \in Header /\ Damaged \subseteq Header
  BY DEF Sound, Damaged, Header, HeaderStates, Tables, Arrays
<1>2. \A p, s \in Header : Tables0(p, s) \in [Instances -> Header]
  BY DEF Tables0
<1>3. gpt \in Disks
  <2>1. FoundTables \subseteq [Instances -> Header]
    BY <1>1, <1>2 DEF FoundTables
  <2>2. QED
    BY <2>1 DEF Init, Disks
<1>4. image \in [Units -> [Copies -> Images]]
  BY DEF Init, Images
<1>5. isError \in BOOLEAN
  BY DEF Init
<1>6. QED
  BY <1>3, <1>4, <1>5, ConstantsAssumption DEF Init, TypeOK, PCs, no_stage, Copies

(* The variables of the call in progress.                                  *)
CallTypeOK == /\ pc \in PCs
              /\ stage \in Stages \cup {no_stage}
              /\ lun \in 1 .. (NumLuns + 1)
              /\ isError \in BOOLEAN
              /\ granted \in Copies \cup {"none"}

LEMMA LunDoneType ==
  ASSUME CallTypeOK, lun \in Luns, NEW failed \in BOOLEAN, LunDone(failed)
  PROVE  CallTypeOK'
<1>1. isError' \in BOOLEAN
  BY DEF LunDone, CallTypeOK
<1>2. lun' \in 1 .. (NumLuns + 1)
  BY ConstantsAssumption DEF LunDone, Luns
<1>3. QED
  BY <1>1, <1>2 DEF CallTypeOK, LunDone, PCs

LEMMA GoToType ==
  ASSUME CallTypeOK, NEW label \in PCs, GoTo(label)
  PROVE  CallTypeOK'
BY DEF CallTypeOK, GoTo

(* Between CheckStage and the end of a LUN the index points into the list. *)
LunInv == pc \notin {"idle", "check"} => lun \in Luns

LEMMA NextType == TypeOK /\ LunInv /\ [Next]_vars => TypeOK' /\ LunInv'
<1>. SUFFICES ASSUME TypeOK, LunInv, [Next]_vars PROVE TypeOK' /\ LunInv'
  OBVIOUS
<1>1. CallTypeOK /\ gpt \in Disks /\ lun \in 1 .. (NumLuns + 1) /\ granted \in Copies \cup {"none"}
  BY DEF TypeOK, CallTypeOK
<1>2. CallTypeOK' /\ gpt' \in Disks /\ UNCHANGED <<bootLun, image>> => TypeOK'
  BY DEF TypeOK, CallTypeOK
<1>3. /\ CallTypeOK' /\ UNCHANGED disk => TypeOK'
      /\ CallTypeOK' /\ UNCHANGED gpt /\ UNCHANGED <<bootLun, image>> => TypeOK'
  BY <1>1, <1>2 DEF disk
<1>4. ASSUME pc' = "idle" /\ stage' = no_stage /\ lun' = 1 /\ isError' = FALSE,
             granted' \in Copies \cup {"none"}
      PROVE  CallTypeOK' /\ LunInv'
  <2>1. isError' \in BOOLEAN
    BY <1>4
  <2>2. QED
    BY <2>1, <1>4, ConstantsAssumption DEF CallTypeOK, PCs, LunInv
<1>5. \A failed \in BOOLEAN : LunDone(failed) => LunInv'
  BY DEF LunDone, LunInv
<1>6. FirstWrite \in PCs
  BY DEF FirstWrite, PCs
<1>7. ASSUME NEW s \in Stages, Call(s) PROVE TypeOK' /\ LunInv'
  <2>1. isError' \in BOOLEAN
    BY <1>7 DEF Call
  <2>2. QED
    BY <2>1, <1>3, <1>7, ConstantsAssumption DEF Call, CallTypeOK, PCs, LunInv
<1>8. CASE CheckStage
  BY <1>1, <1>3, <1>5, <1>6, <1>8, LunDoneType, GoToType DEF CheckStage, AlreadySet, PCs, LunInv, GoTo
<1>9. CASE SetBootLun
  <2>1. CallTypeOK'
    BY <1>1, <1>6, <1>9, GoToType DEF SetBootLun
  <2>2. QED
    BY <2>1, <1>9 DEF SetBootLun, BootLunOf, TypeOK, CallTypeOK, LunInv, GoTo
<1>10. CASE WriteHeader
  <2>1. lun \in Luns
    BY <1>10 DEF WriteHeader, LunInv
  <2>2. PutHeaderCrc(lun) => gpt' \in Disks
    BY <1>1, <2>1, PutHeaderCrcType
  <2>3. gpt' \in Disks
    BY <1>1, <1>10, <2>2 DEF WriteHeader
  <2>4. CallTypeOK' /\ LunInv'
    BY <1>1, <1>5, <1>10, <2>1, LunDoneType, GoToType DEF WriteHeader, PCs, LunInv, GoTo
  <2>5. QED
    BY <1>2, <1>10, <2>3, <2>4 DEF WriteHeader
<1>11. CASE WriteEntries
  <2>1. lun \in Luns
    BY <1>11 DEF WriteEntries, LunInv
  <2>2. gpt' \in Disks
    BY <1>1, <1>11, <2>1, ChainEntriesType, PutEntriesType DEF WriteEntries, Arrays
  <2>3. CallTypeOK' /\ LunInv'
    BY <1>1, <1>11, <2>1, GoToType DEF WriteEntries, PCs, LunInv, GoTo
  <2>4. QED
    BY <1>2, <1>11, <2>2, <2>3 DEF WriteEntries
<1>12. CASE SetPrimary
  <2>1. lun \in Luns
    BY <1>12 DEF SetPrimary, LunInv
  <2>2. gpt' \in Disks
    BY <1>1, <1>12, <2>1, PutPrimaryType DEF SetPrimary
  <2>3. CallTypeOK' /\ LunInv'
    BY <1>1, <1>5, <1>12, <2>1, LunDoneType, GoToType DEF SetPrimary, PCs, LunInv, GoTo
  <2>4. QED
    BY <1>2, <1>12, <2>2, <2>3 DEF SetPrimary
<1>13. CASE SetSecondary
  <2>1. lun \in Luns
    BY <1>13 DEF SetSecondary, LunInv
  <2>2. gpt' \in Disks
    BY <1>1, <1>13, <2>1, PutPrimaryType DEF SetSecondary
  <2>3. CallTypeOK' /\ LunInv'
    BY <1>1, <1>5, <1>13, <2>1, LunDoneType DEF SetSecondary
  <2>4. QED
    BY <1>2, <1>13, <2>2, <2>3 DEF SetSecondary
<1>14. CASE Return
  BY <1>1, <1>3, <1>4, <1>14 DEF Return, Released, Copies
<1>15. CASE IoError
  <2>1. lun \in Luns
    BY <1>15 DEF IoError
  <2>2. \A e \in {ChainEntries(lun), "torn"} : PutEntries(lun, e) => gpt' \in Disks
    BY <1>1, <2>1, ChainEntriesType, PutEntriesType DEF Arrays
  <2>3. gpt' \in Disks
    BY <1>1, <1>15, <2>1, <2>2, PutHeaderCrcType, PutPrimaryType DEF IoError
  <2>4. CallTypeOK' /\ LunInv'
    BY <1>1, <1>5, <1>15, <2>1, LunDoneType DEF IoError
  <2>5. QED
    BY <1>2, <1>15, <2>3, <2>4 DEF IoError
<1>16. CASE Crash
  <2>1. gpt' \in Disks
    BY <1>1, <1>16, PutEntriesType DEF Crash, LunInv, Arrays
  <2>2. QED
    BY <1>2, <1>4, <1>16, <2>1 DEF Crash
<1>17. ASSUME NEW u \in Units, NEW i \in {"partial", "new"}, Flash(u, i)
       PROVE  TypeOK' /\ LunInv'
  <2>1. image' \in [Units -> [Copies -> Images]]
    BY <1>17 DEF Flash, TypeOK, Images
  <2>2. QED
    BY <1>17, <2>1 DEF Flash, TypeOK, call, LunInv
<1>18. CASE UNCHANGED vars
  BY <1>18 DEF vars, TypeOK, LunInv
<1>19. QED
  BY <1>7, <1>8, <1>9, <1>10, <1>11, <1>12, <1>13, <1>14, <1>15, <1>16, <1>17, <1>18
     DEF Next, Step

(* Every variable keeps its type, whatever write fails or is short.        *)
THEOREM TypeCorrect == Spec => []TypeOK
<1>1. Init => TypeOK /\ LunInv
  BY InitType DEF Init, LunInv
<1>2. QED
  BY <1>1, NextType, PTL DEF Spec
-----------------------------------------------------------------------------
(* The inductive invariant.                                                *)

LEMMA StageOfStates ==
  ASSUME NEW l \in Luns
  PROVE  /\ InternalStage(l) = UPDATE_MAIN <=>
              gpt[l][PRIMARY_GPT].state = "GPT_OK" /\ gpt[l][SECONDARY_GPT].state = "GPT_OK"
         /\ InternalStage(l) = UPDATE_BACKUP <=>
              BadSig(l, PRIMARY_GPT) /\ gpt[l][SECONDARY_GPT].state = "GPT_OK"
         /\ InternalStage(l) = UPDATE_FINALIZE <=>
              gpt[l][PRIMARY_GPT].state = "GPT_OK" /\ BadSig(l, SECONDARY_GPT)
BY DEF InternalStage, BadSig, no_stage, UPDATE_MAIN, UPDATE_BACKUP, UPDATE_FINALIZE

(* What one write changes, and that it changes nothing else.               *)
OnlyChanges(l, g) == /\ \A k \in Luns \ {l} : gpt'[k] = gpt[k]
                     /\ \A h \in Instances \ {g} : gpt'[l][h] = gpt[l][h]

LEMMA PutStateEffect ==
  ASSUME gpt \in Disks, NEW l \in Luns, NEW g \in Instances, NEW st, PutState(l, g, st)
  PROVE  /\ OnlyChanges(l, g)
         /\ gpt'[l][g].state = st
         /\ gpt'[l][g].crc = gpt[l][g].crc
         /\ gpt'[l][g].entries = gpt[l][g].entries
<1>1. gpt[l] \in [Instances -> Header] /\ gpt[l][g] \in Header
  BY DEF Disks
<1>2. gpt' = [gpt EXCEPT ![l] = [gpt[l] EXCEPT ![g] = [gpt[l][g] EXCEPT !.state = st]]]
  BY DEF PutState
<1>3. gpt'[l][g] = [gpt[l][g] EXCEPT !.state = st]
  BY <1>1, <1>2 DEF Disks
<1>4. QED
  BY <1>1, <1>2, <1>3 DEF Disks, Header, OnlyChanges

LEMMA PutEntriesEffect ==
  ASSUME gpt \in Disks, NEW l \in Luns, NEW e, PutEntries(l, e)
  PROVE  /\ OnlyChanges(l, SECONDARY_GPT)
         /\ gpt'[l][SECONDARY_GPT].state = gpt[l][SECONDARY_GPT].state
         /\ gpt'[l][SECONDARY_GPT].crc = gpt[l][SECONDARY_GPT].crc
         /\ gpt'[l][SECONDARY_GPT].entries = e
<1>. DEFINE g == SECONDARY_GPT
<1>1. gpt[l] \in [Instances -> Header] /\ gpt[l][g] \in Header /\ g \in Instances
  BY DEF Disks, Instances
<1>2. gpt' = [gpt EXCEPT ![l] = [gpt[l] EXCEPT ![g] = [gpt[l][g] EXCEPT !.entries = e]]]
  BY DEF PutEntries
<1>3. gpt'[l][g] = [gpt[l][g] EXCEPT !.entries = e]
  BY <1>1, <1>2 DEF Disks
<1>4. QED
  BY <1>1, <1>2, <1>3 DEF Disks, Header, OnlyChanges

LEMMA PutHeaderCrcEffect ==
  ASSUME gpt \in Disks, NEW l \in Luns, PutHeaderCrc(l)
  PROVE  /\ OnlyChanges(l, SECONDARY_GPT)
         /\ gpt'[l][SECONDARY_GPT].state = gpt[l][SECONDARY_GPT].state
         /\ gpt'[l][SECONDARY_GPT].crc = ChainEntries(l)
         /\ gpt'[l][SECONDARY_GPT].entries = gpt[l][SECONDARY_GPT].entries
<1>. DEFINE g == SECONDARY_GPT
            c == ChainEntries(l)
<1>1. gpt[l] \in [Instances -> Header] /\ gpt[l][g] \in Header /\ g \in Instances
  BY DEF Disks, Instances
<1>2. gpt' = [gpt EXCEPT ![l] = [gpt[l] EXCEPT ![g] = [gpt[l][g] EXCEPT !.crc = c]]]
  BY DEF PutHeaderCrc
<1>3. gpt'[l][g] = [gpt[l][g] EXCEPT !.crc = c]
  BY <1>1, <1>2 DEF Disks
<1>4. QED
  BY <1>1, <1>2, <1>3 DEF Disks, Header, OnlyChanges

(* A LUN the step leaves alone keeps its part of the invariant.            *)
LEMMA ChainFrame ==
  ASSUME NEW l \in Luns, ChainInv(l), gpt'[l] = gpt[l], UNCHANGED image
  PROVE  ChainInv(l)'
BY DEF ChainInv, BadSig, Valid, ArrayValid, Leads

LEMMA BadSigFrame ==
  ASSUME NEW l \in Luns, NEW g \in Instances, gpt'[l] = gpt[l]
  PROVE  BadSig(l, g)' <=> BadSig(l, g)
BY DEF BadSig

LEMMA InitIInv == Init => IInv
<1>. SUFFICES ASSUME Init PROVE IInv
  OBVIOUS
<1>1. TypeOK
  BY InitType
<1>2. ASSUME NEW l \in Luns
      PROVE  LET p == gpt[l][PRIMARY_GPT]
                 s == gpt[l][SECONDARY_GPT]
             IN  /\ p.crc = "normal" /\ p.entries \in {"normal", "torn"}
                 /\ p.state # "GPT_BAD_SIGNATURE" /\ s.state # "GPT_BAD_SIGNATURE"
                 /\ Valid(p) \/ Leads(s, "normal")
  <2>1. gpt[l] \in FoundTables
    BY DEF Init
  <2>2. gpt[l][PRIMARY_GPT] \in {Sound} \cup Damaged /\ gpt[l][SECONDARY_GPT] \in {Sound} \cup Damaged
    BY <2>1 DEF FoundTables, Tables0, Instances, PRIMARY_GPT, SECONDARY_GPT
  <2>3. gpt[l][PRIMARY_GPT] = Sound \/ gpt[l][SECONDARY_GPT] = Sound
    BY <2>1 DEF FoundTables, Tables0, Instances, PRIMARY_GPT, SECONDARY_GPT
  <2>4. QED
    BY <2>2, <2>3 DEF Sound, Damaged, Valid, ArrayValid, Leads
<1>3. \A l \in Twin : ChainInv(l)
  BY <1>2, ConstantsAssumption DEF ChainInv, BadSig, Init, Units, Copies
<1>4. NoTwinInv
  BY <1>2 DEF NoTwinInv, BadSig, Instances
<1>5. CallInv
  BY ConstantsAssumption DEF CallInv, Init, MayCall, no_stage, UPDATE_BACKUP, UPDATE_FINALIZE, Luns
<1>6. QED
  BY <1>1, <1>3, <1>4, <1>5 DEF IInv, Init

(* The LUN a write is at, as the invariant describes it.                   *)
AtLun == /\ IInv /\ lun \in Luns /\ StepInv /\ pc # "idle" /\ stage \in Stages
         /\ granted = "none"

LEMMA AtLunHolds ==
  ASSUME IInv, pc \notin {"idle", "check"}
  PROVE  AtLun
BY DEF IInv, AtLun, CallInv, TypeOK, Copies, no_stage

(* The walk over the LUNs: what a LUN that is done must fulfil.            *)
LEMMA LunDoneWalks ==
  ASSUME TypeOK, CallInv, pc # "idle", lun \in Luns, UNCHANGED image,
         NEW failed \in BOOLEAN, LunDone(failed),
         \A l \in Twin \ {lun} : gpt'[l] = gpt[l],
         \A l \in Twin : ~failed /\ l = lun => Prepared(l, stage)'
  PROVE  CallInv' /\ pc' = "check"
<1>1. stage' = stage /\ lun' = lun + 1 /\ pc' = "check" /\ granted' = "none" /\ granted = "none"
  BY DEF LunDone, CallInv, TypeOK, Copies
<1>2. MayCall(stage)' /\ stage' # no_stage
  BY <1>1 DEF CallInv, MayCall, CopiesComplete
<1>3. ASSUME ~isError', NEW l \in Twin, l < lun'
      PROVE  Prepared(l, stage)'
  <2>1. ~failed /\ ~isError
    BY <1>3 DEF LunDone
  <2>2. CASE l = lun
    BY <2>1, <2>2
  <2>3. CASE l # lun
    <3>1. l < lun
      BY <1>1, <1>3, <2>3, ConstantsAssumption DEF Luns
    <3>2. Prepared(l, stage)
      BY <2>1, <3>1 DEF CallInv
    <3>3. QED
      BY <1>1, <2>3, <3>2, BadSigFrame, ConstantsAssumption DEF Prepared, Instances
  <2>4. QED
    BY <2>2, <2>3
<1>4. QED
  BY <1>1, <1>2, <1>3 DEF CallInv

LEMMA LunDoneCall ==
  ASSUME IInv, pc # "idle", lun \in Luns, UNCHANGED image, NEW failed \in BOOLEAN, LunDone(failed),
         \A l \in Twin \ {lun} : gpt'[l] = gpt[l],
         \A l \in Twin : ~failed /\ l = lun => Prepared(l, stage)'
  PROVE  CallInv' /\ pc' = "check"
BY LunDoneWalks DEF IInv

LEMMA GoToWalks ==
  ASSUME TypeOK, CallInv, pc # "idle", lun \in Luns, UNCHANGED image,
         NEW label \in PCs \ {"idle"}, GoTo(label),
         \A l \in Twin \ {lun} : gpt'[l] = gpt[l]
  PROVE  CallInv'
<1>1. stage' = stage /\ lun' = lun /\ isError' = isError /\ granted' = "none" /\ pc' = label
  BY DEF GoTo, CallInv, TypeOK, Copies
<1>2. MayCall(stage)' /\ stage' # no_stage
  BY <1>1 DEF CallInv, MayCall, CopiesComplete
<1>3. ASSUME ~isError', NEW l \in Twin, l < lun'
      PROVE  Prepared(l, stage)'
  <2>1. Prepared(l, stage) /\ l # lun
    BY <1>1, <1>3, ConstantsAssumption DEF CallInv, Luns
  <2>2. QED
    BY <1>1, <2>1, BadSigFrame, ConstantsAssumption DEF Prepared, Instances
<1>4. QED
  BY <1>1, <1>2, <1>3 DEF CallInv

LEMMA GoToCall ==
  ASSUME IInv, pc # "idle", lun \in Luns, UNCHANGED image, NEW label \in PCs \ {"idle"}, GoTo(label),
         \A l \in Twin \ {lun} : gpt'[l] = gpt[l]
  PROVE  CallInv'
BY GoToWalks DEF IInv

LEMMA CheckStageIInv == IInv /\ TypeOK' /\ CheckStage => IInv'
<1>. SUFFICES ASSUME IInv, TypeOK', CheckStage PROVE IInv'
  OBVIOUS
<1>1. UNCHANGED <<gpt, bootLun, image>> /\ lun \in Luns /\ pc = "check"
  BY DEF CheckStage, disk
<1>2. (\A l \in Twin : ChainInv(l)') /\ NoTwinInv'
  BY <1>1, ChainFrame, ConstantsAssumption DEF IInv, NoTwinInv, BadSig
<1>. DEFINE internal == InternalStage(lun)
<1>3. CASE AlreadySet(internal) /\ LunDone(FALSE)
  <2>1. stage = UPDATE_MAIN => internal = UPDATE_BACKUP
    BY <1>3 DEF AlreadySet, UPDATE_MAIN, UPDATE_BACKUP, InternalStage, UPDATE_FINALIZE, no_stage
  <2>2. stage = UPDATE_BACKUP => internal = UPDATE_FINALIZE
    BY <1>3 DEF AlreadySet, UPDATE_MAIN, UPDATE_BACKUP, InternalStage, UPDATE_FINALIZE, no_stage
  <2>3. ASSUME NEW l \in Twin, l = lun PROVE Prepared(l, stage)'
    <3>1. /\ stage = UPDATE_MAIN => BadSig(l, PRIMARY_GPT)
          /\ stage = UPDATE_BACKUP => BadSig(l, SECONDARY_GPT)
      BY <1>1, <2>1, <2>2, <2>3, StageOfStates
    <3>2. QED
      BY <1>1, <1>3, <3>1 DEF Prepared, BadSig, LunDone
  <2>4. CallInv' /\ pc' = "check"
    BY <1>1, <1>3, <2>3, LunDoneCall
  <2>5. QED
    BY <1>2, <2>4 DEF IInv
<1>4. CASE LunDone(TRUE)
  <2>1. CallInv' /\ pc' = "check"
    BY <1>1, <1>4, LunDoneCall
  <2>2. QED
    BY <1>2, <2>1 DEF IInv
<1>5. CASE stage = internal /\ GoTo(IF UsesXbl /\ stage # UPDATE_FINALIZE
                                      THEN "bootlun" ELSE FirstWrite)
  <2>1. CallInv'
    BY <1>1, <1>5, GoToCall DEF FirstWrite, PCs
  <2>2. stage' = stage /\ lun' = lun /\ InternalStage(lun)' = stage'
    BY <1>1, <1>5 DEF GoTo, InternalStage
  <2>3. pc' = "primary" => /\ stage = UPDATE_BACKUP
                           /\ lun \in Twin
                           /\ ArrayValid(gpt[lun][PRIMARY_GPT])
    <3>1. pc' = "primary" => stage = UPDATE_BACKUP
      BY <1>5 DEF GoTo, FirstWrite
    <3>2. stage = UPDATE_BACKUP => BadSig(lun, PRIMARY_GPT)
      BY <1>1, <1>5, StageOfStates
    <3>3. BadSig(lun, PRIMARY_GPT) => lun \in Twin
      BY <1>1 DEF IInv, NoTwinInv, Instances
    <3>4. lun \in Twin /\ BadSig(lun, PRIMARY_GPT) => ArrayValid(gpt[lun][PRIMARY_GPT])
      BY DEF IInv, ChainInv, ArrayValid
    <3>5. QED
      BY <3>1, <3>2, <3>3, <3>4
  <2>4. pc' \in {"bootlun", "header", "primary"} /\ (pc' = "header" => stage # UPDATE_BACKUP)
    BY <1>5 DEF GoTo, FirstWrite
  <2>5. StepInv'
    BY <1>1, <2>2, <2>3, <2>4 DEF StepInv, UPDATE_MAIN, UPDATE_BACKUP, UPDATE_FINALIZE, ArrayValid
  <2>6. QED
    BY <1>1, <1>2, <2>1, <2>2, <2>5 DEF IInv
<1>6. QED
  BY <1>3, <1>4, <1>5 DEF CheckStage

LEMMA SetBootLunIInv == IInv /\ TypeOK' /\ SetBootLun => IInv'
<1>. SUFFICES ASSUME IInv, TypeOK', SetBootLun PROVE IInv'
  OBVIOUS
<1>1. UNCHANGED <<gpt, image>> /\ pc = "bootlun" /\ GoTo(FirstWrite)
  BY DEF SetBootLun
<1>2. AtLun
  BY <1>1, AtLunHolds
<1>3. (\A l \in Twin : ChainInv(l)') /\ NoTwinInv'
  BY <1>1, ChainFrame, ConstantsAssumption DEF IInv, NoTwinInv, BadSig
<1>4. CallInv'
  BY <1>1, <1>2, GoToCall DEF FirstWrite, PCs, AtLun
<1>5. stage' = stage /\ lun' = lun /\ InternalStage(lun) = stage /\ InternalStage(lun)' = stage'
  BY <1>1, <1>2 DEF GoTo, InternalStage, AtLun, StepInv
<1>6. stage = UPDATE_BACKUP => lun \in Twin /\ ArrayValid(gpt[lun][PRIMARY_GPT])
  <2>1. stage = UPDATE_BACKUP => BadSig(lun, PRIMARY_GPT)
    BY <1>2, <1>5, StageOfStates DEF AtLun
  <2>2. BadSig(lun, PRIMARY_GPT) => lun \in Twin
    BY <1>2 DEF IInv, NoTwinInv, Instances, AtLun
  <2>3. lun \in Twin /\ BadSig(lun, PRIMARY_GPT) => ArrayValid(gpt[lun][PRIMARY_GPT])
    BY DEF IInv, ChainInv, ArrayValid
  <2>4. QED
    BY <2>1, <2>2, <2>3
<1>7. pc' = IF stage = UPDATE_BACKUP THEN "primary" ELSE "header"
  BY <1>1 DEF GoTo, FirstWrite
<1>8. StepInv'
  BY <1>1, <1>5, <1>6, <1>7 DEF StepInv, UPDATE_MAIN, UPDATE_BACKUP, UPDATE_FINALIZE, ArrayValid
<1>9. QED
  BY <1>2, <1>3, <1>4, <1>5, <1>8 DEF IInv, AtLun

(* The four writes keep every LUN's part of the invariant, whether or not  *)
(* the call goes on after them.                                            *)
DiskInv == (\A l \in Twin : ChainInv(l)) /\ NoTwinInv

LEMMA OthersKept ==
  ASSUME DiskInv, NEW l \in Luns, l \in Twin => ChainInv(l)', NEW g \in Instances,
         OnlyChanges(l, g), l \in Twin \/ ~BadSig(l, g)', UNCHANGED image
  PROVE  DiskInv'
<1>1. ASSUME NEW k \in Twin PROVE ChainInv(k)'
  BY <1>1, ChainFrame, ConstantsAssumption DEF DiskInv, OnlyChanges
<1>2. ASSUME NEW k \in Luns \ Twin, NEW h \in Instances PROVE ~BadSig(k, h)'
  BY <1>2 DEF DiskInv, NoTwinInv, BadSig, OnlyChanges
<1>3. QED
  BY <1>1, <1>2 DEF DiskInv, NoTwinInv

LEMMA StatesAtHeader ==
  ASSUME AtLun, NEW l \in Luns, l = lun, pc \in {"header", "entries"}
  PROVE  /\ gpt[l][PRIMARY_GPT].state = "GPT_OK"
         /\ stage = UPDATE_MAIN => gpt[l][SECONDARY_GPT].state = "GPT_OK"
         /\ stage # UPDATE_MAIN => stage = UPDATE_FINALIZE /\ BadSig(l, SECONDARY_GPT)
BY StageOfStates DEF AtLun, StepInv, Stages

LEMMA HeaderKeeps ==
  ASSUME AtLun, pc = "header", PutHeaderCrc(lun), UNCHANGED image
  PROVE  /\ DiskInv'
         /\ lun \in Twin
         /\ \A l \in Twin \ {lun} : gpt'[l] = gpt[l]
         /\ \A l \in Luns : l = lun => /\ gpt'[l][PRIMARY_GPT] = gpt[l][PRIMARY_GPT]
                                       /\ gpt'[l][SECONDARY_GPT].state = gpt[l][SECONDARY_GPT].state
                                       /\ gpt'[l][SECONDARY_GPT].crc = ChainEntries(l)
<1>. PICK l \in Luns : l = lun
  BY DEF AtLun
<1>1. gpt \in Disks
  BY DEF AtLun, IInv, TypeOK
<1>2. /\ OnlyChanges(l, SECONDARY_GPT)
      /\ gpt'[l][SECONDARY_GPT].state = gpt[l][SECONDARY_GPT].state
      /\ gpt'[l][SECONDARY_GPT].crc = ChainEntries(l)
  BY <1>1, PutHeaderCrcEffect
<1>3. gpt'[l][PRIMARY_GPT] = gpt[l][PRIMARY_GPT]
  BY <1>2 DEF OnlyChanges, Instances, PRIMARY_GPT, SECONDARY_GPT
<1>4. l \in Twin
  BY StatesAtHeader DEF PutHeaderCrc, ChainHasTwins, AtLun, IInv, NoTwinInv, Instances
<1>5. ChainInv(l)'
  <2>1. ChainInv(l) /\ gpt[l][PRIMARY_GPT].state = "GPT_OK" /\ ArrayValid(gpt[l][PRIMARY_GPT])
    BY <1>4, StatesAtHeader DEF AtLun, IInv, PutHeaderCrc
  <2>2. QED
    BY <1>2, <1>3, <2>1 DEF ChainInv, BadSig, Valid, ArrayValid
<1>6. DiskInv'
  BY <1>2, <1>4, <1>5, OthersKept DEF AtLun, IInv, DiskInv, Instances
<1>7. QED
  BY <1>2, <1>3, <1>4, <1>6, ConstantsAssumption DEF OnlyChanges

LEMMA EntriesKeep ==
  ASSUME AtLun, pc = "entries", NEW e, PutEntries(lun, e), UNCHANGED image
  PROVE  /\ DiskInv'
         /\ \A l \in Twin \ {lun} : gpt'[l] = gpt[l]
         /\ \A l \in Luns : l = lun => /\ gpt'[l][PRIMARY_GPT] = gpt[l][PRIMARY_GPT]
                                       /\ gpt'[l][SECONDARY_GPT].state = gpt[l][SECONDARY_GPT].state
                                       /\ gpt'[l][SECONDARY_GPT].crc = gpt[l][SECONDARY_GPT].crc
                                       /\ gpt'[l][SECONDARY_GPT].entries = e
<1>. PICK l \in Luns : l = lun
  BY DEF AtLun
<1>1. gpt \in Disks
  BY DEF AtLun, IInv, TypeOK
<1>2. /\ OnlyChanges(l, SECONDARY_GPT)
      /\ gpt'[l][SECONDARY_GPT].state = gpt[l][SECONDARY_GPT].state
      /\ gpt'[l][SECONDARY_GPT].crc = gpt[l][SECONDARY_GPT].crc
      /\ gpt'[l][SECONDARY_GPT].entries = e
  BY <1>1, PutEntriesEffect
<1>3. gpt'[l][PRIMARY_GPT] = gpt[l][PRIMARY_GPT]
  BY <1>2 DEF OnlyChanges, Instances, PRIMARY_GPT, SECONDARY_GPT
<1>4. l \in Twin /\ ArrayValid(gpt[l][PRIMARY_GPT])
  BY DEF AtLun, StepInv
<1>5. ChainInv(l)'
  <2>1. ChainInv(l) /\ gpt[l][PRIMARY_GPT].state = "GPT_OK"
    BY <1>4, StatesAtHeader DEF AtLun, IInv
  <2>2. QED
    BY <1>2, <1>3, <1>4, <2>1 DEF ChainInv, BadSig, Valid, ArrayValid
<1>6. DiskInv'
  BY <1>2, <1>4, <1>5, OthersKept DEF AtLun, IInv, DiskInv, Instances
<1>7. QED
  BY <1>2, <1>3, <1>6, ConstantsAssumption DEF OnlyChanges

LEMMA PrimaryKeeps ==
  ASSUME AtLun, pc = "primary", PutPrimary(lun), UNCHANGED image
  PROVE  /\ DiskInv'
         /\ \A l \in Twin \ {lun} : gpt'[l] = gpt[l]
         /\ \A l \in Luns : l = lun =>
              /\ gpt'[l][SECONDARY_GPT] = gpt[l][SECONDARY_GPT]
              /\ ArrayValid(gpt[l][PRIMARY_GPT])'
              /\ stage = UPDATE_MAIN => BadSig(l, PRIMARY_GPT)'
              /\ stage # UPDATE_MAIN => gpt'[l][PRIMARY_GPT].state = "GPT_OK"
<1>. PICK l \in Luns : l = lun
  BY DEF AtLun
<1>1. gpt \in Disks /\ PRIMARY_GPT \in Instances
  BY DEF AtLun, IInv, TypeOK, Instances
<1>. DEFINE st == IF stage = UPDATE_MAIN THEN "GPT_BAD_SIGNATURE" ELSE "GPT_OK"
<1>2. /\ OnlyChanges(l, PRIMARY_GPT)
      /\ gpt'[l][PRIMARY_GPT].state = st
      /\ gpt'[l][PRIMARY_GPT].crc = gpt[l][PRIMARY_GPT].crc
      /\ gpt'[l][PRIMARY_GPT].entries = gpt[l][PRIMARY_GPT].entries
  BY <1>1, PutStateEffect DEF PutPrimary
<1>3. gpt'[l][SECONDARY_GPT] = gpt[l][SECONDARY_GPT]
  BY <1>2 DEF OnlyChanges, Instances, PRIMARY_GPT, SECONDARY_GPT
<1>4. /\ l \in Twin /\ ArrayValid(gpt[l][PRIMARY_GPT]) /\ InternalStage(l) = stage
      /\ stage = UPDATE_MAIN \/ stage = UPDATE_BACKUP
  BY DEF AtLun, StepInv, Stages
<1>5. ChainInv(l)
  BY <1>4 DEF AtLun, IInv
<1>6. CASE stage = UPDATE_MAIN
  <2>1. Leads(gpt[l][SECONDARY_GPT], "backup")
    BY <1>4, <1>6, StageOfStates DEF AtLun, StepInv, Leads, ArrayValid
  <2>2. ~BadSig(l, SECONDARY_GPT)
    BY <2>1 DEF Leads, BadSig
  <2>3. ChainInv(l)'
    BY <1>2, <1>3, <1>4, <1>5, <1>6, <2>1, <2>2 DEF ChainInv, BadSig, Valid, ArrayValid, Leads
  <2>4. DiskInv'
    BY <1>1, <1>2, <1>4, <2>3, OthersKept DEF AtLun, IInv, DiskInv
  <2>5. QED
    BY <1>2, <1>3, <1>4, <1>6, <2>4, ConstantsAssumption DEF OnlyChanges, BadSig, ArrayValid
<1>7. CASE stage = UPDATE_BACKUP
  <2>1. stage # UPDATE_MAIN
    BY <1>7 DEF UPDATE_MAIN, UPDATE_BACKUP
  <2>2. Leads(gpt[l][SECONDARY_GPT], "backup")
    BY <1>4, <1>5, <1>7, StageOfStates DEF ChainInv
  <2>3. image[l]["primary"] # "partial"
    BY <1>7 DEF AtLun, IInv, CallInv, MayCall, CopiesComplete, Units
  <2>4. ChainInv(l)'
    BY <1>2, <1>3, <1>4, <1>5, <2>1, <2>2, <2>3 DEF ChainInv, BadSig, Valid, ArrayValid, Leads
  <2>5. DiskInv'
    BY <1>1, <1>2, <1>4, <2>4, OthersKept DEF AtLun, IInv, DiskInv
  <2>6. QED
    BY <1>2, <1>3, <1>4, <2>1, <2>5, ConstantsAssumption DEF OnlyChanges, BadSig, ArrayValid
<1>8. QED
  BY <1>4, <1>6, <1>7

LEMMA SecondaryKeeps ==
  ASSUME AtLun, pc = "secondary", PutSecondary(lun), UNCHANGED image
  PROVE  /\ DiskInv'
         /\ \A l \in Twin \ {lun} : gpt'[l] = gpt[l]
         /\ \A l \in Luns : l = lun /\ stage = UPDATE_BACKUP => BadSig(l, SECONDARY_GPT)'
<1>. PICK l \in Luns : l = lun
  BY DEF AtLun
<1>1. gpt \in Disks /\ SECONDARY_GPT \in Instances
  BY DEF AtLun, IInv, TypeOK, Instances
<1>. DEFINE st == IF stage = UPDATE_BACKUP THEN "GPT_BAD_SIGNATURE" ELSE "GPT_OK"
<1>2. /\ OnlyChanges(l, SECONDARY_GPT)
      /\ gpt'[l][SECONDARY_GPT].state = st
      /\ gpt'[l][SECONDARY_GPT].crc = gpt[l][SECONDARY_GPT].crc
      /\ gpt'[l][SECONDARY_GPT].entries = gpt[l][SECONDARY_GPT].entries
  BY <1>1, PutStateEffect DEF PutSecondary
<1>3. gpt'[l][PRIMARY_GPT] = gpt[l][PRIMARY_GPT]
  BY <1>2 DEF OnlyChanges, Instances, PRIMARY_GPT, SECONDARY_GPT
<1>4. /\ l \in Twin /\ ArrayValid(gpt[l][PRIMARY_GPT])
      /\ stage = UPDATE_BACKUP \/ stage = UPDATE_FINALIZE
  BY DEF AtLun, StepInv, Stages
<1>5. ChainInv(l) /\ gpt[l][PRIMARY_GPT].state = "GPT_OK"
  BY <1>4, StageOfStates DEF AtLun, IInv, StepInv
<1>6. stage # UPDATE_BACKUP => image[l]["backup"] # "partial"
  BY <1>4 DEF AtLun, IInv, CallInv, MayCall, CopiesComplete, Units
<1>7. ChainInv(l)'
  BY <1>2, <1>3, <1>4, <1>5, <1>6 DEF ChainInv, BadSig, Valid, ArrayValid
<1>8. DiskInv'
  BY <1>1, <1>2, <1>4, <1>7, OthersKept DEF AtLun, IInv, DiskInv
<1>9. QED
  BY <1>2, <1>8, ConstantsAssumption DEF OnlyChanges, BadSig

LEMMA WriteHeaderIInv == IInv /\ TypeOK' /\ WriteHeader => IInv'
<1>. SUFFICES ASSUME IInv, TypeOK', WriteHeader PROVE IInv'
  OBVIOUS
<1>1. AtLun /\ pc = "header" /\ UNCHANGED image
  BY AtLunHolds DEF WriteHeader
<1>2. CASE UNCHANGED gpt /\ LunDone(TRUE)
  <2>1. DiskInv'
    BY <1>1, <1>2, ChainFrame, ConstantsAssumption DEF IInv, DiskInv, NoTwinInv, BadSig
  <2>2. CallInv' /\ pc' = "check"
    BY <1>1, <1>2, LunDoneCall DEF AtLun
  <2>3. QED
    BY <2>1, <2>2 DEF IInv, DiskInv
<1>3. CASE UNCHANGED gpt /\ ~ChainHasTwins(lun) /\ LunDone(FALSE)
  <2>1. DiskInv'
    BY <1>1, <1>3, ChainFrame, ConstantsAssumption DEF IInv, DiskInv, NoTwinInv, BadSig
  <2>2. CallInv' /\ pc' = "check"
    BY <1>1, <1>3, LunDoneCall DEF AtLun, ChainHasTwins
  <2>3. QED
    BY <2>1, <2>2 DEF IInv, DiskInv
<1>4. CASE PutHeaderCrc(lun) /\ GoTo("entries")
  <2>1. PICK l \in Luns : l = lun
    BY <1>1 DEF AtLun
  <2>2. /\ DiskInv' /\ l \in Twin /\ (\A k \in Twin \ {lun} : gpt'[k] = gpt[k])
        /\ gpt'[l][PRIMARY_GPT] = gpt[l][PRIMARY_GPT]
        /\ gpt'[l][SECONDARY_GPT].state = gpt[l][SECONDARY_GPT].state
        /\ gpt'[l][SECONDARY_GPT].crc = ChainEntries(l)
    BY <1>1, <1>4, <2>1, HeaderKeeps
  <2>3. CallInv'
    BY <1>1, <1>4, <2>2, GoToCall DEF AtLun, PCs
  <2>4. pc' = "entries" /\ stage' = stage /\ lun' = lun
    BY <1>4 DEF GoTo
  <2>5. ArrayValid(gpt[l][PRIMARY_GPT]) /\ InternalStage(l) = stage /\ stage # UPDATE_BACKUP
    BY <1>1, <1>4, <2>1 DEF PutHeaderCrc, AtLun, StepInv
  <2>6. InternalStage(l)' = InternalStage(l) /\ ChainEntries(l)' = ChainEntries(l)
    BY <2>2, <2>4 DEF InternalStage, ChainEntries
  <2>7. StepInv'
    BY <2>1, <2>2, <2>4, <2>5, <2>6 DEF StepInv, ArrayValid
  <2>8. QED
    BY <2>1, <2>2, <2>3, <2>4, <2>7 DEF IInv, DiskInv
<1>5. QED
  BY <1>2, <1>3, <1>4 DEF WriteHeader

LEMMA WriteEntriesIInv ==
  ASSUME ShortWrites = FALSE
  PROVE  IInv /\ TypeOK' /\ WriteEntries => IInv'
<1>. SUFFICES ASSUME IInv, TypeOK', WriteEntries PROVE IInv'
  OBVIOUS
<1>1. AtLun /\ pc = "entries" /\ UNCHANGED image /\ PutEntries(lun, ChainEntries(lun))
  BY AtLunHolds DEF WriteEntries
<1>2. PICK l \in Luns : l = lun
  BY <1>1 DEF AtLun
<1>3. /\ DiskInv' /\ (\A k \in Twin \ {lun} : gpt'[k] = gpt[k])
      /\ gpt'[l][PRIMARY_GPT] = gpt[l][PRIMARY_GPT]
      /\ gpt'[l][SECONDARY_GPT].state = gpt[l][SECONDARY_GPT].state
      /\ gpt'[l][SECONDARY_GPT].crc = gpt[l][SECONDARY_GPT].crc
      /\ gpt'[l][SECONDARY_GPT].entries = ChainEntries(l)
  BY <1>1, <1>2, EntriesKeep
<1>4. pc' = (IF stage = UPDATE_MAIN THEN "primary" ELSE "secondary") /\ stage' = stage /\ lun' = lun
  BY DEF WriteEntries, GoTo
<1>5. CallInv'
  BY <1>1, <1>3, GoToCall DEF AtLun, PCs, WriteEntries
<1>6. /\ l \in Twin /\ ArrayValid(gpt[l][PRIMARY_GPT]) /\ InternalStage(l) = stage
      /\ gpt[l][SECONDARY_GPT].crc = ChainEntries(l)
      /\ stage = UPDATE_MAIN \/ stage = UPDATE_FINALIZE
  BY <1>1, <1>2 DEF AtLun, StepInv, Stages
<1>7. gpt[l][PRIMARY_GPT].entries = "normal"
  BY <1>1, <1>6 DEF AtLun, IInv, ChainInv, ArrayValid
<1>8. ChainEntries(l) = IF stage = UPDATE_MAIN THEN "backup" ELSE "normal"
  BY <1>7 DEF ChainEntries, Swapped
<1>9. InternalStage(l)' = InternalStage(l)
  BY <1>3 DEF InternalStage
<1>10. StepInv'
  BY <1>2, <1>3, <1>4, <1>6, <1>8, <1>9 DEF StepInv, ArrayValid, UPDATE_MAIN, UPDATE_BACKUP, UPDATE_FINALIZE
<1>11. QED
  BY <1>2, <1>3, <1>4, <1>5, <1>10 DEF IInv, DiskInv

LEMMA SetPrimaryIInv == IInv /\ TypeOK' /\ SetPrimary => IInv'
<1>. SUFFICES ASSUME IInv, TypeOK', SetPrimary PROVE IInv'
  OBVIOUS
<1>1. AtLun /\ pc = "primary" /\ UNCHANGED image /\ PutPrimary(lun)
  BY AtLunHolds DEF SetPrimary
<1>2. PICK l \in Luns : l = lun
  BY <1>1 DEF AtLun
<1>3. /\ DiskInv' /\ (\A k \in Twin \ {lun} : gpt'[k] = gpt[k])
      /\ gpt'[l][SECONDARY_GPT] = gpt[l][SECONDARY_GPT]
      /\ ArrayValid(gpt[l][PRIMARY_GPT])'
      /\ stage = UPDATE_MAIN => BadSig(l, PRIMARY_GPT)'
      /\ stage # UPDATE_MAIN => gpt'[l][PRIMARY_GPT].state = "GPT_OK"
  BY <1>1, <1>2, PrimaryKeeps
<1>4. CASE stage = UPDATE_MAIN
  <2>1. LunDone(FALSE) /\ stage' = UPDATE_MAIN
    BY <1>4 DEF SetPrimary, LunDone
  <2>2. \A k \in Twin : k = lun => Prepared(k, stage)'
    BY <1>2, <1>3, <1>4, <2>1 DEF Prepared, UPDATE_MAIN, UPDATE_BACKUP
  <2>3. CallInv' /\ pc' = "check"
    BY <1>1, <1>3, <2>1, <2>2, LunDoneCall DEF AtLun
  <2>4. QED
    BY <1>3, <2>3 DEF IInv, DiskInv
<1>5. CASE stage # UPDATE_MAIN
  <2>1. pc' = "secondary" /\ stage' = stage /\ lun' = lun /\ GoTo("secondary")
    BY <1>5 DEF SetPrimary, GoTo
  <2>2. CallInv'
    BY <1>1, <1>3, <2>1, GoToCall DEF AtLun, PCs
  <2>3. l \in Twin /\ stage = UPDATE_BACKUP /\ InternalStage(l) = stage
    BY <1>1, <1>2, <1>5 DEF AtLun, StepInv, Stages
  <2>4. gpt[l][SECONDARY_GPT].state = "GPT_OK"
    BY <2>3, StageOfStates
  <2>5. InternalStage(l)' = UPDATE_MAIN
    BY <1>3, <1>5, <2>4 DEF InternalStage
  <2>6. StepInv'
    BY <1>2, <1>3, <1>5, <2>1, <2>3, <2>5 DEF StepInv, ArrayValid, UPDATE_BACKUP, UPDATE_FINALIZE
  <2>7. QED
    BY <1>2, <1>3, <2>1, <2>2, <2>6 DEF IInv, DiskInv
<1>6. QED
  BY <1>4, <1>5

LEMMA SetSecondaryIInv == IInv /\ TypeOK' /\ SetSecondary => IInv'
<1>. SUFFICES ASSUME IInv, TypeOK', SetSecondary PROVE IInv'
  OBVIOUS
<1>1. AtLun /\ pc = "secondary" /\ UNCHANGED image /\ PutSecondary(lun) /\ LunDone(FALSE)
  BY AtLunHolds DEF SetSecondary
<1>2. DiskInv' /\ \A k \in Twin \ {lun} : gpt'[k] = gpt[k]
  BY <1>1, SecondaryKeeps
<1>3. ASSUME NEW k \in Twin, k = lun PROVE Prepared(k, stage)'
  <2>1. stage' = stage /\ stage # UPDATE_MAIN
    BY <1>1 DEF LunDone, AtLun, StepInv
  <2>2. stage = UPDATE_BACKUP => BadSig(k, SECONDARY_GPT)'
    BY <1>1, <1>3, SecondaryKeeps, ConstantsAssumption
  <2>3. QED
    BY <2>1, <2>2 DEF Prepared
<1>4. CallInv' /\ pc' = "check"
  BY <1>1, <1>2, <1>3, LunDoneCall DEF AtLun
<1>5. QED
  BY <1>2, <1>4 DEF IInv, DiskInv

LEMMA ReturnIInv == IInv /\ TypeOK' /\ Return => IInv'
<1>. SUFFICES ASSUME IInv, TypeOK', Return PROVE IInv'
  OBVIOUS
<1>1. /\ UNCHANGED <<gpt, bootLun, image>> /\ pc = "check" /\ lun > NumLuns
      /\ pc' = "idle" /\ stage' = no_stage /\ lun' = 1
  BY DEF Return, disk
<1>2. DiskInv'
  BY <1>1, ChainFrame, ConstantsAssumption DEF IInv, DiskInv, NoTwinInv, BadSig
<1>3. ~isError => \A l \in Twin : Prepared(l, stage)
  BY <1>1, ConstantsAssumption DEF IInv, CallInv, Luns, TypeOK
<1>4. /\ granted' = "primary" => \A l \in Twin : BadSig(l, PRIMARY_GPT)'
      /\ granted' = "backup" => \A l \in Twin : BadSig(l, SECONDARY_GPT)'
  BY <1>1, <1>3 DEF Return, Released, Prepared, BadSig
<1>5. MayCall(no_stage)' /\ \A l \in Twin : ~(l < lun')
  BY <1>1, ConstantsAssumption DEF MayCall, no_stage, UPDATE_BACKUP, UPDATE_FINALIZE, Luns
<1>6. CallInv'
  BY <1>1, <1>4, <1>5 DEF CallInv
<1>7. QED
  BY <1>1, <1>2, <1>6 DEF IInv, DiskInv

LEMMA IoErrorIInv == IInv /\ TypeOK' /\ IoError => IInv'
<1>. SUFFICES ASSUME IInv, TypeOK', IoError PROVE IInv'
  OBVIOUS
<1>1. pc # "idle" /\ lun \in Luns /\ LunDone(TRUE) /\ UNCHANGED image
  BY DEF IoError
<1>2. DiskInv' /\ \A k \in Twin \ {lun} : gpt'[k] = gpt[k]
  <2>1. CASE UNCHANGED gpt
    BY <1>1, <2>1, ChainFrame, ConstantsAssumption DEF IInv, DiskInv, NoTwinInv, BadSig
  <2>2. CASE pc = "header" /\ PutHeaderCrc(lun)
    BY <1>1, <2>2, HeaderKeeps, AtLunHolds
  <2>3. ASSUME NEW e, pc = "entries", PutEntries(lun, e)
        PROVE  DiskInv' /\ \A k \in Twin \ {lun} : gpt'[k] = gpt[k]
    BY <1>1, <2>3, EntriesKeep, AtLunHolds
  <2>4. CASE pc = "primary" /\ PutPrimary(lun)
    BY <1>1, <2>4, PrimaryKeeps, AtLunHolds
  <2>5. CASE pc = "secondary" /\ PutSecondary(lun)
    BY <1>1, <2>5, SecondaryKeeps, AtLunHolds
  <2>6. QED
    BY <2>1, <2>2, <2>3, <2>4, <2>5 DEF IoError
<1>3. CallInv' /\ pc' = "check"
  BY <1>1, <1>2, LunDoneCall
<1>4. QED
  BY <1>2, <1>3 DEF IInv, DiskInv

LEMMA CrashIInv == IInv /\ TypeOK' /\ Crash => IInv'
<1>. SUFFICES ASSUME IInv, TypeOK', Crash PROVE IInv'
  OBVIOUS
<1>1. UNCHANGED image /\ pc' = "idle" /\ stage' = no_stage /\ lun' = 1 /\ granted' = "none"
  BY DEF Crash
<1>2. DiskInv'
  <2>1. CASE UNCHANGED gpt
    BY <1>1, <2>1, ChainFrame, ConstantsAssumption DEF IInv, DiskInv, NoTwinInv, BadSig
  <2>2. CASE pc = "entries" /\ PutEntries(lun, "torn")
    BY <1>1, <2>2, EntriesKeep, AtLunHolds
  <2>3. QED
    BY <2>1, <2>2 DEF Crash
<1>3. MayCall(no_stage)' /\ \A l \in Twin : ~(l < lun')
  BY <1>1, ConstantsAssumption DEF MayCall, no_stage, UPDATE_BACKUP, UPDATE_FINALIZE, Luns
<1>4. CallInv'
  BY <1>1, <1>3 DEF CallInv
<1>5. QED
  BY <1>1, <1>2, <1>4 DEF IInv, DiskInv

LEMMA FlashIInv ==
  ASSUME IInv, TypeOK', NEW u \in Units, NEW i \in {"partial", "new"}, Flash(u, i)
  PROVE  IInv'
<1>1. /\ pc = "idle" /\ granted \in Copies /\ UNCHANGED <<gpt, bootLun>> /\ UNCHANGED call
      /\ image' = [image EXCEPT ![u][granted] = i]
  BY DEF Flash, IInv, TypeOK
<1>2. ASSUME NEW l \in Twin PROVE ChainInv(l)'
  <2>1. l \in Units /\ image \in [Units -> [Copies -> Images]]
    BY ConstantsAssumption DEF Units, IInv, TypeOK
  <2>2. \A c \in Copies : c # granted => image'[l][c] = image[l][c]
    BY <1>1, <2>1
  <2>3. granted = "primary" => BadSig(l, PRIMARY_GPT)
    BY DEF IInv, CallInv
  <2>4. granted = "backup" => BadSig(l, SECONDARY_GPT)
    BY DEF IInv, CallInv
  <2>5. ChainInv(l)
    BY DEF IInv
  <2>6. QED
    BY <1>1, <2>2, <2>3, <2>4, <2>5 DEF ChainInv, BadSig, Valid, ArrayValid, Leads, Copies
<1>3. NoTwinInv'
  BY <1>1 DEF IInv, NoTwinInv, BadSig
<1>4. stage = no_stage /\ MayCall(no_stage)'
  BY <1>1 DEF IInv, CallInv, MayCall, no_stage, UPDATE_BACKUP, UPDATE_FINALIZE
<1>5. CallInv'
  BY <1>1, <1>4 DEF IInv, CallInv, Prepared, BadSig, call
<1>6. QED
  BY <1>1, <1>2, <1>3, <1>5 DEF IInv, call

LEMMA CallIInv ==
  ASSUME IInv, TypeOK', NEW s \in Stages, Call(s)
  PROVE  IInv'
<1>1. /\ UNCHANGED <<gpt, bootLun, image>> /\ MayCall(s) /\ pc' = "check"
      /\ stage' = s /\ lun' = 1 /\ granted' = "none"
  BY DEF Call, disk
<1>2. DiskInv'
  BY <1>1, ChainFrame, ConstantsAssumption DEF IInv, DiskInv, NoTwinInv, BadSig
<1>3. MayCall(stage)' /\ s # no_stage /\ \A l \in Twin : ~(l < lun')
  BY <1>1, ConstantsAssumption
     DEF MayCall, CopiesComplete, Stages, no_stage, UPDATE_MAIN, UPDATE_BACKUP, UPDATE_FINALIZE, Luns
<1>4. CallInv'
  BY <1>1, <1>3 DEF CallInv
<1>5. QED
  BY <1>1, <1>2, <1>4 DEF IInv, DiskInv

LEMMA StutterIInv == IInv /\ UNCHANGED vars => IInv'
BY DEF IInv, TypeOK, ChainInv, BadSig, Valid, ArrayValid, Leads, StepInv, InternalStage,
       ChainEntries, CallInv, MayCall, CopiesComplete, Prepared, NoTwinInv, vars

LEMMA NextIInv ==
  ASSUME ShortWrites = FALSE
  PROVE  IInv /\ [Next]_vars => IInv'
<1>. SUFFICES ASSUME IInv, [Next]_vars PROVE IInv'
  OBVIOUS
<1>1. TypeOK'
  BY NextType DEF IInv, LunInv
<1>2. QED
  BY <1>1, CallIInv, CheckStageIInv, SetBootLunIInv, WriteHeaderIInv, WriteEntriesIInv,
     SetPrimaryIInv, SetSecondaryIInv, ReturnIInv, IoErrorIInv, CrashIInv, FlashIInv, StutterIInv
     DEF Next, Step

(* The strengthened invariant holds of every reachable state when no       *)
(* write(2) is short.                                                      *)
THEOREM InductiveInvariant ==
  ASSUME ShortWrites = FALSE
  PROVE  Spec => []IInv
<1>1. IInv /\ [Next]_vars => IInv'
  BY NextIInv
<1>2. QED
  BY <1>1, InitIInv, PTL DEF Spec

(* At every moment, with any number of power cuts and failed operations    *)
(* behind it, the boot loader finds on every LUN with twins a table that   *)
(* leads to a complete copy.                                               *)
THEOREM AlwaysBootable ==
  ASSUME ShortWrites = FALSE
  PROVE  Spec => []Bootable
<1>1. IInv => Bootable
  BY DEF IInv, ChainInv, Bootable, Selected, CopyOf, Copies, Valid, ArrayValid, Leads, BadSig
<1>2. QED
  BY <1>1, InductiveInvariant, PTL

-----------------------------------------------------------------------------
(* Short writes.  When write(2) may stop early, Bootable is lost, for the  *)
(* secondary entries may be torn when the primary header is spoilt.  This  *)
(* much of the invariant never looks at the secondary entries and stays.   *)

TablesInv(l) ==
  LET p == gpt[l][PRIMARY_GPT]
      s == gpt[l][SECONDARY_GPT]
  IN  /\ p.crc = "normal" /\ p.entries \in {"normal", "torn"}
      /\ BadSig(l, PRIMARY_GPT) => ArrayValid(p) /\ s.state = "GPT_OK" /\ s.crc = "backup"
      /\ BadSig(l, SECONDARY_GPT) => Valid(p)

WalkStepInv ==
  LET p == gpt[lun][PRIMARY_GPT]
      s == gpt[lun][SECONDARY_GPT]
  IN  /\ pc \in {"bootlun", "header", "entries", "primary"} => InternalStage(lun) = stage
      /\ pc \in {"header", "entries"} => stage # UPDATE_BACKUP
      /\ pc = "primary" => stage # UPDATE_FINALIZE
      /\ pc = "secondary" => stage # UPDATE_MAIN
      /\ pc \in {"entries", "primary", "secondary"} => lun \in Twin /\ ArrayValid(p)
      /\ pc = "entries" => s.crc = ChainEntries(lun)
      /\ pc = "primary" /\ stage = UPDATE_MAIN => s.crc = "backup"
      /\ pc = "secondary" =>
           InternalStage(lun) = IF stage = UPDATE_BACKUP THEN UPDATE_MAIN ELSE UPDATE_FINALIZE

WalkInv == /\ TypeOK
           /\ \A l \in Twin : TablesInv(l)
           /\ pc \notin {"idle", "check"} => lun \in Luns /\ WalkStepInv
           /\ CallInv
           /\ NoTwinInv

LEMMA InitWalk == Init => WalkInv
BY InitIInv DEF IInv, WalkInv, ChainInv, TablesInv, Leads, ArrayValid, Init

LEMMA WalkFrame ==
  ASSUME NEW l \in Luns, TablesInv(l), gpt'[l] = gpt[l]
  PROVE  TablesInv(l)'
BY DEF TablesInv, BadSig, Valid, ArrayValid

(* A step of the code touches the tables of one LUN and no image.          *)
LEMMA CodeTouchesOneLun ==
  ASSUME TypeOK, pc \notin {"idle", "check"} => lun \in Luns,
         Step \/ Return \/ IoError \/ Crash \/ \E s \in Stages : Call(s)
  PROVE  UNCHANGED image /\ \A k \in Luns \ {lun} : gpt'[k] = gpt[k]
<1>1. gpt \in Disks
  BY DEF TypeOK
<1>2. ASSUME lun \in Luns, NEW e, \/ PutHeaderCrc(lun) \/ PutEntries(lun, e)
                                  \/ PutPrimary(lun) \/ PutSecondary(lun)
      PROVE  \A k \in Luns \ {lun} : gpt'[k] = gpt[k]
  BY <1>1, <1>2, PutHeaderCrcEffect, PutEntriesEffect, PutStateEffect
     DEF OnlyChanges, PutPrimary, PutSecondary, Instances
<1>3. CASE UNCHANGED gpt
  BY <1>3 DEF Step, CheckStage, SetBootLun, WriteHeader, WriteEntries, SetPrimary, SetSecondary,
              Return, IoError, Crash, Call, disk
<1>4. CASE \E s \in Stages : Call(s)
  BY <1>3, <1>4 DEF Call, disk
<1>5. CASE CheckStage \/ SetBootLun \/ Return
  BY <1>3, <1>5 DEF CheckStage, SetBootLun, Return, disk
<1>6. CASE WriteHeader \/ WriteEntries \/ SetPrimary \/ SetSecondary
  BY <1>2, <1>3, <1>6 DEF WriteHeader, WriteEntries, SetPrimary, SetSecondary
<1>7. CASE IoError
  BY <1>2, <1>7 DEF IoError
<1>8. CASE Crash
  BY <1>2, <1>8 DEF Crash
<1>9. QED
  BY <1>4, <1>5, <1>6, <1>7, <1>8 DEF Step

(* What the steps before a write have established of the LUN it goes to.   *)
LEMMA WritesToFitLun ==
  ASSUME WalkInv, lun \in Luns, pc \in {"header", "entries", "primary", "secondary"},
         pc = "header" => ArrayValid(gpt[lun][PRIMARY_GPT]) /\ ChainHasTwins(lun)
  PROVE  lun \in Twin /\ ~IsDamaged(lun)
<1>1. WalkStepInv /\ stage \in Stages
  BY DEF WalkInv, CallInv, TypeOK
<1>2. CASE pc = "header"
  <2>1. stage \in {UPDATE_MAIN, UPDATE_FINALIZE} /\ InternalStage(lun) = stage
    BY <1>1, <1>2 DEF WalkStepInv, Stages
  <2>2. \A g \in Instances : gpt[lun][g].state # "GPT_BAD_CRC"
    BY <2>1, StageOfStates DEF Instances, BadSig
  <2>3. lun \in Twin
    BY <1>2, <2>1, StageOfStates DEF WalkInv, NoTwinInv, ChainHasTwins, Instances
  <2>4. QED
    BY <1>2, <2>2, <2>3 DEF IsDamaged
<1>3. CASE pc \in {"entries", "primary", "secondary"}
  <2>1. lun \in Twin /\ ArrayValid(gpt[lun][PRIMARY_GPT])
    BY <1>1, <1>3 DEF WalkStepInv
  <2>2. InternalStage(lun) \in Stages
    BY <1>1, <1>3 DEF WalkStepInv, Stages
  <2>3. \A g \in Instances : gpt[lun][g].state # "GPT_BAD_CRC"
    BY <2>2, StageOfStates DEF Stages, Instances, BadSig
  <2>4. QED
    BY <2>1, <2>3 DEF IsDamaged
<1>4. QED
  BY <1>2, <1>3

(* Whatever part of a write reaches the disk, in its step, before a failed *)
(* fsync or before a power cut, the tables keep their part.                *)
LEMMA WritesKeepTables ==
  ASSUME WalkInv, pc \notin {"idle", "check"}, lun \in Luns,
         \/ UNCHANGED gpt
         \/ pc = "header" /\ PutHeaderCrc(lun)
         \/ pc = "entries" /\ \E e : PutEntries(lun, e)
         \/ pc = "primary" /\ PutPrimary(lun)
         \/ pc = "secondary" /\ PutSecondary(lun)
  PROVE  (\A l \in Twin : TablesInv(l)') /\ NoTwinInv'
<1>1. gpt \in Disks /\ WalkStepInv /\ stage \in Stages
  BY DEF WalkInv, CallInv, TypeOK
<1>2. CASE UNCHANGED gpt
  BY <1>2, WalkFrame, ConstantsAssumption DEF WalkInv, NoTwinInv, BadSig
<1>3. CASE ~UNCHANGED gpt
  <2>1. pc \in {"header", "entries", "primary", "secondary"}
    BY <1>3
  <2>2. lun \in Twin
    BY <2>1, <1>3, WritesToFitLun DEF PutHeaderCrc
  <2>3. \A k \in Luns \ {lun} : gpt'[k] = gpt[k]
    BY <1>1, <1>3, PutHeaderCrcEffect, PutEntriesEffect, PutStateEffect
       DEF OnlyChanges, PutPrimary, PutSecondary, Instances
  <2>4. ASSUME NEW k \in Twin, k = lun PROVE TablesInv(k)'
    <3>1. TablesInv(k)
      BY DEF WalkInv
    <3>2. CASE pc = "header" /\ PutHeaderCrc(lun)
      <4>1. ~BadSig(lun, PRIMARY_GPT)
        BY <1>1, <3>2, StageOfStates DEF WalkStepInv, Stages, BadSig
      <4>2. /\ gpt'[lun][PRIMARY_GPT] = gpt[lun][PRIMARY_GPT]
            /\ gpt'[lun][SECONDARY_GPT].state = gpt[lun][SECONDARY_GPT].state
        BY <1>1, <3>2, PutHeaderCrcEffect DEF OnlyChanges, Instances, PRIMARY_GPT, SECONDARY_GPT
      <4>3. QED
        BY <2>4, <3>1, <4>1, <4>2 DEF TablesInv, BadSig, Valid, ArrayValid
    <3>3. ASSUME NEW e, PutEntries(lun, e) PROVE TablesInv(k)'
      <4>1. /\ gpt'[lun][PRIMARY_GPT] = gpt[lun][PRIMARY_GPT]
            /\ gpt'[lun][SECONDARY_GPT].state = gpt[lun][SECONDARY_GPT].state
            /\ gpt'[lun][SECONDARY_GPT].crc = gpt[lun][SECONDARY_GPT].crc
        BY <1>1, <3>3, PutEntriesEffect DEF OnlyChanges, Instances, PRIMARY_GPT, SECONDARY_GPT
      <4>2. QED
        BY <2>4, <3>1, <4>1 DEF TablesInv, BadSig, Valid, ArrayValid
    <3>4. CASE pc = "primary" /\ PutPrimary(lun)
      <4>1. /\ gpt'[lun][SECONDARY_GPT] = gpt[lun][SECONDARY_GPT]
            /\ gpt'[lun][PRIMARY_GPT].crc = gpt[lun][PRIMARY_GPT].crc
            /\ gpt'[lun][PRIMARY_GPT].entries = gpt[lun][PRIMARY_GPT].entries
        BY <1>1, <3>4, PutStateEffect DEF PutPrimary, OnlyChanges, Instances, PRIMARY_GPT, SECONDARY_GPT
      <4>2. gpt'[lun][PRIMARY_GPT].state = IF stage = UPDATE_MAIN THEN "GPT_BAD_SIGNATURE" ELSE "GPT_OK"
        BY <1>1, <3>4, PutStateEffect DEF PutPrimary, Instances
      <4>3. gpt[lun][SECONDARY_GPT].state = "GPT_OK"
        BY <1>1, <3>4, StageOfStates DEF WalkStepInv, Stages
      <4>4. /\ ArrayValid(gpt[lun][PRIMARY_GPT])
            /\ stage = UPDATE_MAIN => gpt[lun][SECONDARY_GPT].crc = "backup"
        BY <1>1, <3>4 DEF WalkStepInv
      <4>5. QED
        BY <2>4, <3>1, <4>1, <4>2, <4>3, <4>4 DEF TablesInv, BadSig, Valid, ArrayValid
    <3>5. CASE pc = "secondary" /\ PutSecondary(lun)
      <4>1. gpt'[lun][PRIMARY_GPT] = gpt[lun][PRIMARY_GPT]
        BY <1>1, <3>5, PutStateEffect DEF PutSecondary, OnlyChanges, Instances, PRIMARY_GPT, SECONDARY_GPT
      <4>2. ArrayValid(gpt[lun][PRIMARY_GPT]) /\ gpt[lun][PRIMARY_GPT].state = "GPT_OK"
        BY <1>1, <3>5, StageOfStates DEF WalkStepInv
      <4>3. QED
        BY <2>4, <3>1, <4>1, <4>2 DEF TablesInv, BadSig, Valid, ArrayValid
    <3>6. QED
      BY <1>3, <3>2, <3>3, <3>4, <3>5
  <2>5. \A l \in Twin : TablesInv(l)'
    BY <2>3, <2>4, WalkFrame, ConstantsAssumption DEF WalkInv
  <2>6. NoTwinInv'
    BY <2>2, <2>3 DEF WalkInv, NoTwinInv, BadSig
  <2>7. QED
    BY <2>5, <2>6
<1>4. QED
  BY <1>2, <1>3

(* The code's steps at a LUN: it stays at it or is done with it.           *)
LEMMA StepWalks ==
  ASSUME WalkInv, TypeOK', Step
  PROVE  WalkInv'
<1>. USE DEF no_stage, UPDATE_MAIN, UPDATE_BACKUP, UPDATE_FINALIZE
<1>1. /\ TypeOK /\ CallInv /\ pc # "idle" /\ lun \in Luns /\ stage \in Stages
      /\ pc # "check" => WalkStepInv
  BY DEF WalkInv, CallInv, TypeOK, Step, CheckStage, SetBootLun, WriteHeader, WriteEntries,
         SetPrimary, SetSecondary
<1>2. UNCHANGED image /\ \A l \in Twin \ {lun} : gpt'[l] = gpt[l]
  BY <1>1, CodeTouchesOneLun, ConstantsAssumption
<1>3. (\A l \in Twin : TablesInv(l)') /\ NoTwinInv'
  <2>1. CASE pc = "check"
    <3>1. UNCHANGED gpt
      BY <2>1 DEF Step, CheckStage, SetBootLun, WriteHeader, WriteEntries, SetPrimary,
                  SetSecondary, disk
    <3>2. QED
      BY <3>1, WalkFrame, ConstantsAssumption DEF WalkInv, NoTwinInv, BadSig
  <2>2. CASE pc # "check"
    <3>1. \/ UNCHANGED gpt
          \/ pc = "header" /\ PutHeaderCrc(lun)
          \/ pc = "entries" /\ \E e : PutEntries(lun, e)
          \/ pc = "primary" /\ PutPrimary(lun)
          \/ pc = "secondary" /\ PutSecondary(lun)
      BY <2>2 DEF Step, CheckStage, SetBootLun, WriteHeader, WriteEntries, SetPrimary, SetSecondary
    <3>2. QED
      BY <1>1, <2>2, <3>1, WritesKeepTables
  <2>3. QED
    BY <2>1, <2>2
<1>. DEFINE p == gpt[lun][PRIMARY_GPT]
            s == gpt[lun][SECONDARY_GPT]
            internal == InternalStage(lun)
<1>4. ASSUME NEW failed \in BOOLEAN, LunDone(failed),
             \A l \in Twin : ~failed /\ l = lun => Prepared(l, stage)'
      PROVE  WalkInv'
  <2>1. CallInv' /\ pc' = "check"
    BY <1>1, <1>2, <1>4, LunDoneWalks
  <2>2. QED
    BY <1>3, <2>1 DEF WalkInv
<1>5. ASSUME NEW label \in PCs \ {"idle", "check"}, GoTo(label), WalkStepInv'
      PROVE  WalkInv'
  <2>1. CallInv'
    BY <1>1, <1>2, <1>5, GoToWalks
  <2>2. lun' \in Luns
    BY <1>1, <1>5 DEF GoTo
  <2>3. QED
    BY <1>3, <1>5, <2>1, <2>2 DEF WalkInv
<1>6. CASE CheckStage
  <2>1. UNCHANGED gpt
    BY <1>6 DEF CheckStage, disk
  <2>2. CASE AlreadySet(internal) /\ LunDone(FALSE)
    <3>1. internal \in Stages /\ stage = internal - 1
      BY <2>2 DEF AlreadySet, InternalStage, Stages
    <3>2. /\ stage = UPDATE_MAIN => BadSig(lun, PRIMARY_GPT)
          /\ stage = UPDATE_BACKUP => BadSig(lun, SECONDARY_GPT)
      BY <1>1, <3>1, StageOfStates DEF Stages
    <3>3. \A l \in Twin : l = lun => Prepared(l, stage)'
      BY <2>1, <2>2, <3>2 DEF Prepared, BadSig, LunDone
    <3>4. QED
      BY <1>4, <2>2, <3>3
  <2>3. CASE LunDone(TRUE)
    BY <1>4, <2>3
  <2>4. CASE stage = internal /\ GoTo(IF UsesXbl /\ stage # UPDATE_FINALIZE
                                        THEN "bootlun" ELSE FirstWrite)
    <3>. DEFINE label == IF UsesXbl /\ stage # UPDATE_FINALIZE THEN "bootlun" ELSE FirstWrite
    <3>1. /\ label \in {"bootlun", "header", "primary"} /\ pc' = label
          /\ label = "header" => stage # UPDATE_BACKUP
          /\ label = "primary" => stage = UPDATE_BACKUP
          /\ stage' = stage /\ lun' = lun
      BY <2>4 DEF FirstWrite, GoTo
    <3>2. stage = UPDATE_BACKUP => lun \in Twin /\ ArrayValid(p)
      <4>1. stage = UPDATE_BACKUP => BadSig(lun, PRIMARY_GPT)
        BY <1>1, <2>4, StageOfStates
      <4>2. QED
        BY <1>1, <4>1 DEF WalkInv, NoTwinInv, Instances, TablesInv
    <3>3. InternalStage(lun)' = stage'
      BY <2>1, <2>4, <3>1 DEF InternalStage
    <3>4. ArrayValid(gpt'[lun'][PRIMARY_GPT]) <=> ArrayValid(p)
      BY <2>1, <3>1
    <3>5. WalkStepInv'
      BY <3>1, <3>2, <3>3, <3>4 DEF WalkStepInv
    <3>6. QED
      BY <1>5, <2>4, <3>1, <3>5 DEF PCs
  <2>5. QED
    BY <1>6, <2>2, <2>3, <2>4 DEF CheckStage
<1>7. CASE SetBootLun
  <2>1. UNCHANGED gpt /\ GoTo(FirstWrite) /\ internal = stage /\ pc = "bootlun"
    BY <1>1, <1>7 DEF SetBootLun, WalkStepInv
  <2>2. /\ FirstWrite \in {"header", "primary"} /\ pc' = FirstWrite
        /\ FirstWrite = "header" => stage # UPDATE_BACKUP
        /\ FirstWrite = "primary" => stage = UPDATE_BACKUP
        /\ stage' = stage /\ lun' = lun
    BY <2>1 DEF FirstWrite, GoTo
  <2>3. stage = UPDATE_BACKUP => lun \in Twin /\ ArrayValid(p)
    <3>1. stage = UPDATE_BACKUP => BadSig(lun, PRIMARY_GPT)
      BY <1>1, <2>1, StageOfStates
    <3>2. QED
      BY <1>1, <3>1 DEF WalkInv, NoTwinInv, Instances, TablesInv
  <2>4. InternalStage(lun)' = stage'
    BY <2>1, <2>2 DEF InternalStage
  <2>5. ArrayValid(gpt'[lun'][PRIMARY_GPT]) <=> ArrayValid(p)
    BY <2>1, <2>2
  <2>6. WalkStepInv'
    BY <2>2, <2>3, <2>4, <2>5 DEF WalkStepInv
  <2>7. QED
    BY <1>5, <2>1, <2>2, <2>6 DEF PCs
<1>8. CASE WriteHeader
  <2>1. internal = stage /\ stage \in {UPDATE_MAIN, UPDATE_FINALIZE} /\ pc = "header"
    BY <1>1, <1>8 DEF WriteHeader, WalkStepInv, Stages
  <2>2. CASE LunDone(TRUE)
    BY <1>4, <2>2
  <2>3. CASE ~ChainHasTwins(lun) /\ LunDone(FALSE)
    BY <1>4, <2>3 DEF ChainHasTwins
  <2>4. CASE PutHeaderCrc(lun) /\ GoTo("entries")
    <3>1. /\ gpt'[lun][PRIMARY_GPT] = p
          /\ gpt'[lun][SECONDARY_GPT].state = s.state
          /\ gpt'[lun][SECONDARY_GPT].crc = ChainEntries(lun)
      BY <1>1, <2>4, PutHeaderCrcEffect DEF TypeOK, OnlyChanges, Instances, PRIMARY_GPT, SECONDARY_GPT
    <3>2. stage' = stage /\ lun' = lun /\ pc' = "entries"
      BY <2>4 DEF GoTo
    <3>3. lun \in Twin /\ ArrayValid(p)
      BY <1>1, <2>1, <2>4, WritesToFitLun DEF PutHeaderCrc
    <3>4. InternalStage(lun)' = stage' /\ ChainEntries(lun)' = ChainEntries(lun)
      BY <2>1, <3>1, <3>2 DEF InternalStage, ChainEntries, Swapped
    <3>5. WalkStepInv'
      BY <2>1, <3>1, <3>2, <3>3, <3>4 DEF WalkStepInv, ArrayValid
    <3>6. QED
      BY <1>5, <2>4, <3>5 DEF PCs
  <2>5. QED
    BY <1>8, <2>2, <2>3, <2>4 DEF WriteHeader
<1>9. CASE WriteEntries
  <2>1. PICK e : PutEntries(lun, e)
    BY <1>9 DEF WriteEntries
  <2>2. /\ gpt'[lun][PRIMARY_GPT] = p
        /\ gpt'[lun][SECONDARY_GPT].state = s.state
        /\ gpt'[lun][SECONDARY_GPT].crc = s.crc
    BY <1>1, <2>1, PutEntriesEffect DEF TypeOK, OnlyChanges, Instances, PRIMARY_GPT, SECONDARY_GPT
  <2>3. /\ GoTo(IF stage = UPDATE_MAIN THEN "primary" ELSE "secondary")
        /\ stage' = stage /\ lun' = lun /\ pc = "entries"
        /\ pc' = IF stage = UPDATE_MAIN THEN "primary" ELSE "secondary"
    BY <1>9 DEF WriteEntries, GoTo
  <2>4. /\ internal = stage /\ stage \in {UPDATE_MAIN, UPDATE_FINALIZE}
        /\ lun \in Twin /\ ArrayValid(p) /\ s.crc = ChainEntries(lun)
    BY <1>1, <2>3 DEF WalkStepInv, Stages
  <2>5. stage = UPDATE_MAIN => s.crc = "backup"
    <3>1. p.crc = "normal"
      BY <2>4 DEF WalkInv, TablesInv
    <3>2. QED
      BY <2>4, <3>1 DEF ChainEntries, Swapped, ArrayValid
  <2>6. InternalStage(lun)' = stage'
    BY <2>2, <2>3, <2>4 DEF InternalStage
  <2>7. WalkStepInv'
    BY <2>2, <2>3, <2>4, <2>5, <2>6 DEF WalkStepInv, ArrayValid
  <2>8. QED
    BY <1>5, <2>3, <2>7 DEF PCs
<1>10. CASE SetPrimary
  <2>1. /\ gpt'[lun][SECONDARY_GPT] = s
        /\ gpt'[lun][PRIMARY_GPT].crc = p.crc /\ gpt'[lun][PRIMARY_GPT].entries = p.entries
        /\ gpt'[lun][PRIMARY_GPT].state = IF stage = UPDATE_MAIN THEN "GPT_BAD_SIGNATURE" ELSE "GPT_OK"
    BY <1>1, <1>10, PutStateEffect
       DEF SetPrimary, PutPrimary, TypeOK, OnlyChanges, Instances, PRIMARY_GPT, SECONDARY_GPT
  <2>2. CASE stage = UPDATE_MAIN
    <3>1. LunDone(FALSE) /\ stage' = stage
      BY <1>10, <2>2 DEF SetPrimary, LunDone
    <3>2. \A l \in Twin : l = lun => Prepared(l, stage)'
      BY <2>1, <2>2, <3>1 DEF Prepared, BadSig
    <3>3. QED
      BY <1>4, <3>1, <3>2
  <2>3. CASE stage # UPDATE_MAIN
    <3>1. stage = UPDATE_BACKUP /\ internal = stage /\ lun \in Twin /\ ArrayValid(p)
      BY <1>1, <1>10, <2>3 DEF SetPrimary, WalkStepInv, Stages
    <3>2. GoTo("secondary") /\ stage' = stage /\ lun' = lun /\ pc' = "secondary"
      BY <1>10, <2>3 DEF SetPrimary, GoTo
    <3>3. s.state = "GPT_OK"
      BY <1>1, <3>1, StageOfStates
    <3>4. InternalStage(lun)' = UPDATE_MAIN
      BY <2>1, <2>3, <3>2, <3>3 DEF InternalStage
    <3>5. WalkStepInv'
      BY <2>1, <3>1, <3>2, <3>4 DEF WalkStepInv, ArrayValid
    <3>6. QED
      BY <1>5, <3>2, <3>5 DEF PCs
  <2>4. QED
    BY <2>2, <2>3
<1>11. CASE SetSecondary
  <2>1. gpt'[lun][SECONDARY_GPT].state = IF stage = UPDATE_BACKUP THEN "GPT_BAD_SIGNATURE" ELSE "GPT_OK"
    BY <1>1, <1>11, PutStateEffect DEF SetSecondary, PutSecondary, TypeOK, Instances
  <2>2. stage # UPDATE_MAIN /\ LunDone(FALSE)
    BY <1>1, <1>11 DEF SetSecondary, WalkStepInv
  <2>3. \A l \in Twin : l = lun => Prepared(l, stage)'
    BY <2>1, <2>2 DEF Prepared, BadSig, LunDone
  <2>4. QED
    BY <1>4, <2>2, <2>3
<1>12. QED
  BY <1>6, <1>7, <1>8, <1>9, <1>10, <1>11 DEF Step

LEMMA OutsideWalks ==
  ASSUME WalkInv, TypeOK',
         \/ Return \/ IoError \/ Crash \/ \E s \in Stages : Call(s)
         \/ \E u \in Units, i \in {"partial", "new"} : Flash(u, i)
         \/ UNCHANGED vars
  PROVE  WalkInv'
<1>. USE DEF no_stage, UPDATE_MAIN, UPDATE_BACKUP, UPDATE_FINALIZE
<1>1. TypeOK /\ CallInv /\ (pc \notin {"idle", "check"} => lun \in Luns /\ WalkStepInv)
  BY DEF WalkInv
<1>2. \/ UNCHANGED gpt
      \/ /\ pc \notin {"idle", "check"} /\ lun \in Luns
         /\ \/ pc = "header" /\ PutHeaderCrc(lun)
            \/ pc = "entries" /\ \E e : PutEntries(lun, e)
            \/ pc = "primary" /\ PutPrimary(lun)
            \/ pc = "secondary" /\ PutSecondary(lun)
  BY <1>1 DEF Return, IoError, Crash, Call, Flash, disk, vars
<1>3. (\A l \in Twin : TablesInv(l)') /\ NoTwinInv'
  BY <1>2, WritesKeepTables, WalkFrame, ConstantsAssumption DEF WalkInv, NoTwinInv, BadSig
<1>4. \A l \in Twin : 1 <= l /\ l <= NumLuns /\ l \in Int
  BY ConstantsAssumption DEF Luns
<1>5. CASE Return
  <2>1. /\ lun > NumLuns /\ pc' = "idle" /\ stage' = no_stage /\ lun' = 1 /\ UNCHANGED gpt
        /\ granted' = IF isError THEN "none" ELSE Released
    BY <1>5 DEF Return, disk
  <2>2. ~isError => \A l \in Twin : Prepared(l, stage)
    BY <1>1, <1>4, <2>1, ConstantsAssumption DEF CallInv, TypeOK, Luns
  <2>3. /\ granted' = "primary" => \A l \in Twin : BadSig(l, PRIMARY_GPT)'
        /\ granted' = "backup" => \A l \in Twin : BadSig(l, SECONDARY_GPT)'
    BY <2>1, <2>2 DEF Released, Prepared, BadSig
  <2>4. MayCall(no_stage)' /\ \A l \in Twin : ~(l < lun')
    BY <1>4, <2>1 DEF MayCall
  <2>5. CallInv'
    BY <2>1, <2>3, <2>4 DEF CallInv
  <2>6. QED
    BY <1>3, <2>1, <2>5 DEF WalkInv
<1>6. CASE IoError
  <2>1. pc # "idle" /\ lun \in Luns /\ LunDone(TRUE) /\ UNCHANGED image
    BY <1>6 DEF IoError
  <2>2. \A l \in Twin \ {lun} : gpt'[l] = gpt[l]
    BY <1>1, <1>6, CodeTouchesOneLun, ConstantsAssumption
  <2>3. CallInv' /\ pc' = "check"
    BY <1>1, <2>1, <2>2, LunDoneWalks
  <2>4. QED
    BY <1>3, <2>3 DEF WalkInv
<1>7. CASE Crash
  <2>1. pc' = "idle" /\ stage' = no_stage /\ lun' = 1 /\ granted' = "none"
    BY <1>7 DEF Crash
  <2>2. MayCall(no_stage)' /\ \A l \in Twin : ~(l < lun')
    BY <1>4, <2>1 DEF MayCall
  <2>3. CallInv'
    BY <2>1, <2>2 DEF CallInv
  <2>4. QED
    BY <1>3, <2>1, <2>3 DEF WalkInv
<1>8. ASSUME NEW s \in Stages, Call(s) PROVE WalkInv'
  <2>1. pc' = "check" /\ stage' = s /\ lun' = 1 /\ granted' = "none" /\ MayCall(s) /\ UNCHANGED image
    BY <1>8 DEF Call, disk
  <2>2. MayCall(stage)' /\ \A l \in Twin : ~(l < lun')
    BY <1>4, <2>1 DEF MayCall, CopiesComplete
  <2>3. CallInv'
    BY <1>8, <2>1, <2>2 DEF CallInv, Stages
  <2>4. QED
    BY <1>3, <2>1, <2>3 DEF WalkInv
<1>9. ASSUME NEW u \in Units, NEW i \in {"partial", "new"}, Flash(u, i) PROVE WalkInv'
  <2>1. pc = "idle" /\ UNCHANGED <<gpt, pc, stage, lun, isError, granted>>
    BY <1>9 DEF Flash, call
  <2>2. stage = no_stage /\ MayCall(stage)'
    BY <1>1, <2>1 DEF CallInv, MayCall
  <2>3. CallInv'
    BY <1>1, <2>1, <2>2 DEF CallInv, Prepared, BadSig
  <2>4. QED
    BY <1>3, <2>1, <2>3 DEF WalkInv
<1>10. CASE UNCHANGED vars
  BY <1>10 DEF WalkInv, TypeOK, TablesInv, BadSig, Valid, ArrayValid, WalkStepInv, InternalStage,
       ChainEntries, CallInv, MayCall, CopiesComplete, Prepared, NoTwinInv, vars
<1>11. QED
  BY <1>5, <1>6, <1>7, <1>8, <1>9, <1>10

LEMMA WalkHolds == Spec => []WalkInv
<1>1. WalkInv /\ [Next]_vars => WalkInv'
  <2>1. SUFFICES ASSUME WalkInv, [Next]_vars PROVE WalkInv'
    OBVIOUS
  <2>2. TypeOK'
    BY <2>1, NextType DEF WalkInv, LunInv
  <2>3. QED
    BY <2>1, <2>2, StepWalks, OutsideWalks DEF Next
<1>2. QED
  BY <1>1, InitWalk, PTL DEF Spec

(* A successful call releases, on every LUN with twins, only the copy the  *)
(* boot loader does not use, even when writes stop short.                  *)
THEOREM ReleasedIsNotRunning == Spec => []ReleasedNotRunning
<1>1. WalkInv => ReleasedNotRunning
  BY DEF WalkInv, TypeOK, CallInv, TablesInv, ReleasedNotRunning, Selected, CopyOf, Copies, Valid,
         ArrayValid, BadSig
<1>2. QED
  BY <1>1, WalkHolds, PTL

(* A LUN that is damaged or has no twins is never written to, even when    *)
(* writes stop short.                                                      *)
THEOREM UnfitStaysUntouched == Spec => UnfitUntouched
<1>1. ASSUME WalkInv, [Next]_vars, NEW l \in Luns, IsDamaged(l) \/ l \notin Twin
      PROVE  gpt'[l] = gpt[l]
  <2>1. CASE UNCHANGED gpt
    BY <2>1
  <2>2. CASE /\ ~UNCHANGED gpt
             /\ Step \/ Return \/ IoError \/ Crash \/ \E s \in Stages : Call(s)
    <3>1. TypeOK /\ (pc \notin {"idle", "check"} => lun \in Luns)
      BY <1>1 DEF WalkInv
    <3>2. lun \in Luns /\ pc \in {"header", "entries", "primary", "secondary"}
      BY <2>2, <3>1 DEF Step, CheckStage, SetBootLun, WriteHeader, WriteEntries, SetPrimary,
                        SetSecondary, Return, IoError, Crash, Call, disk
    <3>3. pc = "header" => ArrayValid(gpt[lun][PRIMARY_GPT]) /\ ChainHasTwins(lun)
      BY <2>2 DEF Step, CheckStage, SetBootLun, WriteHeader, WriteEntries, SetPrimary,
                  SetSecondary, Return, IoError, Crash, Call, PutHeaderCrc, disk
    <3>4. l # lun
      BY <1>1, <3>2, <3>3, WritesToFitLun
    <3>5. QED
      BY <1>1, <2>2, <3>1, <3>4, CodeTouchesOneLun
  <2>3. QED
    BY <1>1, <2>1, <2>2 DEF Next, Flash, vars
<1>2. WalkInv /\ [Next]_vars => [\A l \in Luns : IsDamaged(l) \/ l \notin Twin => gpt'[l] = gpt[l]]_vars
  BY <1>1
<1>3. QED
  BY <1>2, WalkHolds, PTL DEF Spec, UnfitUntouched

-----------------------------------------------------------------------------
(* The refinement.                                                         *)

LEMMA SelectedIs ==
  ASSUME IInv, NEW l \in Twin
  PROVE  /\ Selected(l) = IF BadSig(l, PRIMARY_GPT) THEN "backup" ELSE "primary"
         /\ image[l][Selected(l)] # "partial"
BY DEF IInv, ChainInv, Selected, CopyOf, Valid, ArrayValid, Leads, BadSig

LEMMA InitImplements == Init => Abstract!Init
<1>. SUFFICES ASSUME Init PROVE Abstract!Init
  OBVIOUS
<1>1. \A l \in Twin : Selected(l) = "primary"
  <2>1. \A l \in Twin : ~BadSig(l, PRIMARY_GPT)
    <3>1. \A t \in FoundTables : t[PRIMARY_GPT].state # "GPT_BAD_SIGNATURE"
      BY DEF FoundTables, Tables0, Sound, Damaged, Instances
    <3>2. QED
      BY <3>1, ConstantsAssumption DEF Init, BadSig
  <2>2. QED
    BY <2>1, SelectedIs, InitIInv
<1>2. \A l \in Twin : image[l] = [c \in Copies |-> "old"]
  BY ConstantsAssumption DEF Init, Units
<1>3. QED
  BY <1>1, <1>2 DEF Abstract!Init, Abstract!Copies, Copies

LEMMA StepImplements ==
  ASSUME IInv, IInv', [Next]_vars
  PROVE  [Abstract!Next]_Abstract!vars
<1>. DEFINE im == [l \in Twin |-> image[l]]
            se == [l \in Twin |-> Selected(l)]
<1>1. CASE Step \/ Return \/ IoError \/ Crash \/ \E s \in Stages : Call(s)
  <2>1. im' = im /\ \A k \in Twin \ {lun} : gpt'[k] = gpt[k]
    BY <1>1, CodeTouchesOneLun, ConstantsAssumption DEF IInv
  <2>2. \A k \in Twin \ {lun} : Selected(k)' = Selected(k)
    BY <2>1 DEF Selected, Valid, ArrayValid
  <2>3. CASE se' = se
    BY <2>1, <2>3 DEF Abstract!vars
  <2>4. CASE se' # se
    <3>1. PICK l \in Twin : l = lun /\ Selected(l)' # Selected(l)
      BY <2>2, <2>4
    <3>2. /\ Selected(l) \in {"primary", "backup"} /\ Selected(l)' \in {"primary", "backup"}
          /\ image'[l][Selected(l)'] # "partial"
      <4>1. Selected(l) \in {"primary", "backup"}
        BY SelectedIs
      <4>2. Selected(l)' \in {"primary", "backup"} /\ image'[l][Selected(l)'] # "partial"
        BY DEF IInv, ChainInv, Selected, CopyOf, Valid, ArrayValid, Leads, BadSig
      <4>3. QED
        BY <4>1, <4>2
    <3>3. Selected(l)' = Abstract!Other(se[l])
      BY <3>1, <3>2 DEF Abstract!Other
    <3>4. se' = [se EXCEPT ![l] = Abstract!Other(@)]
      BY <2>2, <3>1, <3>3
    <3>5. im[l][Abstract!Other(se[l])] # "partial"
      BY <2>1, <3>2, <3>3
    <3>6. Abstract!Switch(l)
      BY <2>1, <3>4, <3>5 DEF Abstract!Switch
    <3>7. QED
      BY <3>6 DEF Abstract!Next
  <2>5. QED
    BY <2>3, <2>4
<1>2. ASSUME NEW u \in Units, NEW i \in {"partial", "new"}, Flash(u, i)
      PROVE  [Abstract!Next]_Abstract!vars
  <2>1. /\ granted \in Copies /\ UNCHANGED gpt /\ image' = [image EXCEPT ![u][granted] = i]
        /\ image \in [Units -> [Copies -> Images]]
    BY <1>2 DEF Flash, IInv, TypeOK
  <2>2. se' = se
    BY <2>1 DEF Selected, Valid, ArrayValid
  <2>3. CASE u \in Twin
    <3>1. se[u] # granted
      BY <2>1, <2>3, SelectedIs DEF IInv, CallInv, ChainInv, Copies, BadSig, Leads, Valid
    <3>2. im' = [im EXCEPT ![u][granted] = i]
      BY <2>1, <2>3, ConstantsAssumption DEF Units
    <3>3. PICK c \in Copies : c = granted
      BY <2>1
    <3>4. Abstract!Write(u, c)
      BY <2>2, <3>1, <3>2, <3>3 DEF Abstract!Write
    <3>5. Abstract!Next
      BY <2>3, <3>4 DEF Abstract!Next, Abstract!Copies, Copies
    <3>6. QED
      BY <3>5
  <2>4. CASE u \notin Twin
    <3>1. im' = im
      BY <2>1, <2>4, ConstantsAssumption DEF Units
    <3>2. QED
      BY <2>2, <3>1 DEF Abstract!vars
  <2>5. QED
    BY <2>3, <2>4
<1>3. CASE UNCHANGED vars
  BY <1>3 DEF vars, Abstract!vars, Selected, Valid, ArrayValid
<1>4. QED
  BY <1>1, <1>2, <1>3 DEF Next

(* On its LUNs with twins the code implements the abstract fail-safe       *)
(* update: every step is a switch to a complete copy, a write to the copy  *)
(* that is not running, or neither.                                        *)
THEOREM Refinement ==
  ASSUME ShortWrites = FALSE
  PROVE  Spec => ImplementsFailsafe
<1>1. IInv /\ IInv' /\ [Next]_vars => [Abstract!Next]_Abstract!vars
  BY StepImplements
<1>2. QED
  BY <1>1, InitImplements, InductiveInvariant, PTL DEF Spec, ImplementsFailsafe, Abstract!Spec

-----------------------------------------------------------------------------
(* The updater that runs the stages in order.                              *)

(* What the updater knows of the primary copies at each point: it leaves   *)
(* UPDATE_MAIN behind only with them released or all new.                  *)
ImagesInv == /\ stage # no_stage => position = stage
             /\ position # UPDATE_MAIN => AllNew("primary") \/ granted = "primary"
             /\ granted = "backup" => AllNew("primary")

(* The boot LUN is B only while some LUN still waits for UPDATE_BACKUP,    *)
(* which switches back to A before it writes to a LUN.                     *)
XblInv ==
  UsesXbl => /\ bootLun = "B" => \E l \in Luns : ~BadSig(l, SECONDARY_GPT)
             /\ stage = UPDATE_BACKUP /\ pc \in {"header", "entries", "primary", "secondary"}
                  => bootLun = "A"

(* A step of the updater is a step of the update.                          *)
LEMMA ScriptIsUpdate ==
  /\ ScriptInit => Init
  /\ [ScriptNext]_scriptVars => [Next]_vars
<1>1. ScriptInit => Init
  BY DEF ScriptInit
<1>2. ASSUME ScriptNext PROVE Next
  <2>1. CASE CallStage
    BY <2>1 DEF CallStage, Next
  <2>2. CASE CodeStep \/ StageReturns \/ Fault
    BY <2>2 DEF CodeStep, StageReturns, Fault, Next
  <2>3. ASSUME NEW u \in Units, Rewrite(u) PROVE Next
    BY <2>3 DEF Rewrite, Next
  <2>4. QED
    BY <1>2, <2>1, <2>2, <2>3 DEF ScriptNext, Work
<1>3. UNCHANGED scriptVars => UNCHANGED vars
  BY DEF scriptVars
<1>4. QED
  BY <1>1, <1>2, <1>3

(* New primary images stay new: nobody rewrites a copy that is new.        *)
LEMMA NewStaysNew ==
  ASSUME IInv, NEW u \in Units, Rewrite(u), AllNew("primary")
  PROVE  AllNew("primary")'
<1>1. /\ granted \in Copies /\ image[u][granted] # "new"
      /\ \E i : image' = [image EXCEPT ![u][granted] = i]
  BY DEF Rewrite, Flash
<1>2. granted # "primary" /\ image \in [Units -> [Copies -> Images]]
  BY <1>1 DEF AllNew, IInv, TypeOK
<1>3. \A v \in Units : image'[v]["primary"] = image[v]["primary"]
  BY <1>1, <1>2 DEF Copies
<1>4. QED
  BY <1>3 DEF AllNew

LEMMA ImagesKept ==
  ASSUME IInv, ImagesInv, [ScriptNext]_scriptVars
  PROVE  ImagesInv'
<1>1. pc # "idle" => granted = "none" /\ stage # no_stage
  BY DEF IInv, CallInv, TypeOK, Copies
<1>2. UNCHANGED image /\ AllNew("primary") => AllNew("primary")'
  BY DEF AllNew
<1>3. CASE CallStage
  <2>1. UNCHANGED image /\ stage' = position /\ position' = position /\ granted' = "none"
    BY <1>3 DEF CallStage, Call, disk
  <2>2. granted = "primary" => AllNew("primary")
    BY <1>3 DEF CallStage, Copies
  <2>3. QED
    BY <1>2, <2>1, <2>2 DEF ImagesInv
<1>4. CASE CodeStep \/ Fault
  <2>1. CASE CodeStep \/ (IoError /\ UNCHANGED position)
    <3>1. pc # "idle" /\ UNCHANGED <<image, stage, granted, position>>
      BY <2>1 DEF CodeStep, Step, CheckStage, SetBootLun, WriteHeader, WriteEntries, SetPrimary,
                  SetSecondary, IoError, LunDone, GoTo, disk
    <3>2. QED
      BY <1>2, <3>1 DEF ImagesInv
  <2>2. CASE Crash /\ position' = UPDATE_MAIN
    BY <2>2 DEF Crash, ImagesInv
  <2>3. QED
    BY <1>4, <2>1, <2>2 DEF Fault
<1>5. CASE StageReturns
  <2>1. /\ pc # "idle" /\ UNCHANGED image /\ stage' = no_stage /\ position' = AfterReturn
        /\ granted' = IF isError THEN "none" ELSE Released
    BY <1>5 DEF StageReturns, Return, disk
  <2>2. stage # UPDATE_MAIN => AllNew("primary")
    BY <1>1, <2>1 DEF ImagesInv
  <2>3. granted' = "backup" => AllNew("primary")
    BY <2>1, <2>2 DEF Released, UPDATE_MAIN, UPDATE_BACKUP
  <2>4. position' # UPDATE_MAIN => AllNew("primary") \/ granted' = "primary"
    BY <2>1, <2>2 DEF AfterReturn, Released, UPDATE_MAIN, UPDATE_BACKUP
  <2>5. QED
    BY <1>2, <2>1, <2>3, <2>4 DEF ImagesInv
<1>6. ASSUME NEW u \in Units, Rewrite(u) PROVE ImagesInv'
  <2>1. UNCHANGED <<stage, granted, position>>
    BY <1>6 DEF Rewrite, Flash, call
  <2>2. AllNew("primary") => AllNew("primary")'
    BY <1>6, NewStaysNew
  <2>3. QED
    BY <2>1, <2>2 DEF ImagesInv
<1>7. CASE UNCHANGED scriptVars
  BY <1>2, <1>7 DEF ImagesInv, scriptVars, vars
<1>8. QED
  BY <1>3, <1>4, <1>5, <1>6, <1>7 DEF ScriptNext, Work

(* A write that marks no secondary header leaves the waiting LUN waiting.  *)
LEMMA WaitingKept ==
  ASSUME IInv, lun \in Luns, NEW k \in Luns, ~BadSig(k, SECONDARY_GPT),
         \/ UNCHANGED gpt \/ PutHeaderCrc(lun) \/ PutPrimary(lun)
         \/ \E e : PutEntries(lun, e)
         \/ PutSecondary(lun) /\ stage # UPDATE_BACKUP
  PROVE  ~BadSig(k, SECONDARY_GPT)'
<1>1. gpt \in Disks /\ PRIMARY_GPT \in Instances /\ SECONDARY_GPT \in Instances
  BY DEF IInv, TypeOK, Instances
<1>2. PRIMARY_GPT # SECONDARY_GPT
  BY DEF PRIMARY_GPT, SECONDARY_GPT
<1>3. CASE UNCHANGED gpt
  BY <1>3 DEF BadSig
<1>4. CASE PutHeaderCrc(lun)
  BY <1>1, <1>4, PutHeaderCrcEffect DEF OnlyChanges, BadSig
<1>5. CASE PutPrimary(lun)
  BY <1>1, <1>2, <1>5, PutStateEffect DEF PutPrimary, OnlyChanges, BadSig
<1>6. ASSUME NEW e, PutEntries(lun, e) PROVE ~BadSig(k, SECONDARY_GPT)'
  BY <1>1, <1>6, PutEntriesEffect DEF OnlyChanges, BadSig
<1>7. CASE PutSecondary(lun) /\ stage # UPDATE_BACKUP
  BY <1>1, <1>7, PutStateEffect DEF PutSecondary, OnlyChanges, BadSig
<1>8. QED
  BY <1>3, <1>4, <1>5, <1>6, <1>7

LEMMA XblKept ==
  ASSUME IInv, XblInv, [Next]_vars, UsesXbl
  PROVE  XblInv'
<1>1. /\ bootLun \in {"A", "B"} /\ (pc \notin {"idle", "check"} => lun \in Luns /\ StepInv)
  BY DEF IInv, TypeOK
<1>2. CASE UNCHANGED <<gpt, bootLun>> /\ pc' \in {"idle", "check", "bootlun"}
  BY <1>2 DEF XblInv, BadSig
<1>3. CASE \/ \E s \in Stages : Call(s)
           \/ Return
           \/ \E u \in Units, i \in {"partial", "new"} : Flash(u, i)
  BY <1>2, <1>3 DEF Call, Return, Flash, disk, call
<1>4. CASE UNCHANGED vars
  BY <1>4 DEF vars, XblInv, BadSig
<1>5. CASE CheckStage
  <2>1. UNCHANGED <<gpt, bootLun>> /\ lun \in Luns
    BY <1>5 DEF CheckStage, disk
  <2>2. pc' \in {"check", "bootlun"} \/ (stage' = UPDATE_FINALIZE)
    BY <1>5 DEF CheckStage, LunDone, GoTo, XblInv
  <2>3. QED
    BY <2>1, <2>2 DEF XblInv, BadSig, UPDATE_BACKUP, UPDATE_FINALIZE
<1>6. CASE SetBootLun
  <2>1. /\ lun \in Luns /\ UNCHANGED gpt /\ bootLun' = BootLunOf(stage)
        /\ stage' = stage /\ InternalStage(lun) = stage
    BY <1>1, <1>6 DEF SetBootLun, GoTo, StepInv
  <2>2. stage = UPDATE_MAIN => ~BadSig(lun, SECONDARY_GPT)
    BY <2>1, StageOfStates DEF BadSig
  <2>3. QED
    BY <2>1, <2>2 DEF XblInv, BootLunOf, BadSig, UPDATE_MAIN, UPDATE_BACKUP
<1>7. CASE WriteHeader \/ WriteEntries \/ SetPrimary \/ SetSecondary \/ IoError
  <2>1. lun \in Luns /\ UNCHANGED bootLun /\ stage' = stage
    BY <1>1, <1>7 DEF WriteHeader, WriteEntries, SetPrimary, SetSecondary, IoError, LunDone, GoTo
  <2>2. \/ UNCHANGED gpt \/ PutHeaderCrc(lun) \/ PutPrimary(lun)
        \/ (\E e : PutEntries(lun, e))
        \/ pc = "secondary" /\ PutSecondary(lun)
    BY <1>7 DEF WriteHeader, WriteEntries, SetPrimary, SetSecondary, IoError
  <2>3. pc = "secondary" /\ stage = UPDATE_BACKUP => bootLun = "A"
    BY DEF XblInv
  <2>4. bootLun = "B" => \E l \in Luns : ~BadSig(l, SECONDARY_GPT)'
    BY <2>1, <2>2, <2>3, WaitingKept DEF XblInv
  <2>5. \/ pc \in {"header", "entries", "primary", "secondary"}
        \/ pc' = "check"
    BY <1>7 DEF WriteHeader, WriteEntries, SetPrimary, SetSecondary, IoError, LunDone
  <2>6. QED
    BY <2>1, <2>4, <2>5 DEF XblInv
<1>8. CASE Crash
  <2>1. UNCHANGED bootLun /\ pc' = "idle"
    BY <1>8 DEF Crash
  <2>2. UNCHANGED gpt \/ (lun \in Luns /\ \E e : PutEntries(lun, e))
    BY <1>1, <1>8 DEF Crash
  <2>3. bootLun = "B" => \E l \in Luns : ~BadSig(l, SECONDARY_GPT)'
    BY <2>2, WaitingKept DEF XblInv, BadSig
  <2>4. QED
    BY <2>1, <2>3 DEF XblInv
<1>9. QED
  BY <1>3, <1>4, <1>5, <1>6, <1>7, <1>8 DEF Next, Step

(* A LUN without twins never leaves the state UPDATE_MAIN expects, so      *)
(* UPDATE_BACKUP cannot succeed on a device that has one; and the updater  *)
(* calls UPDATE_FINALIZE only with what UPDATE_BACKUP released rewritten.  *)
CallsInv ==
  /\ stage = UPDATE_BACKUP /\ ~isError => \A l \in Luns \ Twin : l >= lun
  /\ granted = "backup" => Twin = Luns
  /\ stage = no_stage /\ position = UPDATE_FINALIZE => granted = "backup"

ScriptInv == IInv /\ ImagesInv /\ XblInv /\ CallsInv

LEMMA CallsKept ==
  ASSUME IInv, ImagesInv, CallsInv, [ScriptNext]_scriptVars
  PROVE  CallsInv'
<1>. USE DEF no_stage, UPDATE_MAIN, UPDATE_BACKUP, UPDATE_FINALIZE
<1>1. TypeOK /\ NoTwinInv /\ CallInv /\ (pc \notin {"idle", "check"} => lun \in Luns /\ StepInv)
  BY DEF IInv
<1>2. pc # "idle" => granted = "none" /\ stage # no_stage
  BY <1>1 DEF CallInv
<1>3. CASE CallStage
  BY <1>3, <1>1, ConstantsAssumption DEF CallStage, Call, CallsInv, Stages, Luns, TypeOK
<1>4. CASE CodeStep \/ (IoError /\ UNCHANGED position)
  <2>1. pc # "idle" /\ UNCHANGED <<stage, granted, position>>
    BY <1>4 DEF CodeStep, Step, CheckStage, SetBootLun, WriteHeader, WriteEntries, SetPrimary,
                SetSecondary, IoError, LunDone, GoTo
  <2>2. SUFFICES ASSUME stage = UPDATE_BACKUP, ~isError', NEW l \in Luns \ Twin
                 PROVE  l >= lun'
    BY <1>2, <2>1 DEF CallsInv
  <2>3. lun' = lun \/ lun \in Twin
    <3>1. Step /\ ~IoError
      BY <1>4, <2>2 DEF CodeStep, IoError, LunDone
    <3>2. CASE CheckStage
      <4>1. lun \in Luns /\ (AlreadySet(InternalStage(lun)) \/ lun' = lun)
        BY <2>2, <3>2 DEF CheckStage, LunDone, GoTo
      <4>2. AlreadySet(InternalStage(lun)) => InternalStage(lun) = UPDATE_FINALIZE
        <5>1. InternalStage(lun) \in Stages \cup {no_stage}
          BY DEF InternalStage, Stages
        <5>2. QED
          BY <2>2, <5>1 DEF AlreadySet, Stages
      <4>3. AlreadySet(InternalStage(lun)) => BadSig(lun, SECONDARY_GPT)
        BY <4>1, <4>2, StageOfStates DEF BadSig
      <4>4. QED
        BY <1>1, <4>1, <4>3 DEF NoTwinInv, Instances
    <3>3. CASE SetBootLun \/ WriteEntries
      BY <3>3 DEF SetBootLun, WriteEntries, GoTo
    <3>4. CASE WriteHeader \/ SetPrimary \/ SetSecondary
      BY <1>1, <2>2, <3>4 DEF WriteHeader, SetPrimary, SetSecondary, StepInv
    <3>5. QED
      BY <3>1, <3>2, <3>3, <3>4 DEF Step
  <2>4. isError' = isError => l >= lun
    BY <2>2 DEF CallsInv
  <2>5. isError' = isError \/ isError'
    BY <1>4, <1>1, <2>2 DEF CodeStep, Step, CheckStage, SetBootLun, WriteHeader, WriteEntries,
       SetPrimary, SetSecondary, IoError, LunDone, GoTo, TypeOK
  <2>6. lun' = lun \/ lun' = lun + 1
    BY <1>4 DEF CodeStep, Step, CheckStage, SetBootLun, WriteHeader, WriteEntries,
       SetPrimary, SetSecondary, IoError, LunDone, GoTo
  <2>7. lun' # lun => l # lun
    BY <2>2, <2>3
  <2>8. l \in Int /\ lun \in Int
    BY <1>1, <2>2, ConstantsAssumption DEF TypeOK, Luns
  <2>9. QED
    BY <2>2, <2>4, <2>5, <2>6, <2>7, <2>8
<1>5. CASE Crash /\ position' = UPDATE_MAIN
  BY <1>5 DEF Crash, CallsInv
<1>6. CASE StageReturns
  <2>1. /\ lun > NumLuns /\ stage' = no_stage /\ position' = AfterReturn /\ isError' = FALSE
        /\ granted' = IF isError THEN "none" ELSE Released
    BY <1>6 DEF StageReturns, Return
  <2>2. granted' = "backup" => Twin = Luns
    <3>1. SUFFICES ASSUME granted' = "backup" PROVE Luns \ Twin = {}
      BY ConstantsAssumption
    <3>2. stage = UPDATE_BACKUP /\ ~isError
      BY <2>1, <3>1 DEF Released
    <3>3. ASSUME NEW l \in Luns \ Twin PROVE FALSE
      <4>1. l >= lun
        BY <3>2, <3>3 DEF CallsInv
      <4>2. l <= NumLuns /\ l \in Int /\ lun \in Int /\ NumLuns \in Int
        BY <1>1, <3>3, ConstantsAssumption DEF TypeOK, Luns
      <4>3. QED
        BY <2>1, <4>1, <4>2
    <3>4. QED
      BY <3>3
  <2>3. position' = UPDATE_FINALIZE => granted' = "backup"
    <3>1. stage \in {UPDATE_MAIN, UPDATE_BACKUP, UPDATE_FINALIZE, no_stage}
      BY <1>1 DEF TypeOK, Stages
    <3>2. position' = UPDATE_FINALIZE => ~isError /\ stage = UPDATE_BACKUP
      BY <2>1, <3>1 DEF AfterReturn
    <3>3. QED
      BY <2>1, <3>2 DEF Released
  <2>4. QED
    BY <2>1, <2>2, <2>3 DEF CallsInv
<1>7. CASE (\E u \in Units : Rewrite(u)) \/ UNCHANGED scriptVars
  <2>1. UNCHANGED <<stage, lun, isError, granted, position>>
    BY <1>7 DEF Rewrite, Flash, call, scriptVars, vars
  <2>2. QED
    BY <2>1 DEF CallsInv
<1>8. QED
  BY <1>3, <1>4, <1>5, <1>6, <1>7 DEF ScriptNext, Work, Fault

(* What UPDATE_BACKUP leaves behind: the primary copies are new, and until *)
(* the backup ones are new too, no table leads anywhere else.  No stage    *)
(* but UPDATE_FINALIZE touches a LUN in this state.                        *)
Closed == /\ \A l \in Luns : BadSig(l, SECONDARY_GPT)
          /\ UsesXbl => bootLun = "A"
          /\ stage # UPDATE_FINALIZE

Settled == /\ Twin = Luns
           /\ AllNew("primary")
           /\ AllNew("backup") \/ Closed

LEMMA NewBackupStaysNew ==
  ASSUME IInv, NEW u \in Units, Rewrite(u), AllNew("backup")
  PROVE  AllNew("backup")'
<1>1. /\ granted \in Copies /\ image[u][granted] # "new"
      /\ \E i : image' = [image EXCEPT ![u][granted] = i]
  BY DEF Rewrite, Flash
<1>2. granted # "backup" /\ image \in [Units -> [Copies -> Images]]
  BY <1>1 DEF AllNew, IInv, TypeOK
<1>3. \A v \in Units : image'[v]["backup"] = image[v]["backup"]
  BY <1>1, <1>2 DEF Copies
<1>4. QED
  BY <1>3 DEF AllNew

(* With every LUN closed, a call to UPDATE_MAIN or UPDATE_BACKUP only      *)
(* walks over the LUNs.                                                    *)
LEMMA ClosedWalks ==
  ASSUME IInv, Twin = Luns, Closed
  PROVE  /\ pc \in {"idle", "check"}
         /\ [Next]_vars => UNCHANGED <<gpt, bootLun>>
<1>. USE DEF no_stage, UPDATE_MAIN, UPDATE_BACKUP, UPDATE_FINALIZE
<1>1. /\ TypeOK /\ (pc \notin {"idle", "check"} => lun \in Luns /\ StepInv)
      /\ pc = "idle" <=> stage = no_stage
  BY DEF IInv, CallInv
<1>2. \A l \in Luns : InternalStage(l) \notin {UPDATE_MAIN, UPDATE_BACKUP}
  BY StageOfStates DEF Closed, BadSig
<1>3. pc \in {"idle", "check"}
  <2>1. pc # "idle" => stage \in {UPDATE_MAIN, UPDATE_BACKUP}
    BY <1>1 DEF Closed, TypeOK, Stages
  <2>2. pc \notin {"bootlun", "header", "entries", "primary"}
    BY <1>1, <1>2, <2>1 DEF StepInv
  <2>3. pc # "secondary"
    BY <1>1, <1>2, <2>1 DEF StepInv
  <2>4. QED
    BY <1>1, <2>2, <2>3 DEF TypeOK, PCs
<1>4. [Next]_vars => UNCHANGED <<gpt, bootLun>>
  BY <1>3 DEF Next, Step, Call, Return, CheckStage, SetBootLun, WriteHeader, WriteEntries,
     SetPrimary, SetSecondary, IoError, Crash, Flash, disk, vars
<1>5. QED
  BY <1>3, <1>4

LEMMA SettledKept ==
  ASSUME IInv, CallsInv, Settled, [ScriptNext]_scriptVars
  PROVE  Settled'
<1>1. AllNew("primary")'
  <2>1. CASE \E u \in Units : Rewrite(u)
    BY <2>1, NewStaysNew DEF Settled
  <2>2. CASE ~\E u \in Units : Rewrite(u)
    <3>1. UNCHANGED image
      BY <2>2 DEF ScriptNext, Work, Fault, CallStage, CodeStep, StageReturns, Step, Call, Return,
         CheckStage, SetBootLun, WriteHeader, WriteEntries, SetPrimary, SetSecondary, IoError,
         Crash, disk, scriptVars, vars
    <3>2. QED
      BY <3>1 DEF Settled, AllNew
  <2>3. QED
    BY <2>1, <2>2
<1>2. CASE AllNew("backup")
  <2>1. CASE \E u \in Units : Rewrite(u)
    BY <1>1, <1>2, <2>1, NewBackupStaysNew DEF Settled
  <2>2. CASE ~\E u \in Units : Rewrite(u)
    <3>1. UNCHANGED image
      BY <2>2 DEF ScriptNext, Work, Fault, CallStage, CodeStep, StageReturns, Step, Call, Return,
         CheckStage, SetBootLun, WriteHeader, WriteEntries, SetPrimary, SetSecondary, IoError,
         Crash, disk, scriptVars, vars
    <3>2. QED
      BY <1>1, <1>2, <3>1 DEF Settled, AllNew
  <2>3. QED
    BY <2>1, <2>2
<1>3. CASE Closed /\ ~AllNew("backup")
  <2>1. [Next]_vars
    BY ScriptIsUpdate
  <2>2. UNCHANGED <<gpt, bootLun>>
    BY <1>3, <2>1, ClosedWalks DEF Settled
  <2>3. stage' # UPDATE_FINALIZE
    <3>1. CASE CallStage
      <4>1. stage' = position /\ stage = no_stage /\ (granted \in Copies => AllNew(granted))
        BY <3>1 DEF CallStage, Call, IInv, CallInv
      <4>2. granted # "backup"
        BY <1>3, <4>1 DEF Copies
      <4>3. QED
        BY <4>1, <4>2 DEF CallsInv
    <3>2. CASE ~CallStage
      <4>1. stage' \in {stage, no_stage}
        BY <3>2 DEF ScriptNext, Work, Fault, CodeStep, StageReturns, Step, Return, Rewrite, Flash,
           CheckStage, SetBootLun, WriteHeader, WriteEntries, SetPrimary, SetSecondary, IoError,
           Crash, LunDone, GoTo, call, scriptVars, vars
      <4>2. QED
        BY <1>3, <4>1 DEF Closed, no_stage, UPDATE_FINALIZE
    <3>3. QED
      BY <3>1, <3>2
  <2>4. Closed'
    BY <1>3, <2>2, <2>3 DEF Closed, BadSig
  <2>5. QED
    BY <1>1, <2>4 DEF Settled
<1>4. QED
  BY <1>2, <1>3 DEF Settled

LEMMA ScriptInvHolds ==
  ASSUME ShortWrites = FALSE
  PROVE  ScriptSpec => []ScriptInv
<1>1. ScriptInit => ScriptInv
  <2>1. ScriptInit => IInv
    BY ScriptIsUpdate, InitIInv
  <2>2. ScriptInit => ImagesInv /\ XblInv /\ CallsInv
    BY DEF ScriptInit, Init, ImagesInv, XblInv, CallsInv, no_stage, UPDATE_MAIN, UPDATE_BACKUP,
           UPDATE_FINALIZE
  <2>3. QED
    BY <2>1, <2>2 DEF ScriptInv
<1>2. ScriptInv /\ [ScriptNext]_scriptVars => ScriptInv'
  <2>1. IInv /\ [ScriptNext]_scriptVars => IInv'
    BY ScriptIsUpdate, NextIInv
  <2>2. XblInv /\ IInv /\ [ScriptNext]_scriptVars => XblInv'
    BY ScriptIsUpdate, XblKept DEF XblInv
  <2>3. QED
    BY <2>1, <2>2, ImagesKept, CallsKept DEF ScriptInv
<1>3. QED
  BY <1>1, <1>2, PTL DEF ScriptSpec

(* From the moment UPDATE_BACKUP has returned 0, the whole boot chain, xbl *)
(* included, runs new images, and no fault, retry or power cut in the rest *)
(* of the update takes any of it back to an old or a half-written copy.    *)
THEOREM BackupIsForever ==
  ASSUME ShortWrites = FALSE
  PROVE  ScriptSpec => BackupIsForGood
<1>1. ScriptInv /\ granted = "backup" => Settled
  <2>1. SUFFICES ASSUME ScriptInv, granted = "backup" PROVE Settled
    OBVIOUS
  <2>2. Twin = Luns /\ AllNew("primary")
    BY <2>1 DEF ScriptInv, CallsInv, ImagesInv
  <2>3. (\A l \in Luns : BadSig(l, SECONDARY_GPT)) /\ stage = no_stage
    BY <2>1, <2>2 DEF ScriptInv, IInv, CallInv
  <2>4. UsesXbl => bootLun = "A"
    BY <2>1, <2>3 DEF ScriptInv, XblInv, IInv, TypeOK
  <2>5. QED
    BY <2>2, <2>3, <2>4 DEF Settled, Closed, no_stage, UPDATE_FINALIZE
<1>2. ScriptInv /\ Settled /\ [ScriptNext]_scriptVars => Settled'
  BY SettledKept DEF ScriptInv
<1>3. ScriptInv /\ Settled => RunsNew
  <2>1. SUFFICES ASSUME ScriptInv, Settled, NEW u \in Units
                 PROVE  Running(u) \in Copies /\ image[u][Running(u)] = "new"
    BY DEF RunsNew
  <2>2. CASE u \in Luns
    <3>1. u # Xbl
      BY <2>2, ConstantsAssumption DEF Luns, Xbl
    <3>2. ChainInv(u) /\ TypeOK
      BY <2>1, <2>2 DEF ScriptInv, IInv, Settled
    <3>3. CASE AllNew("backup")
      <4>1. Selected(u) \in Copies
        BY <3>2 DEF ChainInv, Selected, CopyOf, Copies, Valid, ArrayValid, Leads
      <4>2. QED
        BY <2>1, <3>1, <3>3, <4>1 DEF Running, Copies, Settled, AllNew
    <3>4. CASE Closed
      <4>1. Selected(u) = "primary"
        BY <2>2, <3>2, <3>4 DEF Closed, ChainInv, Selected, CopyOf, Valid, ArrayValid
      <4>2. QED
        BY <2>1, <3>1, <4>1 DEF Running, Copies, Settled, AllNew
    <3>5. QED
      BY <2>1, <3>3, <3>4 DEF Settled
  <2>3. CASE u \notin Luns
    <3>1. u = Xbl /\ UsesXbl
      BY <2>1, <2>3 DEF Units
    <3>2. QED
      BY <2>1, <3>1 DEF Settled, AllNew, Closed, Running, SelectedXbl, Copies
  <2>4. QED
    BY <2>2, <2>3
<1>4. QED
  BY <1>1, <1>2, <1>3, ScriptInvHolds, PTL DEF ScriptSpec, BackupIsForGood
-----------------------------------------------------------------------------
(* Progress: without faults each step brings the update nearer to its end. *)
(* On a device the update found with sound tables, no table is damaged by  *)
(* it; a LUN that waits for UPDATE_FINALIZE means that the primary copies  *)
(* are new; UPDATE_FINALIZE runs on such LUNs only; and the script ends    *)
(* with everything new.                                                    *)
SoundInv == \A l \in Luns : /\ ArrayValid(gpt[l][PRIMARY_GPT])
                            /\ \A g \in Instances : gpt[l][g].state # "GPT_BAD_CRC"

Finalized(l) == \A g \in Instances : Leads(gpt[l][g], "normal")

FinalInv ==
  /\ stage = UPDATE_FINALIZE => AllNew("primary") /\ AllNew("backup")
  /\ stage = UPDATE_FINALIZE /\ ~isError =>
       \A l \in Luns : IF l < lun THEN Finalized(l) ELSE BadSig(l, SECONDARY_GPT)

EndInv == position = no_stage => Updated /\ granted = "none"

ProgressInv == /\ SoundInv
               /\ \A l \in Luns : BadSig(l, SECONDARY_GPT) => AllNew("primary")
               /\ pc = "idle" => lun = 1 /\ ~isError
               /\ position \in Stages \cup {no_stage}
               /\ FinalInv
               /\ EndInv

(* Three states a LUN can be in.                                           *)
LEMMA ThreeStates ==
  ASSUME IInv, SoundInv, Twin = Luns, NEW l \in Luns
  PROVE  /\ InternalStage(l) \in Stages
         /\ InternalStage(l) = UPDATE_MAIN <=>
              ~BadSig(l, PRIMARY_GPT) /\ ~BadSig(l, SECONDARY_GPT)
         /\ InternalStage(l) = UPDATE_BACKUP <=> BadSig(l, PRIMARY_GPT)
         /\ InternalStage(l) = UPDATE_FINALIZE <=> BadSig(l, SECONDARY_GPT)
<1>1. \A g \in Instances : gpt[l][g].state \in {"GPT_OK", "GPT_BAD_SIGNATURE"}
  BY DEF IInv, TypeOK, SoundInv, Disks, Header, HeaderStates
<1>2. ~(BadSig(l, PRIMARY_GPT) /\ BadSig(l, SECONDARY_GPT))
  BY DEF IInv, ChainInv, BadSig, Leads
<1>3. QED
  BY <1>1, <1>2 DEF InternalStage, BadSig, Stages, Instances, no_stage, UPDATE_MAIN,
                    UPDATE_BACKUP, UPDATE_FINALIZE

LEMMA StageFrame ==
  ASSUME NEW l \in Luns, gpt'[l] = gpt[l]
  PROVE  /\ InternalStage(l)' = InternalStage(l)
         /\ \A g \in Instances : BadSig(l, g)' <=> BadSig(l, g)
         /\ Finalized(l)' <=> Finalized(l)
BY DEF InternalStage, BadSig, Finalized, Leads

(* No write, whole or in part, damages a table's header or the primary     *)
(* array.                                                                  *)
LEMMA SoundKept ==
  ASSUME IInv, SoundInv, [Next]_vars
  PROVE  SoundInv'
<1>1. gpt \in Disks /\ (pc \notin {"idle", "check"} => lun \in Luns)
      /\ PRIMARY_GPT \in Instances /\ SECONDARY_GPT \in Instances /\ PRIMARY_GPT # SECONDARY_GPT
  BY DEF IInv, TypeOK, Instances, PRIMARY_GPT, SECONDARY_GPT
<1>2. CASE UNCHANGED gpt
  BY <1>2 DEF SoundInv, ArrayValid
<1>3. ASSUME lun \in Luns, NEW e, \/ PutHeaderCrc(lun) \/ PutEntries(lun, e)
                                  \/ PutPrimary(lun) \/ PutSecondary(lun)
      PROVE  SoundInv'
  <2>1. \A k \in Luns \ {lun} : gpt'[k] = gpt[k]
    BY <1>1, <1>3, PutHeaderCrcEffect, PutEntriesEffect, PutStateEffect
       DEF OnlyChanges, PutPrimary, PutSecondary
  <2>2. /\ gpt'[lun][PRIMARY_GPT].crc = gpt[lun][PRIMARY_GPT].crc
        /\ gpt'[lun][PRIMARY_GPT].entries = gpt[lun][PRIMARY_GPT].entries
    BY <1>1, <1>3, PutHeaderCrcEffect, PutEntriesEffect, PutStateEffect
       DEF OnlyChanges, PutPrimary, PutSecondary
  <2>3. /\ gpt'[lun][PRIMARY_GPT].state \in {gpt[lun][PRIMARY_GPT].state, "GPT_OK", "GPT_BAD_SIGNATURE"}
        /\ gpt'[lun][SECONDARY_GPT].state \in {gpt[lun][SECONDARY_GPT].state, "GPT_OK", "GPT_BAD_SIGNATURE"}
    <3>1. CASE PutHeaderCrc(lun) \/ PutEntries(lun, e)
      BY <1>1, <1>3, <3>1, PutHeaderCrcEffect, PutEntriesEffect DEF OnlyChanges
    <3>2. CASE PutPrimary(lun)
      BY <1>1, <1>3, <3>2, PutStateEffect DEF OnlyChanges, PutPrimary
    <3>3. CASE PutSecondary(lun)
      BY <1>1, <1>3, <3>3, PutStateEffect DEF OnlyChanges, PutSecondary
    <3>4. QED
      BY <1>3, <3>1, <3>2, <3>3
  <2>4. QED
    BY <2>1, <2>2, <2>3 DEF SoundInv, ArrayValid, Instances
<1>4. QED
  <2>1. CASE Step \/ IoError \/ Crash
    BY <1>1, <1>2, <1>3, <2>1 DEF Step, CheckStage, SetBootLun, WriteHeader, WriteEntries,
       SetPrimary, SetSecondary, IoError, Crash, disk
  <2>2. CASE ~(Step \/ IoError \/ Crash)
    BY <1>2, <2>2 DEF Next, Call, Return, Flash, disk, vars
  <2>3. QED
    BY <2>1, <2>2

(* What a step of the code does without faults: it advances at its LUN, is *)
(* done with it, or refuses it because it is not in a state for the stage. *)
Advances == lun' = lun /\ isError' = isError /\ Ahead' \in Nat /\ Ahead' < Ahead

Finished(l) == /\ stage = UPDATE_MAIN => BadSig(l, PRIMARY_GPT)
               /\ stage = UPDATE_BACKUP => BadSig(l, SECONDARY_GPT)
               /\ stage = UPDATE_FINALIZE => Finalized(l)

Finishes == /\ lun' = lun + 1 /\ pc' = "check" /\ isError' = isError
            /\ \A l \in Luns : l = lun => Finished(l)'

Refuses == /\ lun' = lun + 1 /\ pc' = "check" /\ isError' /\ pc = "check" /\ UNCHANGED gpt
           /\ InternalStage(lun) # stage /\ ~AlreadySet(InternalStage(lun))

LEMMA StepEffect ==
  ASSUME IInv, SoundInv, Twin = Luns, Step
  PROVE  /\ lun \in Luns /\ pc # "idle" /\ stage \in Stages /\ granted = "none"
         /\ UNCHANGED <<image, stage, granted>>
         /\ \A l \in Luns \ {lun} : gpt'[l] = gpt[l]
         /\ Advances \/ Finishes \/ Refuses
         /\ Advances => \A l \in Luns : l = lun =>
              \/ /\ InternalStage(l)' = InternalStage(l)
                 /\ BadSig(l, SECONDARY_GPT)' <=> BadSig(l, SECONDARY_GPT)
              \/ stage = UPDATE_BACKUP /\ pc' = "secondary" /\ ~BadSig(l, SECONDARY_GPT)'
<1>. USE DEF no_stage, UPDATE_MAIN, UPDATE_BACKUP, UPDATE_FINALIZE
<1>1. /\ lun \in Luns /\ pc # "idle" /\ stage \in Stages /\ granted = "none"
      /\ pc # "check" => StepInv
      /\ gpt \in Disks /\ TypeOK
  BY DEF IInv, CallInv, TypeOK, Copies, Step, CheckStage, SetBootLun, WriteHeader, WriteEntries,
         SetPrimary, SetSecondary
<1>2. UNCHANGED <<image, stage, granted>>
  BY DEF Step, CheckStage, SetBootLun, WriteHeader, WriteEntries, SetPrimary, SetSecondary,
         LunDone, GoTo, disk
<1>3. \A l \in Luns \ {lun} : gpt'[l] = gpt[l]
  BY <1>1, CodeTouchesOneLun
<1>. DEFINE Still == \A l \in Luns : l = lun =>
                       /\ InternalStage(l)' = InternalStage(l)
                       /\ BadSig(l, SECONDARY_GPT)' <=> BadSig(l, SECONDARY_GPT)
            Moves == \A l \in Luns : l = lun =>
                       stage = UPDATE_BACKUP /\ pc' = "secondary" /\ ~BadSig(l, SECONDARY_GPT)'
<1>4. CASE CheckStage
  <2>1. UNCHANGED gpt /\ pc = "check"
    BY <1>4 DEF CheckStage, disk
  <2>2. CASE AlreadySet(InternalStage(lun)) /\ LunDone(FALSE)
    <3>1. InternalStage(lun) \in Stages /\ stage = InternalStage(lun) - 1
      BY <2>2 DEF AlreadySet, InternalStage, Stages
    <3>2. /\ stage = UPDATE_MAIN => BadSig(lun, PRIMARY_GPT)
          /\ stage = UPDATE_BACKUP => BadSig(lun, SECONDARY_GPT)
          /\ stage # UPDATE_FINALIZE
      BY <1>1, <3>1, StageOfStates DEF Stages
    <3>3. Finishes
      BY <1>2, <2>1, <2>2, <3>2 DEF Finishes, Finished, BadSig, LunDone
    <3>4. lun' # lun
      BY <1>1, <3>3 DEF Finishes, Luns
    <3>5. QED
      BY <1>1, <1>2, <1>3, <3>3, <3>4 DEF Advances
  <2>3. CASE stage # InternalStage(lun) /\ ~AlreadySet(InternalStage(lun)) /\ LunDone(TRUE)
    <3>1. Refuses
      BY <2>1, <2>3 DEF Refuses, LunDone
    <3>2. lun' # lun
      BY <1>1, <3>1 DEF Refuses, Luns
    <3>3. QED
      BY <1>1, <1>2, <1>3, <3>1, <3>2 DEF Advances
  <2>4. CASE GoTo(IF UsesXbl /\ stage # UPDATE_FINALIZE THEN "bootlun" ELSE FirstWrite)
    <3>1. pc' \in {"bootlun", "header", "primary"} /\ lun' = lun /\ isError' = isError
      BY <2>4 DEF GoTo, FirstWrite
    <3>2. Advances
      BY <2>1, <3>1 DEF Advances, Ahead
    <3>3. Still
      BY <2>1 DEF InternalStage, BadSig
    <3>4. QED
      BY <1>1, <1>2, <1>3, <3>2, <3>3
  <2>5. QED
    BY <1>4, <2>2, <2>3, <2>4 DEF CheckStage
<1>5. CASE SetBootLun
  <2>1. UNCHANGED gpt /\ pc = "bootlun" /\ pc' \in {"header", "primary"} /\ lun' = lun /\ isError' = isError
    BY <1>5 DEF SetBootLun, GoTo, FirstWrite
  <2>2. Advances
    BY <2>1 DEF Advances, Ahead
  <2>3. Still
    BY <2>1 DEF InternalStage, BadSig
  <2>4. QED
    BY <1>1, <1>2, <1>3, <2>2, <2>3
<1>6. CASE WriteHeader
  <2>1. PutHeaderCrc(lun) /\ GoTo("entries") /\ pc = "header"
    BY <1>1, <1>6 DEF WriteHeader, SoundInv, ChainHasTwins
  <2>2. Advances
    BY <2>1 DEF GoTo, Advances, Ahead
  <2>3. /\ gpt'[lun][PRIMARY_GPT] = gpt[lun][PRIMARY_GPT]
        /\ gpt'[lun][SECONDARY_GPT].state = gpt[lun][SECONDARY_GPT].state
    BY <1>1, <2>1, PutHeaderCrcEffect DEF OnlyChanges, Instances, PRIMARY_GPT, SECONDARY_GPT
  <2>4. Still
    BY <2>3 DEF InternalStage, BadSig
  <2>5. QED
    BY <1>1, <1>2, <1>3, <2>2, <2>4
<1>7. CASE WriteEntries
  <2>1. PICK e : PutEntries(lun, e)
    BY <1>7 DEF WriteEntries
  <2>2. pc = "entries" /\ pc' \in {"primary", "secondary"} /\ lun' = lun /\ isError' = isError
    BY <1>7 DEF WriteEntries, GoTo
  <2>3. Advances
    BY <2>2 DEF Advances, Ahead
  <2>4. /\ gpt'[lun][PRIMARY_GPT] = gpt[lun][PRIMARY_GPT]
        /\ gpt'[lun][SECONDARY_GPT].state = gpt[lun][SECONDARY_GPT].state
    BY <1>1, <2>1, PutEntriesEffect DEF OnlyChanges, Instances, PRIMARY_GPT, SECONDARY_GPT
  <2>5. Still
    BY <2>4 DEF InternalStage, BadSig
  <2>6. QED
    BY <1>1, <1>2, <1>3, <2>3, <2>5
<1>8. CASE SetPrimary
  <2>1. /\ gpt'[lun][SECONDARY_GPT] = gpt[lun][SECONDARY_GPT]
        /\ gpt'[lun][PRIMARY_GPT].state = IF stage = UPDATE_MAIN THEN "GPT_BAD_SIGNATURE" ELSE "GPT_OK"
    BY <1>1, <1>8, PutStateEffect
       DEF SetPrimary, PutPrimary, OnlyChanges, Instances, PRIMARY_GPT, SECONDARY_GPT
  <2>2. stage \in {UPDATE_MAIN, UPDATE_BACKUP} /\ InternalStage(lun) = stage /\ pc = "primary"
    BY <1>1, <1>8 DEF SetPrimary, StepInv, Stages
  <2>3. CASE stage = UPDATE_MAIN
    <3>1. LunDone(FALSE)
      BY <1>8, <2>3 DEF SetPrimary
    <3>2. Finishes
      BY <1>2, <2>1, <2>3, <3>1 DEF LunDone, Finishes, Finished, BadSig
    <3>3. lun' # lun
      BY <1>1, <3>2 DEF Finishes, Luns
    <3>4. QED
      BY <1>1, <1>2, <1>3, <3>2, <3>3 DEF Advances
  <2>4. CASE stage = UPDATE_BACKUP
    <3>1. pc' = "secondary" /\ lun' = lun /\ isError' = isError
      BY <1>8, <2>4 DEF SetPrimary, GoTo
    <3>2. Advances
      BY <2>2, <3>1 DEF Advances, Ahead
    <3>3. ~BadSig(lun, SECONDARY_GPT)
      BY <1>1, <2>2, <2>4, StageOfStates DEF BadSig
    <3>4. Moves
      BY <2>1, <2>4, <3>1, <3>3 DEF BadSig
    <3>5. QED
      BY <1>1, <1>2, <1>3, <3>2, <3>4
  <2>5. QED
    BY <2>2, <2>3, <2>4
<1>9. CASE SetSecondary
  <2>1. /\ gpt'[lun][PRIMARY_GPT] = gpt[lun][PRIMARY_GPT]
        /\ gpt'[lun][SECONDARY_GPT].crc = gpt[lun][SECONDARY_GPT].crc
        /\ gpt'[lun][SECONDARY_GPT].entries = gpt[lun][SECONDARY_GPT].entries
        /\ gpt'[lun][SECONDARY_GPT].state = IF stage = UPDATE_BACKUP THEN "GPT_BAD_SIGNATURE" ELSE "GPT_OK"
    BY <1>1, <1>9, PutStateEffect
       DEF SetSecondary, PutSecondary, OnlyChanges, Instances, PRIMARY_GPT, SECONDARY_GPT
  <2>2. stage \in {UPDATE_BACKUP, UPDATE_FINALIZE} /\ LunDone(FALSE)
    BY <1>1, <1>9 DEF SetSecondary, StepInv, Stages
  <2>3. stage = UPDATE_FINALIZE =>
          /\ Leads(gpt[lun][PRIMARY_GPT], "normal")
          /\ gpt[lun][SECONDARY_GPT].crc = "normal" /\ gpt[lun][SECONDARY_GPT].entries = "normal"
    <3>1. SUFFICES ASSUME stage = UPDATE_FINALIZE
                   PROVE  /\ Leads(gpt[lun][PRIMARY_GPT], "normal")
                          /\ gpt[lun][SECONDARY_GPT].crc = "normal"
                          /\ gpt[lun][SECONDARY_GPT].entries = "normal"
      OBVIOUS
    <3>2. /\ InternalStage(lun) = UPDATE_FINALIZE
          /\ ArrayValid(gpt[lun][SECONDARY_GPT]) /\ gpt[lun][SECONDARY_GPT].crc = "normal"
      BY <1>1, <1>9, <3>1 DEF SetSecondary, StepInv
    <3>3. gpt[lun][PRIMARY_GPT].state = "GPT_OK" /\ gpt[lun][PRIMARY_GPT].crc = "normal"
          /\ ArrayValid(gpt[lun][PRIMARY_GPT])
      BY <1>1, <3>2, StageOfStates DEF IInv, ChainInv, SoundInv
    <3>4. QED
      BY <3>2, <3>3 DEF Leads, ArrayValid
  <2>4. Finishes
    BY <1>2, <2>1, <2>2, <2>3 DEF LunDone, Finishes, Finished, Finalized, Instances, BadSig, Leads
  <2>5. lun' # lun
    BY <1>1, <2>4 DEF Finishes, Luns
  <2>6. QED
    BY <1>1, <1>2, <1>3, <2>4, <2>5 DEF Advances
<1>10. QED
  BY <1>4, <1>5, <1>6, <1>7, <1>8, <1>9 DEF Step

LEMMA ProgressKept ==
  ASSUME ScriptInv, ProgressInv, Twin = Luns, [ScriptNext]_scriptVars
  PROVE  ProgressInv'
<1>. USE DEF no_stage, UPDATE_MAIN, UPDATE_BACKUP, UPDATE_FINALIZE
<1>1. /\ IInv /\ TypeOK /\ CallInv /\ SoundInv /\ [Next]_vars
      /\ pc # "idle" => granted = "none" /\ stage # no_stage /\ position = stage
      /\ pc = "idle" => stage = no_stage
      /\ pc \notin {"idle", "check"} => lun \in Luns
  BY ScriptIsUpdate DEF ScriptInv, IInv, CallInv, TypeOK, Copies, ProgressInv, ImagesInv
<1>2. SoundInv'
  BY <1>1, SoundKept
<1>3. UNCHANGED image => \A c \in Copies : AllNew(c)' <=> AllNew(c)
  BY DEF AllNew
<1>4. CASE CallStage
  <2>1. /\ pc = "idle" /\ pc' = "check" /\ stage' = position /\ lun' = 1 /\ ~isError'
        /\ UNCHANGED <<gpt, image, position>>
        /\ position \in Stages /\ (granted \in Copies => AllNew(granted))
    BY <1>4 DEF CallStage, Call, disk
  <2>2. position = UPDATE_FINALIZE => AllNew("primary") /\ AllNew("backup")
                                      /\ \A l \in Luns : BadSig(l, SECONDARY_GPT)
    BY <1>1, <2>1 DEF ScriptInv, CallsInv, ImagesInv, Copies, CallInv
  <2>3. FinalInv'
    BY <1>3, <2>1, <2>2 DEF FinalInv, Luns, BadSig, Copies
  <2>4. QED
    BY <1>2, <1>3, <2>1, <2>3 DEF ProgressInv, EndInv, BadSig, Copies, Stages
<1>5. CASE CodeStep \/ (IoError /\ UNCHANGED position)
  <2>1. /\ pc # "idle" /\ lun \in Luns /\ UNCHANGED <<image, stage, granted, position>> /\ pc' # "idle"
    BY <1>1, <1>5 DEF CodeStep, Step, CheckStage, SetBootLun, WriteHeader, WriteEntries, SetPrimary,
       SetSecondary, IoError, LunDone, GoTo, FirstWrite, disk
  <2>2. \A l \in Luns : BadSig(l, SECONDARY_GPT)' => AllNew("primary")'
    <3>1. CASE stage = UPDATE_BACKUP
      BY <1>1, <1>3, <2>1, <3>1 DEF ScriptInv, ImagesInv, Copies
    <3>2. CASE stage # UPDATE_BACKUP
      <4>1. \/ UNCHANGED gpt \/ PutHeaderCrc(lun) \/ PutPrimary(lun)
            \/ (\E e : PutEntries(lun, e))
            \/ PutSecondary(lun) /\ stage # UPDATE_BACKUP
        BY <1>5, <3>2 DEF CodeStep, Step, CheckStage, SetBootLun, WriteHeader, WriteEntries,
           SetPrimary, SetSecondary, IoError, disk
      <4>2. \A l \in Luns : ~BadSig(l, SECONDARY_GPT) => ~BadSig(l, SECONDARY_GPT)'
        BY <1>1, <2>1, <4>1, WaitingKept
      <4>3. QED
        BY <1>3, <2>1, <4>2 DEF ProgressInv, Copies
    <3>3. QED
      BY <3>1, <3>2
  <2>3. FinalInv'
    <3>1. stage = UPDATE_FINALIZE => AllNew("primary")' /\ AllNew("backup")'
      BY <1>3, <2>1 DEF ProgressInv, FinalInv, Copies
    <3>2. ASSUME stage = UPDATE_FINALIZE, ~isError', NEW l \in Luns
          PROVE  IF l < lun' THEN Finalized(l)' ELSE BadSig(l, SECONDARY_GPT)'
      <4>1. Step
        BY <1>5, <3>2 DEF CodeStep, IoError, LunDone
      <4>2. /\ \A k \in Luns \ {lun} : gpt'[k] = gpt[k]
            /\ Advances \/ Finishes
            /\ Advances => \A k \in Luns : k = lun =>
                  (BadSig(k, SECONDARY_GPT)' <=> BadSig(k, SECONDARY_GPT))
        BY <1>1, <3>2, <4>1, StepEffect DEF Refuses
      <4>3. ~isError
        BY <3>2, <4>2 DEF Advances, Finishes
      <4>4. IF l < lun THEN Finalized(l) ELSE BadSig(l, SECONDARY_GPT)
        BY <3>2, <4>3 DEF ProgressInv, FinalInv
      <4>5. l \in Int /\ lun \in Int
        BY <2>1, <3>2, ConstantsAssumption DEF Luns
      <4>6. CASE l # lun
        <5>1. (Finalized(l)' <=> Finalized(l)) /\ (BadSig(l, SECONDARY_GPT)' <=> BadSig(l, SECONDARY_GPT))
          BY <4>2, <4>6, StageFrame DEF Instances
        <5>2. l < lun' <=> l < lun
          BY <4>2, <4>5, <4>6 DEF Advances, Finishes
        <5>3. QED
          BY <4>4, <5>1, <5>2
      <4>7. CASE l = lun /\ Advances
        BY <4>2, <4>4, <4>5, <4>7 DEF Advances
      <4>8. CASE l = lun /\ Finishes
        <5>1. Finalized(l)'
          BY <2>1, <3>2, <4>8 DEF Finishes, Finished
        <5>2. QED
          BY <4>5, <4>8, <5>1 DEF Finishes
      <4>9. QED
        BY <4>2, <4>6, <4>7, <4>8
    <3>3. QED
      BY <2>1, <3>1, <3>2 DEF FinalInv
  <2>4. QED
    BY <1>1, <1>2, <2>1, <2>2, <2>3 DEF ProgressInv, EndInv
<1>6. CASE Crash /\ position' = UPDATE_MAIN
  <2>1. UNCHANGED image /\ pc' = "idle" /\ stage' = no_stage /\ lun' = 1 /\ ~isError'
    BY <1>6 DEF Crash
  <2>2. UNCHANGED gpt \/ (lun \in Luns /\ \E e : PutEntries(lun, e))
    BY <1>1, <1>6 DEF Crash
  <2>3. \A l \in Luns : ~BadSig(l, SECONDARY_GPT) => ~BadSig(l, SECONDARY_GPT)'
    BY <1>1, <2>2, WaitingKept DEF BadSig
  <2>4. QED
    BY <1>2, <1>3, <1>6, <2>1, <2>3 DEF ProgressInv, FinalInv, EndInv, Copies, Stages
<1>7. CASE StageReturns
  <2>1. /\ pc = "check" /\ lun > NumLuns /\ UNCHANGED <<gpt, image>>
        /\ pc' = "idle" /\ stage' = no_stage /\ lun' = 1 /\ ~isError'
        /\ granted' = (IF isError THEN "none" ELSE Released) /\ position' = AfterReturn
    BY <1>7 DEF StageReturns, Return, disk
  <2>2. position' \in Stages \cup {no_stage}
    BY <1>1, <2>1 DEF AfterReturn, TypeOK, Stages
  <2>3. position' = no_stage => Updated' /\ granted' = "none"
    <3>1. SUFFICES ASSUME position' = no_stage PROVE Updated' /\ granted' = "none"
      OBVIOUS
    <3>2. stage = UPDATE_FINALIZE /\ ~isError
      BY <1>1, <2>1, <3>1 DEF AfterReturn, TypeOK, Stages
    <3>3. \A l \in Luns : l < lun
      BY <1>1, <2>1, ConstantsAssumption DEF TypeOK, Luns
    <3>4. \A l \in Luns : Finalized(l)
      BY <3>2, <3>3 DEF ProgressInv, FinalInv
    <3>5. AllNew("primary") /\ AllNew("backup")
      BY <3>2 DEF ProgressInv, FinalInv
    <3>6. QED
      BY <1>3, <2>1, <3>1, <3>2, <3>4, <3>5
         DEF Updated, Finalized, Leads, Valid, ArrayValid, Released, Copies
  <2>4. QED
    BY <1>2, <1>3, <2>1, <2>2, <2>3 DEF ProgressInv, FinalInv, EndInv, BadSig, Copies
<1>8. ASSUME NEW u \in Units, Rewrite(u) PROVE ProgressInv'
  <2>1. pc = "idle" /\ granted \in Copies /\ UNCHANGED <<gpt, pc, stage, lun, isError, granted, position>>
    BY <1>8 DEF Rewrite, Flash, call
  <2>2. AllNew("primary") => AllNew("primary")'
    BY <1>1, <1>8, NewStaysNew
  <2>3. position # no_stage
    BY <2>1 DEF ProgressInv, EndInv, Copies
  <2>4. QED
    BY <1>1, <1>2, <2>1, <2>2, <2>3 DEF ProgressInv, FinalInv, EndInv, BadSig
<1>9. CASE UNCHANGED scriptVars
  BY <1>2, <1>3, <1>9 DEF ProgressInv, FinalInv, EndInv, Updated, Finalized, Leads, Valid, ArrayValid,
     BadSig, AllNew, scriptVars, vars
<1>10. QED
  BY <1>4, <1>5, <1>6, <1>7, <1>8, <1>9 DEF ScriptNext, Work, Fault

(* A step of the code: the walk comes nearer to its end, the phase stays   *)
(* or falls.                                                               *)
LEMMA CodeDescends ==
  ASSUME ScriptInv, ProgressInv, Twin = Luns, CodeStep
  PROVE  Descends
<1>. USE DEF no_stage, UPDATE_MAIN, UPDATE_BACKUP, UPDATE_FINALIZE
<1>1. /\ IInv /\ TypeOK /\ Step /\ UNCHANGED <<image, position>> /\ position = stage
      /\ lun \in Luns /\ pc # "idle" /\ stage \in Stages /\ stage' = stage /\ granted = "none"
      /\ \A l \in Luns \ {lun} : gpt'[l] = gpt[l]
      /\ Advances \/ Finishes \/ Refuses
      /\ Advances => \A l \in Luns : l = lun =>
           InternalStage(l)' = InternalStage(l) \/ pc' = "secondary"
  <2>1. IInv /\ SoundInv /\ Step /\ UNCHANGED position /\ (stage # no_stage => position = stage)
    BY DEF ScriptInv, ImagesInv, ProgressInv, CodeStep
  <2>2. QED
    BY <2>1, StepEffect DEF IInv, Stages
<1>2. pc' # "idle"
  BY <1>1 DEF Step, CheckStage, SetBootLun, WriteHeader, WriteEntries, SetPrimary,
              SetSecondary, LunDone, GoTo, FirstWrite
<1>3. Walk' < Walk
  <2>1. Ahead \in 1 .. 6 /\ Walk = 6 * (NumLuns + 1 - lun) + Ahead
    BY <1>1 DEF Ahead, Walk, TypeOK, PCs
  <2>2. Walk' = 6 * (NumLuns + 1 - lun') + Ahead'
    BY <1>2 DEF Walk
  <2>3. CASE Advances
    BY <1>1, <2>1, <2>2, <2>3, ConstantsAssumption DEF Advances, Luns
  <2>4. CASE Finishes \/ Refuses
    <3>1. lun' = lun + 1 /\ Ahead' = 6
      BY <2>4 DEF Finishes, Refuses, Ahead
    <3>2. QED
      BY <1>1, <2>1, <2>2, <3>1, ConstantsAssumption DEF Luns
  <2>5. QED
    BY <1>1, <2>3, <2>4
<1>4. AllNew("primary")' <=> AllNew("primary")
  BY <1>1 DEF AllNew
<1>5. \A l \in Luns \ {lun} : WaitsForMain(l)' <=> WaitsForMain(l)
  BY <1>1, StageFrame DEF WaitsForMain
<1>6. Phase' <= Phase
  <2>1. CASE stage = UPDATE_FINALIZE
    <3>1. ASSUME ~isError PROVE ~isError'
      <4>1. BadSig(lun, SECONDARY_GPT)
        BY <1>1, <2>1, <3>1, ConstantsAssumption DEF ProgressInv, FinalInv, Luns
      <4>2. InternalStage(lun) = stage
        BY <1>1, <2>1, <4>1, ThreeStates DEF ProgressInv
      <4>3. QED
        BY <1>1, <3>1, <4>2 DEF Advances, Finishes, Refuses
    <3>2. QED
      BY <1>1, <2>1, <3>1 DEF Phase
  <2>2. CASE stage = UPDATE_BACKUP
    <3>1. ASSUME ~WillFail PROVE ~WillFail'
      <4>1. ~isError /\ \A l \in Luns : l >= lun /\ WaitsForMain(l) => pc = "secondary" /\ l = lun
        BY <3>1 DEF WillFail
      <4>2. ~Refuses
        <5>1. SUFFICES ASSUME Refuses PROVE FALSE
          OBVIOUS
        <5>2. ~WaitsForMain(lun) /\ InternalStage(lun) \in Stages
          BY <1>1, <4>1, <5>1, ThreeStates, ConstantsAssumption DEF Refuses, ProgressInv, Luns
        <5>3. QED
          BY <2>2, <5>1, <5>2 DEF Refuses, AlreadySet, WaitsForMain, Stages
      <4>3. isError' = isError
        BY <1>1, <4>2 DEF Advances, Finishes
      <4>4. ASSUME NEW l \in Luns, l >= lun', WaitsForMain(l)', ~(pc' = "secondary" /\ l = lun')
            PROVE  FALSE
        <5>1. l \in Int /\ lun \in Int /\ lun' \in {lun, lun + 1}
          BY <1>1, <4>4, ConstantsAssumption DEF Luns, Advances, Finishes, Refuses
        <5>2. CASE l # lun
          <6>1. WaitsForMain(l) /\ l >= lun
            BY <1>5, <4>4, <5>1, <5>2
          <6>2. QED
            BY <4>1, <5>2, <6>1
        <5>3. CASE l = lun
          <6>1. Advances
            BY <1>1, <4>2, <4>4, <5>1, <5>3 DEF Finishes
          <6>2. InternalStage(l)' = InternalStage(l)
            BY <1>1, <4>4, <5>3, <6>1 DEF Advances
          <6>3. pc = "secondary"
            BY <4>1, <4>4, <5>1, <5>3, <6>2 DEF WaitsForMain
          <6>4. lun' = lun + 1
            BY <1>1, <6>3 DEF Step, CheckStage, SetBootLun, WriteHeader, WriteEntries, SetPrimary,
                              SetSecondary, LunDone
          <6>5. QED
            BY <5>1, <6>1, <6>4 DEF Advances
        <5>4. QED
          BY <5>2, <5>3
      <4>5. QED
        BY <4>1, <4>3, <4>4 DEF WillFail
    <3>2. QED
      BY <1>1, <2>2, <3>1 DEF Phase
  <2>3. CASE stage = UPDATE_MAIN
    <3>1. ASSUME ~LeftBehind PROVE ~LeftBehind'
      <4>1. SUFFICES ASSUME NEW l \in Luns, l < lun', WaitsForMain(l)' PROVE FALSE
        BY DEF LeftBehind
      <4>2. l \in Int /\ lun \in Int /\ lun' \in {lun, lun + 1}
        BY <1>1, <4>1, ConstantsAssumption DEF Luns, Advances, Finishes, Refuses
      <4>3. CASE l # lun
        <5>1. l < lun /\ WaitsForMain(l)
          BY <1>5, <4>1, <4>2, <4>3
        <5>2. QED
          BY <3>1, <5>1 DEF LeftBehind
      <4>4. CASE l = lun
        <5>1. Finishes \/ Refuses
          BY <1>1, <4>1, <4>2, <4>4 DEF Advances
        <5>2. CASE Finishes
          <6>1. gpt'[l][PRIMARY_GPT].state = "GPT_BAD_SIGNATURE"
            BY <1>1, <2>3, <4>4, <5>2 DEF Finishes, Finished, BadSig
          <6>2. QED
            BY <4>1, <6>1 DEF WaitsForMain, InternalStage
        <5>3. CASE Refuses
          BY <2>3, <4>1, <4>4, <5>3 DEF Refuses, WaitsForMain, InternalStage
        <5>4. QED
          BY <5>1, <5>2, <5>3
      <4>5. QED
        BY <4>3, <4>4
    <3>2. ASSUME isError', ~isError PROVE AllNew("primary")
      <4>1. Refuses
        BY <1>1, <3>2 DEF Advances, Finishes
      <4>2. InternalStage(lun) = UPDATE_FINALIZE
        BY <1>1, <2>3, <4>1, ThreeStates DEF Refuses, AlreadySet, ProgressInv, Stages
      <4>3. BadSig(lun, SECONDARY_GPT)
        BY <1>1, <4>2, ThreeStates DEF ProgressInv
      <4>4. QED
        BY <1>1, <4>3 DEF ProgressInv
    <3>3. QED
      BY <1>1, <1>4, <2>3, <3>1, <3>2 DEF Phase
  <2>4. QED
    BY <1>1, <2>1, <2>2, <2>3 DEF Stages
<1>7. Phase \in 0 .. 5 /\ Phase' \in 0 .. 5
  BY DEF Phase
<1>8. QED
  BY <1>3, <1>6, <1>7 DEF Descends

(* A return: the phase falls.  A LUN left behind, or an error that is not  *)
(* explained by LUNs past UPDATE_MAIN, costs another round.                *)
LEMMA ReturnDescends ==
  ASSUME ScriptInv, ProgressInv, StageReturns
  PROVE  Descends
<1>. USE DEF no_stage, UPDATE_MAIN, UPDATE_BACKUP, UPDATE_FINALIZE
<1>1. /\ TypeOK /\ pc = "check" /\ lun > NumLuns /\ UNCHANGED <<gpt, image>>
      /\ stage \in Stages /\ position = stage
      /\ pc' = "idle" /\ lun' = 1 /\ ~isError' /\ position' = AfterReturn
  BY DEF StageReturns, Return, disk, ScriptInv, IInv, CallInv, ImagesInv, TypeOK
<1>2. \A l \in Luns : l < lun /\ ~(l >= lun) /\ ~(l < lun') /\ l >= lun'
  BY <1>1, ConstantsAssumption DEF TypeOK, Luns
<1>3. \A l \in Luns : WaitsForMain(l)' <=> WaitsForMain(l)
  BY <1>1 DEF WaitsForMain, InternalStage
<1>4. /\ LeftBehind <=> \E l \in Luns : WaitsForMain(l)
      /\ WillFail <=> isError
      /\ ~LeftBehind'
      /\ WillFail' <=> LeftBehind
  BY <1>1, <1>2, <1>3 DEF LeftBehind, WillFail
<1>5. Phase' < Phase
  BY <1>1, <1>4 DEF Phase, AfterReturn, Stages
<1>6. QED
  BY <1>5 DEF Descends

LEMMA CallDescends ==
  ASSUME ScriptInv, ProgressInv, CallStage
  PROVE  Descends
<1>1. /\ pc = "idle" /\ pc' = "check" /\ lun = 1 /\ lun' = 1 /\ ~isError /\ ~isError'
      /\ UNCHANGED <<gpt, image, position>>
  BY DEF CallStage, Call, disk, ProgressInv
<1>2. \A l \in Luns : WaitsForMain(l)' <=> WaitsForMain(l)
  BY <1>1 DEF WaitsForMain, InternalStage
<1>3. /\ LeftBehind' <=> LeftBehind
      /\ WillFail' <=> WillFail
  BY <1>1, <1>2 DEF LeftBehind, WillFail
<1>4. Phase' = Phase
  BY <1>1, <1>3 DEF Phase
<1>5. Walk' < Walk
  BY <1>1, ConstantsAssumption DEF Walk, Ahead
<1>6. QED
  BY <1>4, <1>5 DEF Descends

LEMMA RewriteDescends ==
  ASSUME ScriptInv, ProgressInv, NEW u \in Units, Rewrite(u)
  PROVE  Descends
<1>1. /\ pc = "idle" /\ granted \in Copies /\ image[u][granted] # "new"
      /\ UNCHANGED <<gpt, pc, lun, isError, position>> /\ lun = 1 /\ ~isError
      /\ image' = [image EXCEPT ![u][granted] =
                      IF image[u][granted] = "old" THEN "partial" ELSE "new"]
      /\ image \in [Units -> [Copies -> Images]]
  BY DEF Rewrite, Flash, call, ProgressInv, ScriptInv, IInv, TypeOK
<1>2. \A l \in Luns : WaitsForMain(l)' <=> WaitsForMain(l)
  BY <1>1 DEF WaitsForMain, InternalStage
<1>3. /\ LeftBehind' <=> LeftBehind
      /\ WillFail' <=> WillFail
  BY <1>1, <1>2 DEF LeftBehind, WillFail
<1>4. Phase' = Phase
  BY <1>1, <1>3 DEF Phase
<1>5. Walk' = Walk
  BY <1>1 DEF Walk, Ahead
<1>6. \A v \in Units, c \in Copies :
        image'[v][c] = IF v = u /\ c = granted
                       THEN IF image[u][granted] = "old" THEN "partial" ELSE "new"
                       ELSE image[v][c]
  BY <1>1
<1>7. Unwritten' \subseteq Unwritten
  <2>1. SUFFICES ASSUME NEW v \in Units, NEW c \in Copies, NEW k \in {"old", "partial"},
                        image'[v][c] \in {"old", k}
                 PROVE  image[v][c] \in {"old", k}
    BY DEF Unwritten
  <2>2. QED
    BY <1>1, <1>6, <2>1 DEF Images
<1>8. <<<<u, granted>>, image[u][granted]>> \in Unwritten \ Unwritten'
  <2>1. image[u][granted] \in {"old", "partial"}
    BY <1>1 DEF Images
  <2>2. image'[u][granted] \notin {"old", image[u][granted]}
    BY <1>1, <1>6, <2>1
  <2>3. QED
    BY <1>1, <2>1, <2>2 DEF Unwritten
<1>9. QED
  BY <1>4, <1>5, <1>7, <1>8 DEF Descends

(* There is no end to descend to but 0: both numbers are natural and the   *)
(* set is finite.                                                          *)
LEMMA RankWellFounded ==
  ASSUME TypeOK
  PROVE  Phase \in Nat /\ Walk \in Nat /\ IsFiniteSet(Unwritten)
<1>1. Phase \in Nat
  BY DEF Phase
<1>2. Walk \in Nat
  <2>1. Ahead \in 0 .. 6
    BY DEF Ahead
  <2>2. QED
    BY <2>1, ConstantsAssumption DEF TypeOK, Walk
<1>3. IsFiniteSet(Unwritten)
  <2>1. IsFiniteSet(Luns)
    BY FS_Interval, ConstantsAssumption DEF Luns
  <2>2. IsFiniteSet(Units)
    BY <2>1, FS_EmptySet, FS_Singleton, FS_Union DEF Units
  <2>3. IsFiniteSet({"primary", "backup"}) /\ IsFiniteSet({"old", "partial"})
    <3>1. ASSUME NEW a, NEW b PROVE IsFiniteSet({a, b})
      <4>1. IsFiniteSet({a} \cup {b})
        BY FS_Singleton, FS_AddElement
      <4>2. {a, b} = {a} \cup {b}
        OBVIOUS
      <4>3. QED
        BY <4>1, <4>2
    <3>2. QED
      BY <3>1
  <2>4. IsFiniteSet((Units \X Copies) \X {"old", "partial"})
    BY <2>2, <2>3, FS_Product DEF Copies
  <2>5. QED
    BY <2>4, FS_Subset DEF Unwritten
<1>4. QED
  BY <1>1, <1>2, <1>3

LEMMA ProgressHolds ==
  ASSUME ShortWrites = FALSE, Twin = Luns
  PROVE  ScriptSpec => [](ScriptInv /\ ProgressInv)
<1>1. ScriptInit => ProgressInv
  <2>1. ASSUME ScriptInit, NEW l \in Luns, NEW g \in Instances PROVE gpt[l][g] = Sound
    BY <2>1 DEF ScriptInit, Tables0, Instances
  <2>2. ScriptInit => SoundInv /\ \A l \in Luns : ~BadSig(l, SECONDARY_GPT)
    BY <2>1 DEF SoundInv, ArrayValid, Sound, BadSig, Instances
  <2>3. ScriptInit => /\ pc = "idle" /\ lun = 1 /\ ~isError /\ stage = no_stage
                      /\ position = UPDATE_MAIN
    BY DEF ScriptInit, Init
  <2>4. QED
    BY <2>2, <2>3 DEF ProgressInv, FinalInv, EndInv, Stages, no_stage, UPDATE_MAIN, UPDATE_FINALIZE
<1>2. ScriptInv /\ ProgressInv /\ [ScriptNext]_scriptVars => ProgressInv'
  BY ProgressKept
<1>3. QED
  BY <1>1, <1>2, ScriptInvHolds, PTL DEF ScriptSpec

(* UpdateCompletes without its fairness.  On a device whose LUNs all have  *)
(* twins, any number of faults may come before: each further step of the   *)
(* script or the code comes nearer to the end, in an order that has no     *)
(* infinite descent.                                                       *)
THEOREM StepsDescend ==
  ASSUME ShortWrites = FALSE, Twin = Luns
  PROVE  ScriptSpec => EachStepDescends /\ [](Phase \in Nat /\ Walk \in Nat /\ IsFiniteSet(Unwritten))
<1>1. ScriptInv /\ ProgressInv => (Work => Descends)
  BY CodeDescends, ReturnDescends, CallDescends, RewriteDescends DEF Work
<1>2. ScriptInv => Phase \in Nat /\ Walk \in Nat /\ IsFiniteSet(Unwritten)
  BY RankWellFounded DEF ScriptInv, IInv
<1>3. QED
  BY <1>1, <1>2, ProgressHolds, PTL DEF ScriptSpec, EachStepDescends

(* And it stops nowhere else: between two calls, the script has something  *)
(* to rewrite or may call its next stage until both copies are new and all *)
(* the tables valid.                                                       *)
THEOREM NeverStuck ==
  ASSUME ShortWrites = FALSE, Twin = Luns
  PROVE  ScriptSpec => [](SomethingToDo /\ EndsUpdated)
<1>1. ScriptInv /\ ProgressInv => EndsUpdated
  BY DEF ProgressInv, EndInv, EndsUpdated
<1>2. ScriptInv /\ ProgressInv => SomethingToDo
  <2>1. SUFFICES ASSUME ScriptInv, ProgressInv, pc = "idle", ~Updated,
                        granted \in Copies => AllNew(granted)
                 PROVE  position \in Stages /\ MayCall(position)
    BY DEF SomethingToDo
  <2>2. position \in Stages /\ stage = no_stage
    BY <2>1 DEF ProgressInv, EndInv, ScriptInv, IInv, CallInv
  <2>3. position # UPDATE_MAIN => AllNew("primary")
    BY <2>1 DEF ScriptInv, ImagesInv, Copies
  <2>4. position = UPDATE_FINALIZE => AllNew("backup")
    BY <2>1, <2>2 DEF ScriptInv, CallsInv, Copies
  <2>5. QED
    BY <2>2, <2>3, <2>4 DEF MayCall, CopiesComplete, AllNew, UPDATE_MAIN, UPDATE_BACKUP, UPDATE_FINALIZE
<1>3. QED
  BY <1>1, <1>2, ProgressHolds, PTL

=============================================================================
