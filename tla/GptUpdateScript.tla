--------------------------- MODULE GptUpdateScript ---------------------------
(***************************************************************************)
(* One whole update: an updater that runs the three stages in order,       *)
(* rewrites all the copies a stage released, and after a failure or a      *)
(* power cut starts again.  It keeps no note of how far it came; it only   *)
(* compares the images with the new ones.  The updater is not under src/;  *)
(* it is the client prepare_boot_update's stages and return codes are made *)
(* for.                                                                    *)
(***************************************************************************)
EXTENDS GptUpdate

CONSTANT MaxFaults      \* bound on power cuts and failed operations

ASSUME MaxFaultsAssumption == MaxFaults \in Nat

VARIABLES position,     \* the stage to call next; no_stage when all are done
          faults        \* power cuts and failed operations so far

scriptVars == <<vars, position, faults>>

AllNew(c) == \A u \in Units : image[u][c] = "new"

ScriptInit == /\ Init
              /\ gpt = [l \in Luns |-> Tables0(Sound, Sound)]
              /\ position = UPDATE_MAIN /\ faults = 0

(* A stage is called when every copy the stage before it released is new.  *)
CallStage == /\ position \in Stages
             /\ granted \in Copies => AllNew(granted)
             /\ Call(position)
             /\ UNCHANGED <<position, faults>>

Rewrite(u) == /\ granted \in Copies /\ image[u][granted] # "new"
              /\ Flash(u, IF image[u][granted] = "old" THEN "partial" ELSE "new")
              /\ UNCHANGED <<position, faults>>

(* After an error the updater starts over; when it is UPDATE_MAIN that is  *)
(* refused although the primary copies are new, the device may be past it. *)
AfterReturn ==
  IF ~isError THEN (IF stage = UPDATE_FINALIZE THEN no_stage ELSE stage + 1)
  ELSE IF stage = UPDATE_MAIN /\ AllNew("primary") THEN UPDATE_BACKUP
  ELSE UPDATE_MAIN

StageReturns == Return /\ position' = AfterReturn /\ UNCHANGED faults

CodeStep == Step /\ UNCHANGED <<position, faults>>

Fault == /\ faults < MaxFaults /\ faults' = faults + 1
         /\ \/ IoError /\ UNCHANGED position
            \/ Crash /\ position' = UPDATE_MAIN

Work == CallStage \/ CodeStep \/ StageReturns \/ \E u \in Units : Rewrite(u)

ScriptNext == Work \/ Fault

(* A powered device goes on with the call and the updater with its script. *)
ScriptSpec == ScriptInit /\ [][ScriptNext]_scriptVars /\ WF_scriptVars(Work)

-----------------------------------------------------------------------------
(* Once UPDATE_BACKUP has returned 0, the device boots new images for good *)
(* and nothing else, xbl included: no fault, retry or power cut later in   *)
(* the update takes any LUN back to an old or half-written copy.           *)
RunsNew == \A u \in Units : Running(u) \in Copies /\ image[u][Running(u)] = "new"
BackupIsForGood == [](granted = "backup" => []RunsNew)

(* Once faults stop, the update comes to its end with both copies new and  *)
(* both tables of every LUN valid: no fault leaves the headers in a state  *)
(* every stage refuses.                                                    *)
Updated == /\ position = no_stage /\ AllNew("primary") /\ AllNew("backup")
           /\ \A l \in Luns, g \in Instances : Valid(gpt[l][g])

UpdateCompletes == <>Updated

(* Why it must: what is left to do, compared in this order.  Phase: the    *)
(* stages still to be called, where 4 and 5 stand for a call that will     *)
(* fail or has left a LUN behind, so that UPDATE_MAIN comes once more;     *)
(* Walk: the steps left of the call; Unwritten: what is left to rewrite.   *)
WaitsForMain(l) == InternalStage(l) = UPDATE_MAIN

LeftBehind == \E l \in Luns : l < lun /\ WaitsForMain(l)

WillFail == isError \/ \E l \in Luns : /\ l >= lun /\ WaitsForMain(l)
                                      /\ ~(pc = "secondary" /\ l = lun)

Phase ==
  CASE position = no_stage        -> 0
    [] position = UPDATE_FINALIZE -> IF isError THEN 4 ELSE 1
    [] position = UPDATE_BACKUP   -> IF WillFail THEN 4 ELSE 2
    [] OTHER -> IF LeftBehind THEN 5 ELSE IF isError /\ ~AllNew("primary") THEN 4 ELSE 3

Ahead == CASE pc = "check"   -> 6 [] pc = "bootlun" -> 5 [] pc = "header"    -> 4
           [] pc = "entries" -> 3 [] pc = "primary" -> 2 [] pc = "secondary" -> 1
           [] OTHER -> 0

Walk == IF pc = "idle" THEN 6 * (NumLuns + 2) ELSE 6 * (NumLuns + 1 - lun) + Ahead

Unwritten == {w \in (Units \X Copies) \X {"old", "partial"} :
                image[w[1][1]][w[1][2]] \in {"old", w[2]}}

Descends == \/ Phase' < Phase
            \/ Phase' = Phase /\ Walk' < Walk
            \/ /\ Phase' = Phase /\ Walk' = Walk
               /\ Unwritten' \subseteq Unwritten /\ Unwritten' # Unwritten

(* Every step of the script and the code brings the end nearer, ...        *)
EachStepDescends == [][Work => Descends]_scriptVars

(* ... between the calls the script can go on until the update is done,    *)
(* with a copy that is released or a stage it may call, ...                *)
SomethingToDo == pc = "idle" /\ ~Updated =>
  \/ granted \in Copies /\ ~AllNew(granted)
  \/ position \in Stages /\ MayCall(position)

(* ... and the script ends nowhere else.                                   *)
EndsUpdated == position = no_stage => Updated

(* A stage that found its work already done is "ready for update"          *)
(* (gpt-utils.cpp:809): the copies a successful call releases are not the  *)
(* ones the device would boot from, xbl included.                          *)
ReadyForUpdate == granted # "none" => \A u \in Units : Running(u) # granted
=============================================================================
