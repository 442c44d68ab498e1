------------------------------- MODULE GptDisk -------------------------------
(***************************************************************************)
(* The gpt_disk functions (gpt-utils/gpt-utils.cpp:1133-1548): a handle is *)
(* filled from the disk, its entries are edited, its CRCs recomputed and   *)
(* its contents written back.  The caller is the boot control HAL, which   *)
(* links the library (bootctrl/Android.bp) and is not under src/: each     *)
(* handle is a caller that keeps to the order the comment of               *)
(* gpt_disk_update_crc asks for.  Power may fail at any time.              *)
(*                                                                         *)
(* An entries array is the number of the edit that produced it; Torn is a  *)
(* half-written or half-read one.  blk_rw takes a read or a write that     *)
(* moves fewer bytes than asked for a success; headers are single blocks   *)
(* and are moved whole.                                                    *)
(***************************************************************************)
EXTENDS Integers

CONSTANTS Handles,      \* gpt_disk objects in use
          MaxEdits      \* bound on the edits of entries

ASSUME EditsAssumption == MaxEdits \in Nat

PRIMARY_GPT == "PRIMARY_GPT"
SECONDARY_GPT == "SECONDARY_GPT"
Instances == {PRIMARY_GPT, SECONDARY_GPT}

Torn == -1
Versions == 0 .. MaxEdits
Arrays == Versions \cup {Torn}

(* PARTITION_CRC_OFFSET of a header, as the array it is the CRC of; where  *)
(* PENTRIES_OFFSET points; whether HEADER_CRC_OFFSET fits the header.      *)
Headers == [crc : Arrays, at : Instances, sealed : BOOLEAN]

NoHeader == [crc |-> 0, at |-> PRIMARY_GPT, sealed |-> FALSE]

VARIABLES
  header,       \* header[g]: the header block of instance g on the disk
  entries,      \* entries[g]: its entries array on the disk
  handle,       \* handle[h]: struct gpt_disk
  pc,           \* pc[h]: the call the owner of h makes next or is in
  result,       \* result[h]: what its last call returned since power came
  edits,        \* edits so far
  (* What happened, read by no guard.                                      *)
  writer,       \* the handle that wrote the primary header and array last
  short         \* handles whose last commit cut the array short unnoticed

disk == <<header, entries, writer, short>>
vars == <<header, entries, handle, pc, result, edits, writer, short>>

(* filled: how many of the four buffers, in the order of the code, were    *)
(* allocated and read.                                                     *)
Structs == [hdr : Headers, hdr_bak : Headers, pentry_arr : Arrays, pentry_arr_bak : Arrays,
            filled : 0 .. 4, is_initialized : BOOLEAN]

Initialized(h) == handle[h].is_initialized

TypeOK == /\ header \in [Instances -> Headers]
          /\ entries \in [Instances -> Arrays]
          /\ handle \in [Handles -> Structs]
          /\ pc \in [Handles -> {"closed", "read", "edit", "update_crc",
                                 "set_header", "set_pentry_arr", "done"}]
          /\ result \in [Handles -> {"none", "ok", "error"}]
          /\ edits \in Versions
          /\ writer \in [header : Handles \cup {"nobody"}, entries : Handles \cup {"nobody"}]
          /\ short \subseteq Handles
          /\ \A h \in Handles : Initialized(h) => handle[h].filled = 4

Valid(g) == header[g].sealed /\ header[g].crc = entries[g]

(* gpt_disk_alloc: a zeroed struct.                                        *)
Zeroed == [hdr |-> NoHeader, hdr_bak |-> NoHeader, pentry_arr |-> 0, pentry_arr_bak |-> 0,
           filled |-> 0, is_initialized |-> FALSE]

Init == /\ header = [g \in Instances |-> [crc |-> 0, at |-> g, sealed |-> TRUE]]
        /\ entries = [g \in Instances |-> 0]
        /\ handle = [h \in Handles |-> Zeroed]
        /\ pc = [h \in Handles |-> "closed"]
        /\ result = [h \in Handles |-> "none"]
        /\ edits = 0
        /\ writer = [header |-> "nobody", entries |-> "nobody"]
        /\ short = {}

GoTo(h, label) == pc' = [pc EXCEPT ![h] = label]

Alloc(h) == /\ pc[h] = "closed"
            /\ handle' = [handle EXCEPT ![h] = Zeroed]
            /\ GoTo(h, "read")
            /\ UNCHANGED <<disk, result, edits>>

(* gpt_disk_get_disk_info: nothing read is checked against a CRC.  The     *)
(* header for hdr_bak is fetched with PRIMARY_GPT.                         *)
BackupInstance == PRIMARY_GPT

GetDiskInfo(h) ==
  /\ pc[h] = "read"
  /\ LET hdr == header[PRIMARY_GPT]
         bak == header[BackupInstance]
     IN  \E arr \in {entries[hdr.at], Torn}, arr_bak \in {entries[bak.at], Torn} :
           handle' = [handle EXCEPT ![h] =
                        [hdr |-> hdr, hdr_bak |-> bak, pentry_arr |-> arr,
                         pentry_arr_bak |-> arr_bak, filled |-> 4, is_initialized |-> TRUE]]
  /\ GoTo(h, "edit")
  /\ UNCHANGED <<disk, result, edits>>

(* A read fails after n buffers: the struct stays without                  *)
(* GPT_DISK_INIT_MAGIC, whether or not the owner looks at the return code. *)
(* Mutant: the magic is set before the reads.                              *)
GetDiskInfoFails_magic(h) ==
  /\ pc[h] = "read"
  /\ \E n \in 0 .. 3 :
       handle' = [handle EXCEPT ![h].filled = n, ![h].is_initialized = TRUE]
  /\ \E label \in {"edit", "update_crc", "set_header"} : GoTo(h, label)
  /\ UNCHANGED <<disk, result, edits>>

GetDiskInfoFails(h) ==
  /\ pc[h] = "read"
  /\ \E n \in 0 .. 3 : handle' = [handle EXCEPT ![h].filled = n]
  /\ \E label \in {"edit", "update_crc", "set_header"} : GoTo(h, label)
  /\ UNCHANGED <<disk, result, edits>>

(* The owner changes the AB attributes of a slot in the entries that       *)
(* gpt_disk_get_pentry found, in both arrays; the rest of a torn array     *)
(* stays as it is.                                                         *)
Edited(a) == IF a = Torn THEN Torn ELSE edits + 1

Edit(h) ==
  /\ pc[h] = "edit" /\ Initialized(h)
  /\ edits < MaxEdits /\ edits' = edits + 1
  /\ handle' = [handle EXCEPT ![h].pentry_arr = Edited(@), ![h].pentry_arr_bak = Edited(@)]
  /\ GoTo(h, "update_crc")
  /\ UNCHANGED <<disk, result>>

(* Mutant: the CRC of the entries is left as it was read.                  *)
Sealed_stale(hdr, arr) == [hdr EXCEPT !.sealed = TRUE]

Sealed(hdr, arr) == [hdr EXCEPT !.crc = arr, !.sealed = TRUE]

UpdateCrc(h) ==
  /\ pc[h] = "update_crc" /\ Initialized(h)
  /\ handle' = [handle EXCEPT ![h].hdr = Sealed(@, handle[h].pentry_arr),
                              ![h].hdr_bak = Sealed(@, handle[h].pentry_arr_bak)]
  /\ GoTo(h, "set_header")
  /\ UNCHANGED <<disk, result, edits>>

Returns(h, r) == result' = [result EXCEPT ![h] = r] /\ GoTo(h, "done")

(* gpt_disk_commit, first write: the primary header.  Mutant: to the       *)
(* secondary instance as well.                                             *)
SetHeader_both(h) == /\ header' = [g \in Instances |-> handle[h].hdr]
                     /\ writer' = [writer EXCEPT !.header = h]

SetHeader(h) == /\ header' = [header EXCEPT ![PRIMARY_GPT] = handle[h].hdr]
                /\ writer' = [writer EXCEPT !.header = h]

CommitHeader(h) ==
  /\ pc[h] = "set_header" /\ Initialized(h)
  /\ \/ SetHeader(h) /\ GoTo(h, "set_pentry_arr") /\ UNCHANGED result
     \/ (SetHeader(h) \/ UNCHANGED <<header, writer>>) /\ Returns(h, "error")
  /\ short' = short \ {h}
  /\ UNCHANGED <<entries, handle, edits>>

(* Second write: the array, where the header says it is.                   *)
SetPentryArr(h, a) == /\ entries' = [entries EXCEPT ![handle[h].hdr.at] = a]
                      /\ writer' = [writer EXCEPT !.entries = h]

CommitEntries(h) ==
  /\ pc[h] = "set_pentry_arr"
  /\ \/ SetPentryArr(h, handle[h].pentry_arr) /\ Returns(h, "ok") /\ UNCHANGED short
     \/ SetPentryArr(h, Torn) /\ Returns(h, "ok") /\ short' = short \cup {h}
     \/ /\ \/ UNCHANGED <<entries, writer>>
           \/ \E a \in {handle[h].pentry_arr, Torn} : SetPentryArr(h, a)
        /\ Returns(h, "error") /\ UNCHANGED short
  /\ UNCHANGED <<header, handle, edits>>

(* gpt_disk_get_pentry, gpt_disk_update_crc and gpt_disk_commit refuse a   *)
(* struct gpt_disk_get_disk_info did not fill.                             *)
Refused(h) == /\ pc[h] \in {"edit", "update_crc", "set_header"} /\ ~Initialized(h)
              /\ Returns(h, "error")
              /\ UNCHANGED <<disk, handle, edits>>

(* gpt_disk_free.                                                          *)
Free(h) == /\ pc[h] = "done"
           /\ handle' = [handle EXCEPT ![h] = Zeroed]
           /\ GoTo(h, "closed")
           /\ UNCHANGED <<disk, result, edits>>

(* Power fails: every handle is gone; an array being written may be torn.  *)
Crash ==
  /\ \/ UNCHANGED <<entries, writer>>
     \/ \E h \in Handles : pc[h] = "set_pentry_arr" /\ SetPentryArr(h, Torn)
  /\ handle' = [h \in Handles |-> Zeroed]
  /\ pc' = [h \in Handles |-> "closed"]
  /\ result' = [h \in Handles |-> "none"]
  /\ short' = {}
  /\ UNCHANGED <<header, edits>>

Next == \/ \E h \in Handles : \/ Alloc(h) \/ GetDiskInfo(h) \/ GetDiskInfoFails(h)
                              \/ Edit(h) \/ UpdateCrc(h)
                              \/ CommitHeader(h) \/ CommitEntries(h) \/ Refused(h) \/ Free(h)
        \/ Crash

Spec == Init /\ [][Next]_vars

-----------------------------------------------------------------------------
(* Properties.                                                             *)

(* Commits of one handle or of several at once, failed, torn or cut off by *)
(* a power failure, leave one instance that is valid and whole.            *)
SomeTableWhole == \E g \in Instances : Valid(g) /\ entries[g] # Torn

(* gpt_disk_commit returned 0 and neither part of the primary instance was *)
(* written by another handle after it: the header of the handle is there,  *)
(* and the instance is valid over the handle's array, unless the write of  *)
(* the array was cut short, which blk_rw does not notice: then the CRC     *)
(* does not fit, so that a torn array is never taken for a table.          *)
SealedOver(h) == handle[h].hdr.sealed /\ handle[h].hdr.crc = handle[h].pentry_arr

CommitPersists ==
  \A h \in Handles :
    pc[h] = "done" /\ result[h] = "ok" /\ writer = [header |-> h, entries |-> h] =>
      /\ header[PRIMARY_GPT] = handle[h].hdr /\ SealedOver(h)
      /\ h \notin short => Valid(PRIMARY_GPT) /\ entries[PRIMARY_GPT] = handle[h].pentry_arr
      /\ h \in short /\ handle[h].pentry_arr # Torn => ~Valid(PRIMARY_GPT)
=============================================================================
