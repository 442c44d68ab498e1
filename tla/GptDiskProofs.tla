---------------------------- MODULE GptDiskProofs ----------------------------
(***************************************************************************)
(* Proofs about GptDisk for any set of handles and any bound on the edits. *)
(***************************************************************************)
EXTENDS GptDisk, TLAPS

(* What makes the secondary instance a safe fallback: every header that    *)
(* can be written points at the primary array, and only the primary header *)
(* block is written.                                                       *)
FallbackInv ==
  /\ header \in [Instances -> Headers] /\ entries \in [Instances -> Arrays]
  /\ handle \in [Handles -> Structs]
  /\ header[SECONDARY_GPT] = [crc |-> 0, at |-> SECONDARY_GPT, sealed |-> TRUE]
  /\ entries[SECONDARY_GPT] = 0
  /\ header[PRIMARY_GPT].at = PRIMARY_GPT
  /\ \A h \in Handles : handle[h].hdr.at = PRIMARY_GPT

LEMMA ZeroedType == Zeroed \in Structs /\ Zeroed.hdr.at = PRIMARY_GPT
BY EditsAssumption DEF Zeroed, Structs, NoHeader, Headers, Arrays, Versions, Instances

LEMMA InitFallback == Init => FallbackInv
<1>. SUFFICES ASSUME Init PROVE FallbackInv
  OBVIOUS
<1>1. \A g \in Instances : [crc |-> 0, at |-> g, sealed |-> TRUE] \in Headers
  BY EditsAssumption DEF Headers, Arrays, Versions
<1>2. header \in [Instances -> Headers] /\ entries \in [Instances -> Arrays]
  BY <1>1, EditsAssumption DEF Init, Arrays, Versions
<1>3. QED
  BY <1>2, ZeroedType DEF Init, FallbackInv, Instances

(* A handle may be replaced by one that still points at the primary array. *)
LEMMA HandleKeeps ==
  ASSUME FallbackInv, NEW h \in Handles, NEW s \in Structs, s.hdr.at = PRIMARY_GPT,
         handle' = [handle EXCEPT ![h] = s], UNCHANGED <<header, entries>>
  PROVE  FallbackInv'
BY DEF FallbackInv

LEMMA SetHeaderKeeps ==
  ASSUME FallbackInv, NEW h \in Handles, SetHeader(h), UNCHANGED <<entries, handle>>
  PROVE  FallbackInv'
<1>1. handle[h].hdr \in Headers /\ handle[h].hdr.at = PRIMARY_GPT
  BY DEF FallbackInv, Structs
<1>2. QED
  BY <1>1 DEF FallbackInv, SetHeader, Instances, PRIMARY_GPT, SECONDARY_GPT

LEMMA SetPentryArrKeeps ==
  ASSUME FallbackInv, NEW h \in Handles, NEW a \in Arrays, SetPentryArr(h, a), UNCHANGED header,
         handle' = handle \/ handle' = [k \in Handles |-> Zeroed]
  PROVE  FallbackInv'
<1>1. entries' = [entries EXCEPT ![PRIMARY_GPT] = a]
  BY DEF FallbackInv, SetPentryArr
<1>2. QED
  BY <1>1, ZeroedType DEF FallbackInv, Instances, PRIMARY_GPT, SECONDARY_GPT

EditsInv == edits \in Versions

LEMMA NextEdits == EditsInv /\ [Next]_vars => EditsInv'
<1>. SUFFICES ASSUME edits \in Versions, [Next]_vars PROVE edits' \in Versions
  BY DEF EditsInv
<1>1. ASSUME NEW h \in Handles, Edit(h) PROVE edits' \in Versions
  BY <1>1, EditsAssumption DEF Edit, Versions
<1>2. ASSUME UNCHANGED edits PROVE edits' \in Versions
  BY <1>2
<1>3. ASSUME NEW h \in Handles,
             Alloc(h) \/ GetDiskInfo(h) \/ GetDiskInfoFails(h) \/ UpdateCrc(h) \/ Free(h)
      PROVE  UNCHANGED edits
  BY <1>3 DEF Alloc, GetDiskInfo, GetDiskInfoFails, UpdateCrc, Free
<1>4. ASSUME NEW h \in Handles, CommitHeader(h) \/ CommitEntries(h) \/ Refused(h)
      PROVE  UNCHANGED edits
  BY <1>4 DEF CommitHeader, CommitEntries, Refused
<1>5. Crash \/ UNCHANGED vars => UNCHANGED edits
  BY DEF Crash, vars
<1>6. QED
  BY <1>1, <1>2, <1>3, <1>4, <1>5 DEF Next

LEMMA NextFallback == EditsInv /\ FallbackInv /\ [Next]_vars => FallbackInv'
<1>. SUFFICES ASSUME EditsInv, FallbackInv, [Next]_vars PROVE FallbackInv'
  OBVIOUS
<1>1. ASSUME NEW h \in Handles, Alloc(h) \/ Free(h) PROVE FallbackInv'
  BY <1>1, HandleKeeps, ZeroedType DEF Alloc, Free, disk
<1>2. ASSUME NEW h \in Handles, GetDiskInfo(h) PROVE FallbackInv'
  <2>1. header[PRIMARY_GPT] \in Headers /\ entries[PRIMARY_GPT] \in Arrays
        /\ header[PRIMARY_GPT].at = PRIMARY_GPT
    BY DEF FallbackInv, Instances
  <2>2. PICK arr \in Arrays, bak \in Arrays :
          handle' = [handle EXCEPT ![h] =
                       [hdr |-> header[PRIMARY_GPT], hdr_bak |-> header[PRIMARY_GPT],
                        pentry_arr |-> arr, pentry_arr_bak |-> bak,
                        filled |-> 4, is_initialized |-> TRUE]]
    BY <1>2, <2>1 DEF GetDiskInfo, BackupInstance, Arrays
  <2>. DEFINE s == [hdr |-> header[PRIMARY_GPT], hdr_bak |-> header[PRIMARY_GPT],
                    pentry_arr |-> arr, pentry_arr_bak |-> bak,
                    filled |-> 4, is_initialized |-> TRUE]
  <2>3. s \in Structs /\ s.hdr.at = PRIMARY_GPT
    BY <2>1 DEF Structs
  <2>4. QED
    BY <1>2, <2>2, <2>3, HandleKeeps DEF GetDiskInfo, disk
<1>3. ASSUME NEW h \in Handles, GetDiskInfoFails(h) \/ Refused(h) PROVE FallbackInv'
  <2>1. CASE GetDiskInfoFails(h)
    <3>1. PICK n \in 0 .. 3 : handle' = [handle EXCEPT ![h].filled = n]
      BY <2>1 DEF GetDiskInfoFails
    <3>. DEFINE s == [handle[h] EXCEPT !.filled = n]
    <3>2. s \in Structs /\ s.hdr.at = PRIMARY_GPT
      BY DEF FallbackInv, Structs
    <3>3. handle' = [handle EXCEPT ![h] = s]
      BY <3>1
    <3>4. QED
      BY <2>1, <3>2, <3>3, HandleKeeps DEF GetDiskInfoFails, disk
  <2>2. CASE Refused(h)
    BY <2>2 DEF Refused, FallbackInv, disk
  <2>3. QED
    BY <1>3, <2>1, <2>2
<1>4. ASSUME NEW h \in Handles, Edit(h) \/ UpdateCrc(h)
      PROVE  FallbackInv'
  <2>1. handle[h] \in Structs /\ handle[h].hdr \in Headers /\ handle[h].hdr_bak \in Headers
        /\ handle[h].hdr.at = PRIMARY_GPT
    BY DEF FallbackInv, Structs
  <2>2. CASE Edit(h)
    <3>. DEFINE s == [handle[h] EXCEPT !.pentry_arr = Edited(@), !.pentry_arr_bak = Edited(@)]
    <3>1. \A a \in Arrays : Edited(a) \in Arrays
      BY <2>2, EditsAssumption DEF EditsInv, Edit, Edited, Arrays, Versions
    <3>2. s \in Structs /\ s.hdr.at = PRIMARY_GPT
      BY <2>1, <3>1 DEF Structs
    <3>3. handle' = [handle EXCEPT ![h] = s]
      BY <2>2 DEF Edit
    <3>4. QED
      BY <2>2, <3>2, <3>3, HandleKeeps DEF Edit, disk
  <2>3. CASE UpdateCrc(h)
    <3>. DEFINE s == [handle[h] EXCEPT !.hdr = Sealed(@, handle[h].pentry_arr),
                                       !.hdr_bak = Sealed(@, handle[h].pentry_arr_bak)]
    <3>1. \A d \in Headers, a \in Arrays : Sealed(d, a) \in Headers /\ Sealed(d, a).at = d.at
      BY DEF Sealed, Headers
    <3>2. s \in Structs /\ s.hdr.at = PRIMARY_GPT
      BY <2>1, <3>1 DEF Structs
    <3>3. handle' = [handle EXCEPT ![h] = s]
      BY <2>3 DEF UpdateCrc
    <3>4. QED
      BY <2>3, <3>2, <3>3, HandleKeeps DEF UpdateCrc, disk
  <2>4. QED
    BY <1>4, <2>2, <2>3
<1>5. ASSUME NEW h \in Handles, CommitHeader(h) PROVE FallbackInv'
  <2>1. CASE SetHeader(h)
    BY <1>5, <2>1, SetHeaderKeeps DEF CommitHeader
  <2>2. CASE UNCHANGED header
    BY <1>5, <2>2 DEF CommitHeader, FallbackInv
  <2>3. QED
    BY <1>5, <2>1, <2>2 DEF CommitHeader
<1>6. ASSUME NEW h \in Handles, CommitEntries(h) PROVE FallbackInv'
  <2>1. handle[h].pentry_arr \in Arrays /\ Torn \in Arrays
    BY DEF FallbackInv, Structs, Arrays
  <2>2. CASE UNCHANGED entries
    BY <1>6, <2>2 DEF CommitEntries, FallbackInv
  <2>3. CASE \E a \in {handle[h].pentry_arr, Torn} : SetPentryArr(h, a)
    BY <1>6, <2>1, <2>3, SetPentryArrKeeps DEF CommitEntries
  <2>4. QED
    BY <1>6, <2>2, <2>3 DEF CommitEntries
<1>7. CASE Crash
  <2>1. CASE UNCHANGED entries
    BY <1>7, <2>1, ZeroedType DEF Crash, FallbackInv
  <2>2. ASSUME NEW h \in Handles, SetPentryArr(h, Torn) PROVE FallbackInv'
    BY <1>7, <2>2, SetPentryArrKeeps DEF Crash, Arrays
  <2>3. QED
    BY <1>7, <2>1, <2>2 DEF Crash
<1>8. CASE UNCHANGED vars
  BY <1>8 DEF vars, FallbackInv
<1>9. QED
  BY <1>1, <1>2, <1>3, <1>4, <1>5, <1>6, <1>7, <1>8 DEF Next

(* Whatever commits, failures and power cuts happened, a valid and whole   *)
(* instance is on the disk.                                                *)
THEOREM WholeTable == Spec => []SomeTableWhole
<1>1. FallbackInv => SomeTableWhole
  BY DEF FallbackInv, SomeTableWhole, Valid, Torn, Instances
<1>2. Init => EditsInv
  BY EditsAssumption DEF Init, EditsInv, Versions
<1>3. QED
  BY <1>1, <1>2, InitFallback, NextEdits, NextFallback, PTL DEF Spec

-----------------------------------------------------------------------------
(* What the calls of each handle return.                                   *)

PCs == {"closed", "read", "edit", "update_crc", "set_header", "set_pentry_arr", "done"}

CallsInv == /\ pc \in [Handles -> PCs] /\ result \in [Handles -> {"none", "ok", "error"}]
            /\ writer \in [header : Handles \cup {"nobody"}, entries : Handles \cup {"nobody"}]
            /\ short \subseteq Handles

LEMMA NextCalls == CallsInv /\ [Next]_vars => CallsInv'
<1>. SUFFICES ASSUME CallsInv, [Next]_vars PROVE CallsInv'
  OBVIOUS
<1>. USE DEF CallsInv, PCs, GoTo, Returns, disk, SetHeader, SetPentryArr
<1>1. ASSUME NEW h \in Handles,
             Alloc(h) \/ GetDiskInfo(h) \/ GetDiskInfoFails(h) \/ Edit(h) \/ UpdateCrc(h)
      PROVE  CallsInv'
  BY <1>1 DEF Alloc, GetDiskInfo, GetDiskInfoFails, Edit, UpdateCrc
<1>2. ASSUME NEW h \in Handles, CommitHeader(h) \/ CommitEntries(h) \/ Refused(h) \/ Free(h)
      PROVE  CallsInv'
  BY <1>2 DEF CommitHeader, CommitEntries, Refused, Free
<1>3. CASE Crash
  BY <1>3 DEF Crash
<1>4. CASE UNCHANGED vars
  BY <1>4 DEF vars
<1>5. QED
  BY <1>1, <1>2, <1>3, <1>4 DEF Next

(* A header about to be written is sealed over the array that goes with    *)
(* it; what a handle wrote is on the disk until another handle writes.     *)
CommitInv(h) ==
  /\ pc[h] = "read" => ~Initialized(h)
  /\ pc[h] = "set_header" /\ Initialized(h) => SealedOver(h)
  /\ pc[h] = "set_pentry_arr" =>
       /\ SealedOver(h) /\ h \notin short
       /\ writer.header = h => header[PRIMARY_GPT] = handle[h].hdr
  /\ pc[h] = "done" /\ result[h] = "ok" =>
       /\ SealedOver(h)
       /\ writer.header = h => header[PRIMARY_GPT] = handle[h].hdr
       /\ writer.entries = h =>
            entries[PRIMARY_GPT] = IF h \in short THEN Torn ELSE handle[h].pentry_arr

CommitsInv == \A h \in Handles : CommitInv(h)

(* A step of another handle leaves the disk alone or is its last writer.   *)
LEMMA OthersCommit ==
  ASSUME NEW h \in Handles, CommitInv(h),
         pc'[h] = pc[h], result'[h] = result[h], handle'[h] = handle[h],
         h \in short' <=> h \in short,
         \/ UNCHANGED header /\ writer'.header = writer.header
         \/ writer'.header # h,
         \/ UNCHANGED entries /\ writer'.entries = writer.entries
         \/ writer'.entries # h
  PROVE  CommitInv(h)'
<1>1. (SealedOver(h)' <=> SealedOver(h)) /\ (Initialized(h)' <=> Initialized(h))
  BY DEF SealedOver, Initialized
<1>2. QED
  BY <1>1 DEF CommitInv

LEMMA OtherSteps ==
  ASSUME FallbackInv, CallsInv, NEW h \in Handles, CommitInv(h), NEW o \in Handles \ {h},
         \/ Alloc(o) \/ GetDiskInfo(o) \/ GetDiskInfoFails(o) \/ Edit(o) \/ UpdateCrc(o)
         \/ CommitHeader(o) \/ CommitEntries(o) \/ Refused(o) \/ Free(o)
  PROVE  CommitInv(h)'
<1>. USE DEF CallsInv, PCs, GoTo, Returns, disk
<1>1. handle \in [Handles -> Structs]
  BY DEF FallbackInv
<1>2. CASE Alloc(o) \/ GetDiskInfo(o) \/ Edit(o) \/ UpdateCrc(o) \/ Free(o)
  BY <1>1, <1>2, OthersCommit DEF Alloc, GetDiskInfo, Edit, UpdateCrc, Free
<1>3. CASE GetDiskInfoFails(o) \/ Refused(o)
  BY <1>1, <1>3, OthersCommit DEF GetDiskInfoFails, Refused
<1>4. CASE CommitHeader(o)
  BY <1>4, OthersCommit DEF CommitHeader, SetHeader
<1>5. CASE CommitEntries(o)
  BY <1>5, OthersCommit DEF CommitEntries, SetPentryArr
<1>6. QED
  BY <1>2, <1>3, <1>4, <1>5

LEMMA OwnSteps ==
  ASSUME FallbackInv, CallsInv, NEW h \in Handles, CommitInv(h),
         \/ Alloc(h) \/ GetDiskInfo(h) \/ GetDiskInfoFails(h) \/ Edit(h) \/ UpdateCrc(h)
         \/ CommitHeader(h) \/ CommitEntries(h) \/ Refused(h) \/ Free(h)
  PROVE  CommitInv(h)'
<1>. USE DEF CallsInv, PCs, GoTo, Returns, CommitInv
<1>1. /\ handle \in [Handles -> Structs] /\ handle[h] \in Structs /\ handle[h].hdr \in Headers
      /\ handle[h].hdr.at = PRIMARY_GPT
      /\ header \in [Instances -> Headers] /\ entries \in [Instances -> Arrays]
      /\ PRIMARY_GPT \in Instances
  BY DEF FallbackInv, Structs, Instances
<1>2. CASE Alloc(h) \/ GetDiskInfo(h) \/ Edit(h) \/ Free(h)
  BY <1>1, <1>2 DEF Alloc, GetDiskInfo, Edit, Free, Initialized, Zeroed
<1>3. CASE GetDiskInfoFails(h)
  <2>1. ~Initialized(h)'
    BY <1>1, <1>3 DEF GetDiskInfoFails, Initialized
  <2>2. QED
    BY <1>3, <2>1 DEF GetDiskInfoFails
<1>4. CASE UpdateCrc(h)
  <2>. DEFINE s == [handle[h] EXCEPT !.hdr = Sealed(@, handle[h].pentry_arr),
                                     !.hdr_bak = Sealed(@, handle[h].pentry_arr_bak)]
  <2>1. s.hdr = Sealed(handle[h].hdr, handle[h].pentry_arr) /\ s.pentry_arr = handle[h].pentry_arr
    BY <1>1 DEF Structs
  <2>2. Sealed(handle[h].hdr, handle[h].pentry_arr).sealed
        /\ Sealed(handle[h].hdr, handle[h].pentry_arr).crc = handle[h].pentry_arr
    BY <1>1 DEF Sealed, Headers
  <2>3. handle'[h] = s
    BY <1>1, <1>4 DEF UpdateCrc
  <2>4. SealedOver(h)'
    BY <2>1, <2>2, <2>3 DEF SealedOver
  <2>5. pc'[h] = "set_header"
    BY <1>4 DEF UpdateCrc
  <2>6. QED
    BY <2>4, <2>5
<1>5. CASE CommitHeader(h)
  BY <1>1, <1>5 DEF CommitHeader, SetHeader, SealedOver, Initialized
<1>6. CASE CommitEntries(h)
  <2>1. CASE Returns(h, "ok")
    <3>1. entries'[PRIMARY_GPT] = IF h \in short' THEN Torn ELSE handle[h].pentry_arr
      BY <1>1, <1>6, <2>1 DEF CommitEntries, SetPentryArr
    <3>2. writer'.header = writer.header /\ UNCHANGED <<header, handle>>
      BY <1>6, <2>1 DEF CommitEntries, SetPentryArr
    <3>3. QED
      BY <1>6, <2>1, <3>1, <3>2 DEF CommitEntries, SealedOver
  <2>2. CASE Returns(h, "error")
    BY <1>6, <2>2 DEF CommitEntries
  <2>3. QED
    BY <1>6, <2>1, <2>2 DEF CommitEntries
<1>7. CASE Refused(h)
  BY <1>7 DEF Refused
<1>8. QED
  BY <1>2, <1>3, <1>4, <1>5, <1>6, <1>7

LEMMA NextCommits == FallbackInv /\ CallsInv /\ CommitsInv /\ [Next]_vars => CommitsInv'
<1>. SUFFICES ASSUME FallbackInv, CallsInv, CommitsInv, [Next]_vars, NEW h \in Handles
              PROVE  CommitInv(h)'
  BY DEF CommitsInv
<1>. USE DEF CommitsInv
<1>1. CASE Crash
  BY <1>1 DEF Crash, CommitInv
<1>2. CASE UNCHANGED vars
  BY <1>2 DEF vars, CommitInv, SealedOver, Initialized
<1>3. ASSUME NEW o \in Handles,
             \/ Alloc(o) \/ GetDiskInfo(o) \/ GetDiskInfoFails(o) \/ Edit(o) \/ UpdateCrc(o)
             \/ CommitHeader(o) \/ CommitEntries(o) \/ Refused(o) \/ Free(o)
      PROVE  CommitInv(h)'
  BY <1>3, OwnSteps, OtherSteps
<1>4. QED
  BY <1>1, <1>2, <1>3 DEF Next

(* The magic is in a struct only with the four buffers filled.             *)
FilledInv == \A h \in Handles : Initialized(h) => handle[h].filled = 4

LEMMA NextFilled == FallbackInv /\ CommitsInv /\ FilledInv /\ [Next]_vars => FilledInv'
<1>. SUFFICES ASSUME FallbackInv, CommitsInv, FilledInv, [Next]_vars, NEW h \in Handles
              PROVE  Initialized(h)' => handle'[h].filled = 4
  BY DEF FilledInv, Initialized
<1>. USE DEF FilledInv, Initialized, FallbackInv, Structs
<1>1. ASSUME NEW o \in Handles, Alloc(o) \/ GetDiskInfo(o) \/ Free(o)
      PROVE  Initialized(h)' => handle'[h].filled = 4
  BY <1>1 DEF Alloc, GetDiskInfo, Free, Zeroed
<1>2. ASSUME NEW o \in Handles, Edit(o) \/ UpdateCrc(o)
      PROVE  Initialized(h)' => handle'[h].filled = 4
  BY <1>2 DEF Edit, UpdateCrc
<1>3. ASSUME NEW o \in Handles, GetDiskInfoFails(o)
      PROVE  Initialized(h)' => handle'[h].filled = 4
  BY <1>3 DEF GetDiskInfoFails, CommitsInv, CommitInv
<1>4. ASSUME NEW o \in Handles, CommitHeader(o) \/ CommitEntries(o) \/ Refused(o)
      PROVE  Initialized(h)' => handle'[h].filled = 4
  BY <1>4 DEF CommitHeader, CommitEntries, Refused
<1>5. CASE Crash
  BY <1>5 DEF Crash, Zeroed
<1>6. CASE UNCHANGED vars
  BY <1>6 DEF vars
<1>7. QED
  BY <1>1, <1>2, <1>3, <1>4, <1>5, <1>6 DEF Next

LEMMA InitAll == Init => EditsInv /\ FallbackInv /\ CallsInv /\ CommitsInv /\ FilledInv
<1>1. Init => EditsInv /\ FallbackInv /\ CallsInv
  BY InitFallback, EditsAssumption DEF Init, EditsInv, Versions, CallsInv, PCs
<1>2. Init => CommitsInv /\ FilledInv
  BY DEF Init, CommitsInv, CommitInv, FilledInv, Initialized, Zeroed
<1>3. QED
  BY <1>1, <1>2

(* Every variable keeps its type.                                          *)
THEOREM TypeCorrect == Spec => []TypeOK
<1>1. EditsInv /\ FallbackInv /\ CallsInv /\ FilledInv => TypeOK
  BY DEF EditsInv, FallbackInv, CallsInv, FilledInv, PCs, TypeOK
<1>2. QED
  BY <1>1, InitAll, NextEdits, NextFallback, NextCalls, NextCommits, NextFilled, PTL DEF Spec

(* A commit that returned 0 is on the disk while no other handle wrote     *)
(* after it, whole or, after a short write, with a CRC that does not fit.  *)
THEOREM CommitsPersist == Spec => []CommitPersists
<1>1. FallbackInv /\ CommitsInv => CommitPersists
  <2>. SUFFICES ASSUME FallbackInv, CommitsInv, NEW h \in Handles,
                       pc[h] = "done", result[h] = "ok",
                       writer = [header |-> h, entries |-> h]
                PROVE  /\ header[PRIMARY_GPT] = handle[h].hdr /\ SealedOver(h)
                       /\ h \notin short =>
                            Valid(PRIMARY_GPT) /\ entries[PRIMARY_GPT] = handle[h].pentry_arr
                       /\ h \in short /\ handle[h].pentry_arr # Torn => ~Valid(PRIMARY_GPT)
    BY DEF CommitPersists
  <2>1. header[PRIMARY_GPT] = handle[h].hdr /\ SealedOver(h)
        /\ entries[PRIMARY_GPT] = IF h \in short THEN Torn ELSE handle[h].pentry_arr
    BY DEF CommitsInv, CommitInv
  <2>2. QED
    BY <2>1 DEF SealedOver, Valid
<1>2. QED
  BY <1>1, InitAll, NextEdits, NextFallback, NextCalls, NextCommits, PTL DEF Spec
=============================================================================
