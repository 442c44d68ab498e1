--------------------------- MODULE FailsafeUpdate ---------------------------
(***************************************************************************)
(* What a fail-safe update of the boot-critical images promises, without   *)
(* partition tables: every unit (a LUN with critical images) has a primary *)
(* and a backup copy, the boot chain runs one of them, and only the other  *)
(* one may be rewritten.  GptUpdate implements this specification.         *)
(***************************************************************************)

CONSTANT Units      \* the LUNs whose critical images have a backup copy

Copies == {"primary", "backup"}
Images == {"old", "new", "partial"}

Other(c) == IF c = "primary" THEN "backup" ELSE "primary"

VARIABLES image,    \* image[u][c]: what copy c of unit u holds
          selected  \* selected[u]: the copy the boot chain would run

vars == <<image, selected>>

TypeOK == /\ image \in [Units -> [Copies -> Images]]
          /\ selected \in [Units -> Copies]

Init == /\ image = [u \in Units |-> [c \in Copies |-> "old"]]
        /\ selected = [u \in Units |-> "primary"]

\* The chain of one unit moves to its other copy, which must be complete.
Switch(u) == /\ image[u][Other(selected[u])] # "partial"
             /\ selected' = [selected EXCEPT ![u] = Other(@)]
             /\ UNCHANGED image

\* A copy that is not running is rewritten: first incomplete, then new.
Write(u, c) == /\ selected[u] # c
               /\ \E i \in {"partial", "new"} : image' = [image EXCEPT ![u][c] = i]
               /\ UNCHANGED selected

Next == \E u \in Units : Switch(u) \/ \E c \in Copies : Write(u, c)

Spec == Init /\ [][Next]_vars

\* The copy the boot chain runs is never one that is being rewritten.
Complete == \A u \in Units : image[u][selected[u]] # "partial"
=============================================================================
