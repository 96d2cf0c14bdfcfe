--------------------------- MODULE UploadOutcome ---------------------------
(***************************************************************************)
(* What a run may conclude from one upload (uploadToS3 as its caller sees  *)
(* it): the backend stores the payload or not, and the run gets one answer.*)
(* "processed" is only said of a stored payload and "rejected" only of one *)
(* that is not; "queued" and "error" say nothing.                          *)
(***************************************************************************)
VARIABLES answer, stored

vars == <<answer, stored>>

Answers == {"processed", "queued", "rejected", "error"}

Init == answer = "none" /\ stored = FALSE

Store == stored' = TRUE /\ answer \in {"none", "queued", "error"} /\ UNCHANGED answer

Conclude(a) ==
    /\ answer = "none"
    /\ answer' = a
    /\ stored' \in (CASE a = "processed" -> {TRUE}
                      [] a = "rejected"  -> {stored} \ {TRUE}
                      [] OTHER           -> {stored, TRUE})

Next == Store \/ \E a \in Answers : Conclude(a)

Spec == Init /\ [][Next]_vars
=============================================================================
