-------------------------- MODULE PolicyOwnership --------------------------
(***************************************************************************)
(* What enforcement of a settings policy promises to the owner of the      *)
(* file: the agent takes over exactly the settings of a policy, records in *)
(* the same instant that it did, gives back what it owns and forgets only  *)
(* what it has given back.  A value it has no record of is never removed.  *)
(***************************************************************************)
CONSTANTS Keys, Values, Policies, None

Settings == [Keys -> Values \union {None}]
NoRecord == [hash |-> None, settings |-> [k \in Keys |-> None]]

VARIABLES
    disk,      \* the managed settings in the user's file
    record,    \* the policy the agent recorded as applied
    author     \* who gave each setting its present value

vars == <<disk, record, author>>

Owns(rec, d, k) == rec.settings[k] # None /\ d[k] = rec.settings[k]

(* The file once a policy has been applied to it: its settings are set, an *)
(* owned setting it no longer has is removed, the rest is left alone.      *)
Applied(p, rec, d) ==
    [k \in Keys |-> IF p.settings[k] # None THEN p.settings[k]
                    ELSE IF Owns(rec, d, k) THEN None ELSE d[k]]

AppliedBy(p, rec, d, by) ==
    [k \in Keys |-> IF p.settings[k] # None THEN "agent"
                    ELSE IF Owns(rec, d, k) THEN "user" ELSE by[k]]

Init ==
    /\ disk \in Settings
    /\ record = NoRecord
    /\ author = [k \in Keys |-> "user"]

Edit(k, v) ==
    /\ disk' = [disk EXCEPT ![k] = v]
    /\ author' = [author EXCEPT ![k] = "user"]
    /\ UNCHANGED record

Enforce(p) ==
    /\ disk' = Applied(p, record, disk)
    /\ author' = AppliedBy(p, record, disk, author)
    /\ record' = p

Release ==
    /\ disk' = Applied(NoRecord, record, disk)
    /\ author' = AppliedBy(NoRecord, record, disk, author)
    /\ UNCHANGED record

Forget ==
    /\ \A k \in Keys : ~Owns(record, disk, k)
    /\ record' = NoRecord
    /\ UNCHANGED <<disk, author>>

Next ==
    \/ \E k \in Keys, v \in Values \union {None} : Edit(k, v)
    \/ \E p \in Policies : Enforce(p)
    \/ Release
    \/ Forget

Spec == Init /\ [][Next]_vars

-----------------------------------------------------------------------------
(* Every value the agent put in the file is one it has on record, so that  *)
(* a later clear can take it back: nothing is stranded.                    *)
NothingStranded == \A k \in Keys : author[k] = "agent" => Owns(record, disk, k)
=============================================================================
