--------------------------- MODULE OwnershipStore ---------------------------
(***************************************************************************)
(* What a reconciler relies on: the ownership record of a category and     *)
(* target is written or dropped in one go and nobody else's is disturbed.  *)
(***************************************************************************)
CONSTANTS Entries, Hashes, None

VARIABLE entries

Init == entries \in [Entries -> Hashes \union {None}]

Put(e, h) == entries' = [entries EXCEPT ![e] = h]
Drop(e)   == entries' = [entries EXCEPT ![e] = None]

Next == \E e \in Entries : Drop(e) \/ \E h \in Hashes : Put(e, h)

Spec == Init /\ [][Next]_entries
=============================================================================
