----------------------------- MODULE Inventory -----------------------------
(***************************************************************************)
(* What package reporting promises, without the delta protocol: a report   *)
(* claims some items present and some gone, both truthfully, and when the  *)
(* backend takes it, it holds the current inventory of every claimed item  *)
(* and nothing of the items that are gone.                                 *)
(***************************************************************************)
CONSTANTS Item, Hash, NoHash, Device

VARIABLES
    actual,    \* the machine
    device,    \* the identity it reports under
    view,      \* the inventory the backend holds for every identity
    claimed,   \* the items the report in flight claims to describe
    gone,      \* the items it claims gone
    whole      \* it replaces everything the backend held

vars == <<actual, device, view, claimed, gone, whole>>

Present == {i \in Item : actual[i] # NoHash}

Init ==
    /\ actual \in [Item -> Hash \cup {NoHash}]
    /\ device \in Device
    /\ view = [d \in Device |-> [i \in Item |-> NoHash]]
    /\ claimed = {} /\ gone = {} /\ whole \in BOOLEAN

Edit ==
    /\ claimed = {} /\ gone = {}
    /\ actual' \in [Item -> Hash \cup {NoHash}]
    /\ UNCHANGED <<device, view, claimed, gone, whole>>

Begin ==
    /\ claimed = {} /\ gone = {}
    /\ device' \in Device
    /\ whole' \in BOOLEAN
    /\ UNCHANGED <<actual, view, claimed, gone>>

Observe ==
    /\ claimed = {} /\ gone = {}
    /\ claimed' \in SUBSET Present
    /\ gone' \in SUBSET (Item \ Present)
    /\ UNCHANGED <<actual, device, view, whole>>

After == [i \in Item |-> IF i \in claimed THEN actual[i]
                         ELSE IF whole \/ i \in gone THEN NoHash
                         ELSE view[device][i]]

Forgotten == claimed' = {} /\ gone' = {} /\ whole' = TRUE

Deliver ==
    /\ view' = [view EXCEPT ![device] = After]
    /\ UNCHANGED <<actual, device>>
    /\ Forgotten \/ UNCHANGED <<claimed, gone, whole>>

Drop ==
    /\ Forgotten
    /\ UNCHANGED <<actual, device, view>>

Next == Edit \/ Begin \/ Observe \/ Deliver \/ Drop

Spec == Init /\ [][Next]_vars
=============================================================================
