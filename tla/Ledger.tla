------------------------------- MODULE Ledger -------------------------------
(***************************************************************************)
(* What the ledger promises its users: restaurants, the dines logged at    *)
(* them and the Want to Try list change by whole operations, each at one   *)
(* instant.  Store implements these operations with concurrent             *)
(* transactions of several statements; a request that fails changes        *)
(* nothing, and editing what a restaurant is called changes nothing here.  *)
(***************************************************************************)
CONSTANTS Restaurants, Dines, Places, None, Gone

VARIABLES
    saved,    \* restaurants the ledger has
    removed,  \* restaurants that were removed for good
    linked,   \* the Google place a restaurant is linked to
    dines,    \* where a dine is logged
    want      \* the Want to Try list

vars == <<saved, removed, linked, dines, want>>

Init ==
    /\ saved = {} /\ removed = {}
    /\ linked = [r \in Restaurants |-> None]
    /\ dines = [v \in Dines |-> None]
    /\ want = [r \in Restaurants |-> "off"]

DinesAt(r) == {v \in Dines : dines[v] = r}
Unowned(p) == \A r \in saved : linked[r] # p

\* An operation works on a restaurant the ledger has or adds, and may link an
\* unlinked one to a place no other restaurant is linked to.
Resolve(r) ==
    /\ r \notin removed
    /\ saved' = saved \cup {r}
    /\ \/ UNCHANGED linked
       \/ /\ linked[r] = None
          /\ \E p \in Places : Unowned(p) /\ linked' = [linked EXCEPT ![r] = p]
    /\ UNCHANGED removed

\* A dine logged at a restaurant takes it off the list.
ClearItem(r) ==
    want' = [want EXCEPT ![r] = IF @ = "open" THEN "done" ELSE @]

LogDine(v, r) ==
    /\ dines[v] = None
    /\ Resolve(r)
    /\ dines' = [dines EXCEPT ![v] = r]
    /\ ClearItem(r)

MoveDine(v, r) ==
    /\ dines[v] \in saved \ {r}
    /\ r \in saved
    /\ dines' = [dines EXCEPT ![v] = r]
    /\ ClearItem(r)
    /\ UNCHANGED <<saved, removed, linked>>

DeleteDine(v) ==
    /\ dines[v] \in saved
    /\ dines' = [dines EXCEPT ![v] = Gone]
    /\ UNCHANGED <<saved, removed, linked, want>>

SaveItem(r) ==
    /\ Resolve(r)
    /\ want' = [want EXCEPT ![r] = "open"]
    /\ UNCHANGED dines

RemoveItem(r) ==
    /\ want[r] # "off"
    /\ want' = [want EXCEPT ![r] = "off"]
    /\ UNCHANGED <<saved, removed, linked, dines>>

\* Only a restaurant without dines is removed, and its item with it.
RemoveSpot(r) ==
    /\ r \in saved /\ DinesAt(r) = {}
    /\ saved' = saved \ {r}
    /\ removed' = removed \cup {r}
    /\ linked' = [linked EXCEPT ![r] = None]
    /\ want' = [want EXCEPT ![r] = "off"]
    /\ UNCHANGED dines

Next ==
    \/ \E r \in Restaurants : SaveItem(r) \/ RemoveItem(r) \/ RemoveSpot(r)
    \/ \E v \in Dines : DeleteDine(v) \/ \E r \in Restaurants : LogDine(v, r) \/ MoveDine(v, r)

Spec == Init /\ [][Next]_vars

=============================================================================
