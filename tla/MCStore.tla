------------------------------ MODULE MCStore ------------------------------
(* Store on small sets of model values. *)
EXTENDS StoreInvariants, TLC

Symmetry == UNION {Permutations(S) : S \in {Tx, Dines, Names, Addresses, Places}}

In(n, a, p, c) == [name |-> n, address |-> a, place |-> p, coords |-> c]

\* Described by name and address alone.
PlainInputs == {In(n, a, None, None) : n \in Names, a \in Addresses}

\* A place with its metadata, without an address.
PlaceInputs == {In(n, None, p, p) : n \in Names, p \in Places}

\* Two kinds of request that do not find the same restaurant.
ApartInputs == PlainInputs \cup PlaceInputs

\* A place with an address and no metadata, as a shared link brings it.
BareInputs == {In(n, a, p, None) : n \in Names, a \in Addresses, p \in Places}

\* A place ID typed beside the metadata of a place picked before.
TypedInputs == {In(n, None, p, q) : n \in Names, p \in Places, q \in Places}
               \ PlaceInputs

\* Restaurants that match by place, by name and address, or not.
VariedInputs == PlainInputs \cup TypedInputs \cup BareInputs
=============================================================================
