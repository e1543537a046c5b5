------------------------------ MODULE MCMemory ------------------------------
(* Memory on small sets of model values. *)
EXTENDS Memory, TLC

Symmetry == UNION {Permutations(S) : S \in {Dines, Names, Addresses, Places}}

In(n, a, p, c) == [name |-> n, address |-> a, place |-> p, coords |-> c, chain |-> FALSE]

\* A place by name and address, with or without Google's answer about it, and
\* a place by its name alone.
Described == {In(n, a, None, None) : n \in Names, a \in Addresses}
Linked == {In(n, a, p, p) : n \in Names, a \in Addresses, p \in Places}
Bare == {In(n, None, None, None) : n \in Names}

MixedInputs == Described \cup Linked
NamedInputs == Bare
=============================================================================
