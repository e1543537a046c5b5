----------------------------- MODULE MCAccounts -----------------------------
(* Accounts on small sets of model values. *)
EXTENDS Accounts, TLC

CONSTANTS g1, g2, e1, e2, e3

\* The first account changes its address, and the second may get the old one.
SomeAddresses == {<<g1, e1>>, <<g1, e2>>, <<g2, e3>>, <<g2, e1>>}

\* The first account's old and new address are admitted, or one of them and the
\* second account's own.
SomeLists == {{e1, e3}, {e1, e2}, {e2, e3}}

\* One sign-in is like another.
Alike == Permutations(Flows)

\* The address that passes from one account to the other is taken off the list.
LinkLists == {{e1, e2}, {e2}}
=============================================================================
