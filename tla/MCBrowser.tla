------------------------------ MODULE MCBrowser ------------------------------
(* Browser on small sets of model values. *)
EXTENDS Browser, TLC

Symmetry == UNION {Permutations(S) : S \in {Names, Addresses, Places, Links}}
=============================================================================
