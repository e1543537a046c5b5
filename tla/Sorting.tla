------------------------------ MODULE Sorting ------------------------------
(***************************************************************************)
(* ORDER BY that leaves no ties, for the queries of Details and Queries.   *)
(* SetToSortSeq of the community modules gives the same sequence, but      *)
(* rests on the SortSeq that TLC evaluates itself and no prover can        *)
(* expand.                                                                 *)
(***************************************************************************)
EXTENDS Naturals, FiniteSets

\* Each row stands where as many rows come before it as its position says.
Sorted(rows, Before(_, _)) ==
    [i \in 1..Cardinality(rows) |->
        CHOOSE x \in rows : Cardinality({y \in rows : Before(y, x)}) = i - 1]
============================================================================
