------------------------------- MODULE Loops -------------------------------
(***************************************************************************)
(* The loops over a slice that the queries of the memory store are made    *)
(* of (internal/repository/memory.go).  Each is a recursive function of    *)
(* how many elements the loop has seen.  SelectSeq and the folds of the    *)
(* community modules compute the same, but no prover can expand the one or *)
(* instantiate the others.                                                 *)
(***************************************************************************)
EXTENDS Integers, Sequences

\* The elements that are in a set, appended one by one.
Kept(s, S) ==
    LET kept[k \in 0..Len(s)] ==
            IF k = 0 THEN <<>>
            ELSE IF s[k] \in S THEN Append(kept[k - 1], s[k]) ELSE kept[k - 1]
    IN kept[Len(s)]

\* The lists of a sequence of lists, appended to each other.
Joined(lists) ==
    LET joined[k \in 0..Len(lists)] == IF k = 0 THEN <<>> ELSE joined[k - 1] \o lists[k]
    IN joined[Len(lists)]

\* The sum of a sequence of numbers.
Total(s) ==
    LET sum[k \in 0..Len(s)] == IF k = 0 THEN 0 ELSE sum[k - 1] + s[k]
    IN sum[Len(s)]

\* The element kept by a loop that takes one for the best so far if it is the
\* first or is better, and none if there is none.  worse[x] are those that x is
\* better than.
BestOf(s, worse, none) ==
    LET best[k \in 0..Len(s)] ==
            IF k = 0 THEN 0
            ELSE IF best[k - 1] = 0 THEN k
            ELSE IF s[best[k - 1]] \in worse[s[k]] THEN k ELSE best[k - 1]
    IN IF s = <<>> THEN none ELSE s[best[Len(s)]]
============================================================================
