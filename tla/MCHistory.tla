----------------------------- MODULE MCHistory -----------------------------
(* History on three restaurants, two people and a few forms. *)
EXTENDS History, TLC

\* Spellings of a text stand apart in byte order, as upper and lower case do: 12
\* and up spell what 2 and up do.  The collation has the names 2 and 4, and the
\* spellings 3 and 13 of a cuisine, the other way round than the bytes.
MCText == 2..21
MCLower == [text \in MCText \cup {0} |-> IF text < 12 THEN text ELSE text - 10]
MCCollated == [text \in MCText \cup {0} |-> IF text \in {2, 3} THEN text + 20 ELSE text]

\* Two namesakes of one cuisine, spelled twice; only the third has no city.
MCName == <<2, 2, 4>>
MCCity == <<2, 12, 0>>
MCCategory == <<3, 13, 4>>
MCMapped == {2, 3}
\* The first person's name sorts after the second's; two tags differ in case.
MCPersonName == <<10, 8>>
MCTagName == <<6, 16>>

Form(at, where, picker, scores, tagIds) ==
    [at |-> at, where |-> where, picker |-> picker, scores |-> scores, tags |-> tagIds]

\* Years 1 and 2; equal averages, splits and times; one dine only one rated.
MCForms == {Form(3, 1, 1, (1 :> 8 @@ 2 :> 8), {1}),
            Form(3, 2, 2, (1 :> 9 @@ 2 :> 7), {2}),
            Form(3, 3, Everybody, (1 :> 9), {}),
            Form(4, 3, 2, (1 :> 7 @@ 2 :> 9), {1, 2}),
            Form(4, 1, Everybody, (1 :> 6 @@ 2 :> 5), {}),
            Form(4, 2, 1, (1 :> 8 @@ 2 :> 8), {2})}

MCParams == {NoParams, [NoParams EXCEPT !.cuisine = 3, !.picker = 20],
             [NoParams EXCEPT !.picker = 21, !.city = 2], [NoParams EXCEPT !.tag = 16],
             [NoParams EXCEPT !.rater = 8, !.year = 1], [NoParams EXCEPT !.tag = 7]}

MCLists == {<<>>, <<1>>, <<3, 2>>, <<2, 1, 3>>}
=============================================================================
