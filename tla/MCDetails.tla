----------------------------- MODULE MCDetails -----------------------------
(* Details on small sets of model values. *)
EXTENDS Details, TLC

CONSTANTS a, b, g1, g2

Form(people, tagIds, newTag, added) ==
    [people |-> people, tags |-> tagIds, newTag |-> newTag, added |-> added]

\* Two forms that type one tag and tick the other, one that ticks both and adds
\* a photo, and one that only rates.
SmallForms == {Form({a}, {g1}, g2, 1), Form({a}, {g2}, g1, 1),
               Form({b}, {g1, g2}, None, 0)}
=============================================================================
