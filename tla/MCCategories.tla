---------------------------- MODULE MCCategories ----------------------------
(* Two names that are typed as they are formatted, and one that is not.     *)
EXTENDS Categories, TLC

CONSTANTS food, art, Food

MCFormat == (food :> food) @@ (art :> art) @@ (Food :> food)

\* Entities, and the ids of categories, are all alike.
MCSymmetry == Permutations(Entities) \cup Permutations(Ids)
=============================================================================
