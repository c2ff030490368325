------------------------------- MODULE MCTags -------------------------------
(* What entities sign up with: they want something, as typed.               *)
EXTENDS Tags, TLC

CONSTANT Dog

MCWantAsTyped == {("offers" :> [y \in Names |-> 0]) @@
                  ("wants" :> [y \in Names |-> IF y = Dog THEN 1 ELSE 0])}

\* No action and no property but TypeOK reads the documents of entities.
View == <<tag, tagDoc, entity, pc, req, failed, twice>>

Symmetry == Permutations(TagIds) \cup Permutations(Formatted)
=============================================================================
