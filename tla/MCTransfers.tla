---------------------------- MODULE MCTransfers ----------------------------
(* Two entities with one user each, and one or two rows of limits.          *)
EXTENDS Transfers, TLC

CONSTANTS a1, a2, u1, u2

MCMembers == (a1 :> {u1}) @@ (a2 :> {u2})

MCDefaultLimit == [neg |-> 2, pos |-> 1]
MCOneRow == {MCDefaultLimit}
MCTwoRows == {MCDefaultLimit, [neg |-> 1, pos |-> 2]}

Symmetry == Permutations(Journals) \cup Permutations(Workers)
=============================================================================
