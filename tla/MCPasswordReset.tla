-------------------------- MODULE MCPasswordReset --------------------------
(* Symmetry of the runs that check safety properties.                       *)
EXTENDS PasswordReset, TLC

Symmetry == Permutations(Workers) \cup Permutations(Tokens)
=============================================================================
