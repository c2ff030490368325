---------------------------- MODULE MCMembership ----------------------------
(* One email, as it is stored.                                              *)
EXTENDS Membership, TLC

CONSTANT joe

MCLower == joe :> joe
Symmetry == Permutations(Workers) \cup Permutations(Users) \cup Permutations(Entities)
=============================================================================
