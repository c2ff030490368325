---------------------------- MODULE MCActionLog ----------------------------
(* Constants for model checking ActionLog.                                  *)
EXTENDS ActionLog, TLC

CONSTANTS old, new

Asking(fs) == [f \in Fields |-> IF f \in fs THEN new ELSE Blank]
MCAsks == {Asking({"telephone"}), Asking({"email", "firstName"})}

Symmetry == Permutations(Workers) \cup Permutations(Entries)
=============================================================================
