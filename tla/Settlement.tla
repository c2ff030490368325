----------------------------- MODULE Settlement -----------------------------
(***************************************************************************)
(* What the transfer API promises of one transfer: it is proposed once,    *)
(* then either completed, which moves its amount exactly once, or          *)
(* cancelled, which moves nothing; a decided transfer stays decided.  An   *)
(* admin transfer is completed as it is created.                           *)
(***************************************************************************)
EXTENDS Naturals

CONSTANT Journals

VARIABLES state,  \* what the API reports of each transfer
          moved   \* how often its amount was moved

vars == <<state, moved>>

Init == /\ state = [j \in Journals |-> "none"]
        /\ moved = [j \in Journals |-> 0]

Propose(j) == /\ state[j] = "none"
              /\ state' = [state EXCEPT ![j] = "initiated"]
              /\ UNCHANGED moved

Complete(j) == /\ state[j] \in {"none", "initiated"}
               /\ moved[j] = 0
               /\ state' = [state EXCEPT ![j] = "completed"]
               /\ moved' = [moved EXCEPT ![j] = 1]

Cancel(j) == /\ state[j] = "initiated"
             /\ state' = [state EXCEPT ![j] = "cancelled"]
             /\ UNCHANGED moved

Next == \E j \in Journals : Propose(j) \/ Complete(j) \/ Cancel(j)

Spec == Init /\ [][Next]_vars
=============================================================================
