--------------------------- MODULE MCBalanceCheck ---------------------------
(* Constants for model checking BalanceCheck: two transfers between the same *)
(* accounts in opposite directions, the first of which is accepted twice.   *)
EXTENDS BalanceCheck, TLC

CONSTANTS A, B, x1, x2, y1, j1, j2, i1

MCJournal == x1 :> j1 @@ y1 :> j1 @@ x2 :> j2
MCFrom == [x \in Transactions |-> IF x = x2 THEN B ELSE A]
MCTo == [x \in Transactions |-> IF x = x2 THEN A ELSE B]

\* Binary 101, 1000 and 1: with three digits the sum of the first two is rounded,
\* and the last one is lost in a sum with the second.
MCAmount == [x \in Transactions \cup Slips |-> IF x \in Slips THEN 1 ELSE IF x = x2 THEN 8 ELSE 5]

\* Two transfers, two accepts of one, or one beside a slip.
MCTogether == UNION {SUBSET pair : pair \in {{x1, x2}, {x1, y1}, {x1, i1}, {x2, i1}}}

MCDue == {Clock}
=============================================================================
