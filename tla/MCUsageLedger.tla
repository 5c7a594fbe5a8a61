--------------------------- MODULE MCUsageLedger ---------------------------
(* Instances of UsageLedger for TLC. *)
EXTENDS UsageLedger, TLC

CONSTANTS c1, c2, c3, t1, l1

\* Of c1 and c2 a day has room for either and a month for one; of c3 a day has none.
TwoAndThree == [c \in Calls |-> IF c = c3 THEN 3 ELSE 2]
=============================================================================
