---------------------------- MODULE MCLearningLog ----------------------------
(* Records alternate between two items.                                     *)
EXTENDS LearningLog

CONSTANTS a, b
MCItems  == {a, b}
MCItemOf == [r \in 1..MaxRecords |-> IF r % 2 = 1 THEN a ELSE b]
=============================================================================
