----------------------------- MODULE MCDataSync ------------------------------
(* Instances of DataSync for TLC: an answer has all dates, restates one or  *)
(* is empty.                                                                *)
EXTENDS DataSync

CONSTANTS s1, s2, m1

MCAnswers == {[d \in Dates |-> 1], [d \in Dates |-> IF d = 1 THEN 2 ELSE 0],
              Nothing}
=============================================================================
