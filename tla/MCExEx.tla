------------------------------- MODULE MCExEx -------------------------------
(***************************************************************************)
(* ExEx on two blocks in a row and a block beside the first, so that a     *)
(* reorg may lead to a tip that is as high or lower.                       *)
(***************************************************************************)
EXTENDS ExEx

Parents == <<0, 1, 0>>
Blocks == 0..Len(Parents)
Chains == LET up[b \in Blocks] == IF b = 0 THEN {0} ELSE {b} \cup up[Parents[b]] IN up
Numbers == [b \in Blocks |-> Cardinality(Chains[b]) - 1]

\* one extension reports as those of the repository do, the other what cannot be left
Reports1 == [e \in ExExes |-> IF e = 1 THEN "tip" ELSE "finalized"]

\* extensions that report nothing
Silent == [e \in ExExes |-> "nothing"]
=============================================================================
