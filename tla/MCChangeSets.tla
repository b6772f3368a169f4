----------------------------- MODULE MCChangeSets -----------------------------
(* Instances of ChangeSets.                                                 *)
EXTENDS ChangeSets

CONSTANTS e1, e2

AllEdits == [p \in Policies |-> Edits]

OnePlan == {<<e1, e2>>}

ShortPlan == {<<e1>>}
=============================================================================
