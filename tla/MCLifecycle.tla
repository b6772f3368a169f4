----------------------------- MODULE MCLifecycle -----------------------------
(* Instances of CandidateLifecycle: no change sets, every edit allowed.     *)
EXTENDS CandidateLifecycle, TLC

AllEdits == [p \in Policies |-> Edits]

\* Calls, operations and edits are interchangeable.
Symmetry == Permutations(Calls) \union Permutations(Ops) \union Permutations(Edits)
=============================================================================
