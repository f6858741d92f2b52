------------------------ MODULE MCExecutionAdmission -------------------------
(* Instances of ExecutionAdmission for TLC. *)
EXTENDS ExecutionAdmission, TLC

Symmetry == Permutations(Workflows) \cup Permutations(ApprovalRequests)
              \cup Permutations(Operations) \cup Permutations(Owners)
=============================================================================
