--------------------------- MODULE MCManagedJobs ----------------------------
(* Instances of ManagedJobs for TLC. *)
EXTENDS CancelOrder, JobClaims, TLC

\* Cancel requests and targets are interchangeable (safety runs only).
Symmetry == Permutations(Cancels) \cup Permutations(Targets)

=============================================================================
