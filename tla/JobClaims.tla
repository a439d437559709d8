----------------------------- MODULE JobClaims ------------------------------
(***************************************************************************)
(* What docs/requirements says of deployment jobs and the code does not    *)
(* keep.  Each property is a requirement, read as weakly as its wording    *)
(* allows ("within 10 s" becomes "eventually"); README.md tells the        *)
(* schedule TLC finds against each.                                        *)
(***************************************************************************)
EXTENDS ManagedJobs

\* 017-security-hardening.md:290, "Each runner container exits within 10 s of
\* its job's terminal state": an ended job's container goes.  The client's 30 s
\* timeout makes the API write "failed" while the manager goes on starting it.
RunnersExitWithTheJob == \A j \in Jobs : IsTerminal(j) ~> container[j].state = "none"
=============================================================================
