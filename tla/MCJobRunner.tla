----------------------------- MODULE MCJobRunner -----------------------------
(* Two jobs that share one idempotency key, one or two runners. *)
EXTENDS JobRunner

CONSTANTS j1, j2, r1, r2, k1

MCJobs == {j1, j2}
MCRunners == {r1, r2}
MCOneRunner == {r1}
MCKeys == {k1}
=============================================================================
