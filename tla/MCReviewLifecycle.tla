--------------------------- MODULE MCReviewLifecycle ---------------------------
(* TLC instances of ReviewLifecycle. *)
EXTENDS ReviewLifecycle, TLC

Symmetry == Permutations(Claims) \cup Permutations(Humans)
=============================================================================
