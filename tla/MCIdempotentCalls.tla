--------------------------- MODULE MCIdempotentCalls ---------------------------
(* TLC instance of IdempotentCalls: the MCP server's tool calls. *)
EXTENDS IdempotentCalls, TLC

Symmetry == Permutations(Calls)
=============================================================================
