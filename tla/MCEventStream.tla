---------------------------- MODULE MCEventStream ----------------------------
(* Two control-plane processes, or one, and one web client. *)
EXTENDS EventStream

CONSTANTS c1, p1, p2

MCClients == {c1}
MCProcs == {p1, p2}
MCOneProc == {p1}
=============================================================================
