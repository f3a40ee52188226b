--------------------------- MODULE MCGatewayRegistry ---------------------------
(***************************************************************************)
(* GatewayRegistry for TLC: every capability is for r1, and all routes want  *)
(* the same alias.                                                         *)
(***************************************************************************)
EXTENDS GatewayRegistry

CONSTANTS r1

MCRouteOf == [c \in Caps |-> r1]
MCAliasOf == [r \in Routes |-> "preview"]
=============================================================================
