-------------------------- MODULE MCConnectorChannel --------------------------
(***************************************************************************)
(* ConnectorChannel for TLC: a connector that reconnects.                  *)
(***************************************************************************)
EXTENDS ConnectorChannel, TLC
=============================================================================
