-------------------------- MODULE MCPublishedServices --------------------------
(***************************************************************************)
(* PublishedServices for TLC.                                              *)
(***************************************************************************)
EXTENDS PublishedServices, TLC
=============================================================================
