---------------------------- MODULE MCGateClaims ----------------------------
(* Instances of GateClaims for TLC.                                          *)
EXTENDS GateClaims, MCWorkspace
=============================================================================
