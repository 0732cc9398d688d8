------------------------------ MODULE MCPx4Power ------------------------------
(* Instances of Px4Power for TLC.                                          *)
EXTENDS Px4Power
=============================================================================
