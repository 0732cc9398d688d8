---------------------------- MODULE MCPtxLifecycle ----------------------------
(* Instances of PtxLifecycle for TLC.                                      *)
EXTENDS PtxLifecycle
=============================================================================
