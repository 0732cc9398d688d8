------------------------------ MODULE MCPtxStream ------------------------------
(* Instances of PtxStream for TLC.                                         *)
EXTENDS PtxStream
=============================================================================
