------------------------------- MODULE MCPx4Card -------------------------------
(* Instances of Px4Card for TLC.                                           *)
EXTENDS Px4Card

(* All units carry the same serial number, so their readers the same ID.   *)
SameBase == [u \in Units |-> CHOOSE v \in Units : TRUE]
=============================================================================
