---------------------------- MODULE MCFlowControl ----------------------------
(* Instances of flow control for TLC.                                       *)
EXTENDS FlowControl
=============================================================================
