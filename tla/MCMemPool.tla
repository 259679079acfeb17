------------------------------ MODULE MCMemPool ------------------------------
(* Instances of the memory pool for TLC.                                    *)
EXTENDS MemPool

CONSTANTS b1, b2, b3, b4, b5

OneBlock == <<b1>>
=============================================================================
