------------------------------ MODULE MCSendPath ------------------------------
(* SendPath with interchangeable frame workers.                             *)
EXTENDS SendPath, TLC

Symmetry == Permutations(Workers)
=============================================================================
