------------------------- MODULE MCWriteAttributes -------------------------
(* Instances of WriteAttributes for TLC. *)
EXTENDS WriteAttributes, TLC

NodeSymmetry == Permutations(Nodes) \cup Permutations(Requests)
=============================================================================
