---------------------------- MODULE MCInstanceOps ----------------------------
(* InstanceOps with interchangeable operations. *)
EXTENDS InstanceOps, TLC

TokenSymmetry == Permutations(Token)
=============================================================================
