------------------------------ MODULE MCHostOps ------------------------------
(* HostOps with interchangeable requests. States are told apart by what the  *)
(* next steps and the safety properties depend on: nothing here reads the    *)
(* index, only an acquisition of the maintenance lock does, and stranded is  *)
(* for HostSettles.                                                          *)
EXTENDS HostOps, TLC

TokenSymmetry == Permutations(Token)

View == <<lock, maint, hstat, istat, machine, ws, req, tail, loose, aged>>
=============================================================================
