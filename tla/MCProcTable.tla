---------------------------- MODULE MCProcTable ----------------------------
(* Instances of ProcTable for TLC. *)
EXTENDS ProcTable, TLC

(* The CPUs are alike. *)
Symmetry == Permutations(CPUs)
=============================================================================
