---------------------------- MODULE MCRegistry ----------------------------
(* Small instances of Registry for TLC. *)
EXTENDS Registry, TLC

(* Names and directories are only compared; GUIDs are ordered, hence not symmetric. *)
Symmetry == Permutations(Procs) \cup Permutations(Names) \cup Permutations(Dirs)
=============================================================================
