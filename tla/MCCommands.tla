---------------------------- MODULE MCCommands ----------------------------
(* Small instances of Commands for TLC. *)
EXTENDS Commands, TLC

(* Installed names and root directories keep their part of Names and Dirs. *)
Symmetry == Permutations(Procs) \cup Permutations(Installed)
       \cup Permutations(Names \ Installed) \cup Permutations(Dirs \ RootDirs)
=============================================================================
