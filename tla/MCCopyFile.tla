----------------------------- MODULE MCCopyFile -----------------------------
(* CopyFile with few writers and a short file. *)
EXTENDS CopyFile, TLC

Symmetry == Permutations(Procs) \cup Permutations(Inodes)

=============================================================================
