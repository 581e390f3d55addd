--------------------------- MODULE MCVirtioFsFiles ---------------------------
(* Instances of VirtioFsFiles for TLC. *)
EXTENDS VirtioFsFiles, TLC

Symmetry == Permutations(Names) \cup Permutations(Slots)

=============================================================================
