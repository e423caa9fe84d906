------------------------------ MODULE MCMmapDevice ------------------------------
(* A small instance of MmapDevice for TLC. *)
EXTENDS MmapDevice, TLC

Symmetry == Permutations(Files) \cup Permutations(Vmas)
================================================================================
