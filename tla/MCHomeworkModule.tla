---------------------------- MODULE MCHomeworkModule ----------------------------
(* A small instance of HomeworkModule, with MyDevice in it, for TLC. *)
EXTENDS HomeworkModule, TLC

Symmetry == Permutations(Tasks) \cup Permutations(Files) \cup Permutations(Users)
================================================================================
