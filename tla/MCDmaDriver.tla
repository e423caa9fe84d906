------------------------------ MODULE MCDmaDriver ------------------------------
(* Small instances of DmaDriver for TLC. *)
EXTENDS DmaDriver, TLC

\* Cards are interchangeable.
Symmetry == Permutations(Cards)

================================================================================
