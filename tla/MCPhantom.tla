------------------------------- MODULE MCPhantom -------------------------------
(* A small instance of Phantom for TLC.  Liveness is checked with the rest, so *)
(* there is no symmetry set.                                                   *)
EXTENDS Phantom
================================================================================
