----------------------------- MODULE MCBufferDevice -----------------------------
(* A small instance of BufferDevice for TLC.  Liveness is checked with the     *)
(* rest, so there is no symmetry set.                                          *)
EXTENDS BufferDevice
================================================================================
