------------------------------ MODULE MCNetDriver ------------------------------
(* A small instance of NetDriver for TLC: packets of one and two bytes. *)
EXTENDS NetDriver

MCPackets == {<<1>>, <<2, 3>>}

================================================================================
