---------------------------------- MODULE Fifo ----------------------------------
(***************************************************************************)
(* What the queue of 12/pb173.c promises to whoever reads the device: a    *)
(* bounded first-in first-out stream of the bytes of the packets sent      *)
(* through the interface.  A packet that does not fit loses its tail;      *)
(* nothing else is lost, repeated or reordered.                            *)
(***************************************************************************)
EXTENDS Sequences, Integers

CONSTANTS Packets,   \* the packets: finite sequences of bytes
          Size       \* bytes the queue holds

VARIABLES contents,  \* bytes queued and not yet read
          got        \* what the last read of the device returned

vars == <<contents, got>>

Init == contents = << >> /\ got = << >>

\* A packet, or as much of it as there was room for.
Put == \E p \in Packets : \E n \in 0 .. Len(p) :
         /\ Len(contents) + n <= Size
         /\ contents' = contents \o SubSeq(p, 1, n)
         /\ got' = got

\* The next bytes, as many as the reader asked for or fewer.
Get == \E n \in 0 .. Len(contents) :
         /\ got' = SubSeq(contents, 1, n)
         /\ contents' = SubSeq(contents, n + 1, Len(contents))

\* The module is loaded anew.
Reset == contents' = << >> /\ got' = << >>

Next == Put \/ Get \/ Reset

Spec == Init /\ [][Next]_vars

================================================================================
