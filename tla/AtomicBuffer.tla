------------------------------ MODULE AtomicBuffer ------------------------------
(***************************************************************************)
(* What the pair my_write_device / my_read_device of 06/pb173.c promises:  *)
(* one file at a time may be open for writing, a write(2) stores its whole *)
(* chunk at once and a read(2) returns bytes the buffer held at a single   *)
(* moment.  The last byte of the buffer is never stored to.  How the       *)
(* driver gets there, byte by byte under two locks, is in BufferDevice.    *)
(***************************************************************************)
EXTENDS Integers

CONSTANTS Tasks,    \* threads that make system calls
          Files,    \* open file descriptions
          Bytes,    \* values a byte may take
          BufLen,   \* length of the buffer (128 in the code)
          Chunk     \* most bytes one write stores (5 in the code)

VARIABLES mem,      \* contents of the buffer
          writer,   \* the files open for writing
          reply     \* reply[t]: the bytes the last read of t returned

vars == <<mem, writer, reply>>

Index == 0 .. BufLen - 1

Init == /\ mem = [j \in Index |-> 0]
        /\ writer = {}
        /\ reply = [t \in Tasks |-> [j \in {} |-> 0]]

Open(f) == /\ writer = {}
           /\ writer' = {f}
           /\ UNCHANGED <<mem, reply>>

Close(f) == /\ writer = {f}
            /\ writer' = {}
            /\ UNCHANGED <<mem, reply>>

\* A chunk of n bytes lands whole, below the last byte of the buffer.
Store(off, n, data) ==
  /\ writer # {}
  /\ off + n <= BufLen - 1
  /\ mem' = [j \in Index |-> IF j \in off .. off + n - 1 THEN data[j - off] ELSE mem[j]]
  /\ UNCHANGED <<writer, reply>>

\* k bytes from off on, all of the same contents.
Load(t, off, k) ==
  /\ off + k <= BufLen
  /\ reply' = [reply EXCEPT ![t] = [j \in 0 .. k - 1 |-> mem[off + j]]]
  /\ UNCHANGED <<mem, writer>>

Next == \/ \E f \in Files : Open(f) \/ Close(f)
        \/ \E off \in Index, n \in 0 .. Chunk, data \in [0 .. Chunk - 1 -> Bytes] :
             Store(off, n, data)
        \/ \E t \in Tasks, off \in Index, k \in 0 .. BufLen : Load(t, off, k)

Spec == Init /\ [][Next]_vars
================================================================================
