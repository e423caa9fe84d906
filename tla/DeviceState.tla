------------------------------ MODULE DeviceState ------------------------------
(***************************************************************************)
(* What my_device of 03 and 06/pb173.c promises: the debugfs counter is    *)
(* the number of opened instances, and a read returns the greeting cut to  *)
(* the length last set, together with that length.                         *)
(***************************************************************************)
EXTENDS Integers, FiniteSets

CONSTANTS Tasks,     \* threads that make system calls
          Files      \* open file descriptions

VARIABLES opened,    \* the instances that are open
          length,    \* characters a read returns
          reply      \* reply[t]: what the last call of t handed to user space

vars == <<opened, length, reply>>

Lengths == 1 .. 4

\* The string my_read copies out.
Word(n) == CASE n = 1 -> "A" [] n = 2 -> "Ah" [] n = 3 -> "Aho" [] OTHER -> "Ahoj"

\* An answer is a string, "none" if the call hands over none, and a number.
NoReply == [str |-> "none", ret |-> 0]
Efault  == [str |-> "none", ret |-> -14]

Init == /\ opened = {} /\ length = 4
        /\ reply = [t \in Tasks |-> NoReply]

Open(f)  == f \notin opened /\ opened' = opened \cup {f} /\ UNCHANGED <<length, reply>>
Close(f) == f \in opened /\ opened' = opened \ {f} /\ UNCHANGED <<length, reply>>

SetLength(n) == length' = n /\ UNCHANGED <<opened, reply>>

\* A call of t answers with a string and a number; nothing else changes.
Answer(t, str, ret) ==
  reply' = [reply EXCEPT ![t] = [str |-> str, ret |-> ret]] /\ UNCHANGED <<opened, length>>

Read(t)      == Answer(t, Word(length), length)
GetLength(t) == Answer(t, "none", length)
Counter(t)   == Answer(t, "none", Cardinality(opened))

\* The memory of t cannot take the answer.
Fault(t)     == reply' = [reply EXCEPT ![t] = Efault] /\ UNCHANGED <<opened, length>>

Next == \/ \E f \in Files : Open(f) \/ Close(f)
        \/ \E n \in Lengths : SetLength(n)
        \/ \E t \in Tasks : Read(t) \/ GetLength(t) \/ Counter(t) \/ Fault(t)

Spec == Init /\ [][Next]_vars
================================================================================
