----------------------------- MODULE UnlockedDevice -----------------------------
(***************************************************************************)
(* my_device as it was before it got its locks, in 03/pb173.c (and, copied *)
(* from there, in 10/homework/pb173.c): count and char_count are plain     *)
(* globals.  count++ is a load and a store that other threads may come     *)
(* between, and my_read looks at char_count twice.                         *)
(***************************************************************************)
EXTENDS Integers, FiniteSets

CONSTANTS Tasks,     \* threads that make system calls
          Files,     \* file descriptions on my_device
          Args,      \* bound: the arguments of the MY_WRITE ioctl
          NoFile     \* file of a call that has none

VARIABLES count,        \* opened instances, as the driver believes
          char_count,   \* length of the greeting
          mode,         \* mode[f]: life of each file
          pc,           \* pc[t]: where in the driver thread t is
          call,         \* call[t]: file and register of the call
          reply         \* reply[t]: what the last call of t returned

vars == <<count, char_count, mode, pc, call, reply>>

NoCall  == [file |-> NoFile, reg |-> 0]
Word(n) == CASE n = 1 -> "A" [] n = 2 -> "Ah" [] n = 3 -> "Aho" [] OTHER -> "Ahoj"
Efault  == [str |-> "none", ret |-> -14]

Move(t, from, to) == pc[t] = from /\ pc' = [pc EXCEPT ![t] = to]
Keep(t, value)    == call' = [call EXCEPT ![t].reg = value]

Init == /\ count = 0 /\ char_count = 4
        /\ mode = [f \in Files |-> "closed"]
        /\ pc = [t \in Tasks |-> "idle"] /\ call = [t \in Tasks |-> NoCall]
        /\ reply = [t \in Tasks |-> [str |-> "none", ret |-> 0]]

--------------------------------------------------------------------------------
(* my_open, from the call to its count++ *)
Open(t, f) ==
  /\ mode[f] = "closed" /\ mode' = [mode EXCEPT ![f] = "opening"]
  /\ Move(t, "idle", "open_load") /\ call' = [call EXCEPT ![t].file = f]
  /\ UNCHANGED <<count, char_count, reply>>

OpenLoad(t) ==
  /\ Move(t, "open_load", "open_store") /\ Keep(t, count)
  /\ UNCHANGED <<count, char_count, mode, reply>>

OpenStore(t) ==
  /\ Move(t, "open_store", "idle")
  /\ count' = call[t].reg + 1
  /\ mode' = [mode EXCEPT ![call[t].file] = "open"]
  /\ call' = [call EXCEPT ![t] = NoCall]
  /\ UNCHANGED <<char_count, reply>>

(* my_release *)
Release(t, f) ==
  /\ mode[f] = "open" /\ mode' = [mode EXCEPT ![f] = "closing"]
  /\ Move(t, "idle", "rel_load") /\ call' = [call EXCEPT ![t].file = f]
  /\ UNCHANGED <<count, char_count, reply>>

RelLoad(t) ==
  /\ Move(t, "rel_load", "rel_store") /\ Keep(t, count)
  /\ UNCHANGED <<count, char_count, mode, reply>>

RelStore(t) ==
  /\ Move(t, "rel_store", "idle")
  /\ count' = call[t].reg - 1
  /\ mode' = [mode EXCEPT ![call[t].file] = "closed"]
  /\ call' = [call EXCEPT ![t] = NoCall]
  /\ UNCHANGED <<char_count, reply>>

--------------------------------------------------------------------------------
(* my_unlocked_ioctl *)
IoctlWrite(t, arg) ==
  /\ pc[t] = "idle" /\ arg >= 1 /\ arg <= 4
  /\ char_count' = arg
  /\ UNCHANGED <<count, mode, pc, call, reply>>

IoctlRead(t) ==
  /\ pc[t] = "idle"
  /\ \E r \in {[str |-> "none", ret |-> char_count], Efault} : reply' = [reply EXCEPT ![t] = r]
  /\ UNCHANGED <<count, char_count, mode, pc, call>>

(* my_read: the switch, then copy_to_user and the return value. *)
ReadSwitch(t) ==
  /\ Move(t, "idle", "read_ret") /\ Keep(t, char_count)
  /\ UNCHANGED <<count, char_count, mode, reply>>

ReadReturn(t) ==
  /\ Move(t, "read_ret", "idle")
  /\ \E r \in {[str |-> Word(call[t].reg), ret |-> char_count], Efault} :
       reply' = [reply EXCEPT ![t] = r]
  /\ call' = [call EXCEPT ![t] = NoCall]
  /\ UNCHANGED <<count, char_count, mode>>

--------------------------------------------------------------------------------
Next == \E t \in Tasks :
          \/ \E f \in Files : Open(t, f) \/ Release(t, f)
          \/ \E arg \in Args : IoctlWrite(t, arg)
          \/ OpenLoad(t) \/ OpenStore(t) \/ RelLoad(t) \/ RelStore(t)
          \/ IoctlRead(t) \/ ReadSwitch(t) \/ ReadReturn(t)

Spec == Init /\ [][Next]_vars

--------------------------------------------------------------------------------
\* "increase count of opened instances", "decrease count of opened instances":
\* when no open or release is under way, count is the number of open files.
CountsInstances ==
  (\A f \in Files : mode[f] \in {"closed", "open"})
    => count = Cardinality({f \in Files : mode[f] = "open"})
================================================================================
