-------------------------------- MODULE MyDevice --------------------------------
(***************************************************************************)
(* my_device as 06/pb173.c has it (04/pb173.c has the same but for the     *)
(* result of an ioctl, which it forgets to return): the count of opened    *)
(* instances under count_lock, the greeting's length under char_lock, and  *)
(* the debugfs file "counter" that shows the count to whoever reads it,    *)
(* without a lock.                                                         *)
(*                                                                         *)
(* An increment is a load and a store, as in the machine.  my_write is not *)
(* here: it touches no state that threads share.  The error returns of     *)
(* my_unlocked_ioctl (wrong magic or number, length out of range) change   *)
(* nothing.                                                                *)
(***************************************************************************)
EXTENDS Integers, FiniteSets

CONSTANTS Tasks,     \* threads that make system calls
          Files,     \* file descriptions on my_device
          Args,      \* bound: the arguments of the MY_WRITE ioctl
          NoTask,    \* owner of a free lock
          NoFile     \* file of a call that has none

ASSUME DeviceAssumption ==
  /\ IsFiniteSet(Files) /\ Args \subseteq Int
  /\ NoTask \notin Tasks /\ NoFile \notin Files

VARIABLES count,        \* opened instances, as the driver believes
          count_lock,   \* owner of the spinlock around count
          char_count,   \* length of the greeting
          char_lock,    \* owner of the spinlock around char_count
          mode,         \* mode[f]: life of each file
          pc,           \* pc[t]: where in the driver thread t is
          call,         \* call[t]: file, argument and local copy of the call
          reply         \* reply[t]: what the last call of t returned

vars == <<count, count_lock, char_count, char_lock, mode, pc, call, reply>>
countVars == <<count, count_lock, mode>>
charVars  == <<char_count, char_lock>>

Modes  == {"closed", "opening", "open", "closing"}
Labels == {"idle", "open_lock", "open_load", "open_store", "open_unlock",
           "rel_lock", "rel_load", "rel_store", "rel_unlock",
           "set_lock", "set", "set_unlock", "copy_lock", "copy", "copy_unlock", "return"}

NoCall  == [file |-> NoFile, op |-> "none", arg |-> 0, local |-> 0]
Efault  == [str |-> "none", ret |-> -14]
Word(n) == CASE n = 1 -> "A" [] n = 2 -> "Ah" [] n = 3 -> "Aho" [] OTHER -> "Ahoj"

Goto(t, label)     == pc' = [pc EXCEPT ![t] = label]
Move(t, from, to)  == pc[t] = from /\ Goto(t, to)
Enter(t, label, c) == Move(t, "idle", label) /\ call' = [call EXCEPT ![t] = c]
Return(t, from)    == Move(t, from, "idle") /\ call' = [call EXCEPT ![t] = NoCall]
Keep(t, value)     == call' = [call EXCEPT ![t].local = value]

Init == /\ count = 0 /\ count_lock = NoTask
        /\ char_count = 4 /\ char_lock = NoTask
        /\ mode = [f \in Files |-> "closed"]
        /\ pc = [t \in Tasks |-> "idle"] /\ call = [t \in Tasks |-> NoCall]
        /\ reply = [t \in Tasks |-> [str |-> "none", ret |-> 0]]

--------------------------------------------------------------------------------
(* my_open *)
Open(t, f) ==
  /\ mode[f] = "closed" /\ mode' = [mode EXCEPT ![f] = "opening"]
  /\ Enter(t, "open_lock", [NoCall EXCEPT !.file = f])
  /\ UNCHANGED <<count, count_lock, charVars, reply>>

OpenLock(t) ==
  /\ count_lock = NoTask /\ count_lock' = t
  /\ Move(t, "open_lock", "open_load")
  /\ UNCHANGED <<count, mode, charVars, call, reply>>

OpenIncr(t) ==
  /\ \/ Move(t, "open_load", "open_store") /\ Keep(t, count) /\ UNCHANGED count
     \/ Move(t, "open_store", "open_unlock") /\ count' = call[t].local + 1 /\ UNCHANGED call
  /\ UNCHANGED <<count_lock, mode, charVars, reply>>

OpenUnlock(t) ==
  /\ Return(t, "open_unlock")
  /\ count_lock' = NoTask
  /\ mode' = [mode EXCEPT ![call[t].file] = "open"]
  /\ UNCHANGED <<count, charVars, reply>>

--------------------------------------------------------------------------------
(* my_release: once for each file, when its last reference is dropped. *)
Release(t, f) ==
  /\ mode[f] = "open" /\ mode' = [mode EXCEPT ![f] = "closing"]
  /\ Enter(t, "rel_lock", [NoCall EXCEPT !.file = f])
  /\ UNCHANGED <<count, count_lock, charVars, reply>>

RelLock(t) ==
  /\ count_lock = NoTask /\ count_lock' = t
  /\ Move(t, "rel_lock", "rel_load")
  /\ UNCHANGED <<count, mode, charVars, call, reply>>

RelDecr(t) ==
  /\ \/ Move(t, "rel_load", "rel_store") /\ Keep(t, count) /\ UNCHANGED count
     \/ Move(t, "rel_store", "rel_unlock") /\ count' = call[t].local - 1 /\ UNCHANGED call
  /\ UNCHANGED <<count_lock, mode, charVars, reply>>

RelUnlock(t) ==
  /\ Return(t, "rel_unlock")
  /\ count_lock' = NoTask
  /\ mode' = [mode EXCEPT ![call[t].file] = "closed"]
  /\ UNCHANGED <<count, charVars, reply>>

\* The debugfs file "counter": debugfs reads the variable on its own.
ReadCounter(t) ==
  /\ pc[t] = "idle"
  /\ reply' = [reply EXCEPT ![t] = [str |-> "none", ret |-> count]]
  /\ UNCHANGED <<countVars, charVars, pc, call>>

--------------------------------------------------------------------------------
(* my_unlocked_ioctl, MY_WRITE *)
\* Mutant of IoctlWrite: the range of the argument is not checked.
IoctlWriteAny(t, arg) ==
  /\ Enter(t, "set_lock", [NoCall EXCEPT !.arg = arg])
  /\ UNCHANGED <<countVars, charVars, reply>>

IoctlWrite(t, arg) ==
  /\ arg >= 1 /\ arg <= 4
  /\ Enter(t, "set_lock", [NoCall EXCEPT !.arg = arg])
  /\ UNCHANGED <<countVars, charVars, reply>>

IoctlSet(t) ==
  /\ \/ char_lock = NoTask /\ Move(t, "set_lock", "set") /\ char_lock' = t
        /\ UNCHANGED <<char_count, call>>
     \/ Move(t, "set", "set_unlock") /\ char_count' = call[t].arg
        /\ UNCHANGED <<char_lock, call>>
     \/ Return(t, "set_unlock") /\ char_lock' = NoTask /\ UNCHANGED char_count
  /\ UNCHANGED <<countVars, reply>>

(* my_read, and my_unlocked_ioctl with MY_READ: both work on a local copy. *)
Get(t, op) ==
  /\ Enter(t, "copy_lock", [NoCall EXCEPT !.op = op])
  /\ UNCHANGED <<countVars, charVars, reply>>

GetCopy(t) ==
  /\ \/ char_lock = NoTask /\ Move(t, "copy_lock", "copy") /\ char_lock' = t /\ UNCHANGED call
     \/ Move(t, "copy", "copy_unlock") /\ Keep(t, char_count) /\ UNCHANGED char_lock
     \/ Move(t, "copy_unlock", "return") /\ char_lock' = NoTask /\ UNCHANGED call
  /\ UNCHANGED <<countVars, char_count, reply>>

Result(op, str, ret) == [str |-> IF op = "read" THEN str ELSE "none", ret |-> ret]

\* Mutant of GetReturn: my_read returns char_count, as 03/pb173.c does.
GetReturnCurrent(t) ==
  /\ \E r \in {Result(call[t].op, Word(call[t].local), char_count), Efault} :
       reply' = [reply EXCEPT ![t] = r]
  /\ Return(t, "return")
  /\ UNCHANGED <<countVars, charVars>>

\* copy_to_user hands the copy over, or fails and the call returns -EFAULT.
GetReturn(t) ==
  /\ \E r \in {Result(call[t].op, Word(call[t].local), call[t].local), Efault} :
       reply' = [reply EXCEPT ![t] = r]
  /\ Return(t, "return")
  /\ UNCHANGED <<countVars, charVars>>

--------------------------------------------------------------------------------
\* The calls that need an open file, and the steps of a call under way.
FileCall(t) == \/ \E f \in Files : Release(t, f)
               \/ \E arg \in Args : IoctlWrite(t, arg)
               \/ \E op \in {"read", "ioctl"} : Get(t, op)
Step(t) == \/ OpenLock(t) \/ OpenIncr(t) \/ OpenUnlock(t)
           \/ RelLock(t) \/ RelDecr(t) \/ RelUnlock(t)
           \/ IoctlSet(t) \/ GetCopy(t) \/ GetReturn(t)

Next == \E t \in Tasks : \/ \E f \in Files : Open(t, f)
                         \/ FileCall(t) \/ ReadCounter(t) \/ Step(t)

Spec == Init /\ [][Next]_vars

--------------------------------------------------------------------------------
Calls == [file : Files \cup {NoFile}, op : {"none", "read", "ioctl"}, arg : Int, local : Int]

TypeOK ==
  /\ count \in Nat /\ char_count \in 1 .. 4
  /\ count_lock \in Tasks \cup {NoTask} /\ char_lock \in Tasks \cup {NoTask}
  /\ mode \in [Files -> Modes]
  /\ pc \in [Tasks -> Labels] /\ call \in [Tasks -> Calls]
  /\ reply \in [Tasks -> [str : {"none", "A", "Ah", "Aho", "Ahoj"}, ret : Nat \cup {-14}]]

\* The instances that count stands for: an open adds its file when it stores
\* the new count, a release removes it then.
Opened ==
  {f \in Files : \/ mode[f] = "open"
                 \/ \E t \in Tasks : /\ call[t].file = f
                                     /\ pc[t] \in {"open_unlock", "rel_lock", "rel_load",
                                                   "rel_store"}}

\* A call has its answer from the moment it has made its local copy.
Answered ==
  [t \in Tasks |-> IF pc[t] \in {"copy_unlock", "return"}
                  THEN Result(call[t].op, Word(call[t].local), call[t].local)
                  ELSE reply[t]]

Abstract == INSTANCE DeviceState
              WITH opened <- Opened, length <- char_count, reply <- Answered

\* my_device keeps its promise under every interleaving: the counter debugfs
\* shows is the number of opened instances although it is loaded and stored
\* apart and read without a lock, and a string and a length that are returned
\* together belong together although the length may be set in between.
ImplementsDeviceState == Abstract!Spec
================================================================================
