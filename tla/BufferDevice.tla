------------------------------ MODULE BufferDevice ------------------------------
(***************************************************************************)
(* The pair of misc devices my_write_device / my_read_device (hw 04, in    *)
(* 06/pb173.c and, byte for byte the same, in 04/pb173.c).                 *)
(*                                                                         *)
(* my_write_device admits one writer, counted in "writers" under the       *)
(* spinlock writers_lock; buf_write copies at most Chunk bytes into the    *)
(* buffer, one byte per step with a nap after each, under buf_mutex;       *)
(* buf_read copies out of the same buffer under buf_mutex.                 *)
(*                                                                         *)
(* Tasks are threads.  A file may be shared by several of them, so two     *)
(* writes on the one writable file may be in flight together.  The offset  *)
(* of a call is an input: VFS hands the driver whatever f_pos the earlier  *)
(* calls left, or the argument of pread/pwrite, so any offset >= 0 occurs. *)
(* Calls that return early without touching shared state (offset past the  *)
(* end, empty read, fault while copying from user space) are stuttering.   *)
(***************************************************************************)
EXTENDS Integers

CONSTANTS Tasks,     \* threads that make system calls
          Files,     \* file descriptions on my_write_device
          Bytes,     \* values a byte may take
          BufLen,    \* sizeof(buffer), 128 in the code
          Chunk,     \* most bytes one buf_write stores, 5 in the code
          Offsets,   \* bound: the offsets calls are made with
          Counts,    \* bound: the byte counts calls are made with
          NoTask,    \* owner of a free lock
          NoFile     \* file of a call that has none

ASSUME BufferAssumption ==
  /\ BufLen \in Nat \ {0} /\ Chunk \in Nat \ {0}
  /\ Offsets \subseteq Nat /\ Counts \subseteq Nat
  /\ 0 \in Bytes
  /\ NoTask \notin Tasks /\ NoFile \notin Files

VARIABLES writers,       \* number of writers the driver believes in
          writers_lock,  \* owner of the spinlock around writers
          buffer,        \* the shared bytes
          buf_mutex,     \* owner of the mutex around buffer
          mode,          \* mode[f]: f_mode and life of each file
          pc,            \* pc[t]: where in the driver thread t is
          call,          \* call[t]: arguments and locals of the call t is in
          reply          \* reply[t]: the bytes the last read of t returned

vars == <<writers, writers_lock, buffer, buf_mutex, mode, pc, call, reply>>

Index == 0 .. BufLen - 1
Data  == [0 .. Chunk - 1 -> Bytes]   \* cpy_buffer, filled by copy_from_user
Modes == {"closed", "opening", "r", "w", "closing"}
Calls == [file : Files \cup {NoFile}, off : Nat, count : Nat,
          data : Data, i : Nat, dev_unavailable : Int]
Replies == UNION {[0 .. k - 1 -> Bytes] : k \in 0 .. BufLen}
Labels == {"idle", "open_lock", "open_check", "open_incr", "open_unlock",
           "rel_lock", "rel_decr", "rel_unlock",
           "wr_lock", "wr_byte", "rd_lock", "rd_copy", "rd_unlock"}

\* Locals of a thread that is outside the driver.
NoCall == [file |-> NoFile, off |-> 0, count |-> 0,
           data |-> [j \in 0 .. Chunk - 1 |-> 0], i |-> 0, dev_unavailable |-> 0]

Goto(t, label)   == pc' = [pc EXCEPT ![t] = label]
Return(t)        == Goto(t, "idle") /\ call' = [call EXCEPT ![t] = NoCall]
At(t, label)     == pc[t] = label
InFlight(f)      == \E t \in Tasks : call[t].file = f

Init == /\ writers = 0 /\ writers_lock = NoTask
        /\ buffer = [j \in Index |-> 0] /\ buf_mutex = NoTask
        /\ mode = [f \in Files |-> "closed"]
        /\ pc = [t \in Tasks |-> "idle"]
        /\ call = [t \in Tasks |-> NoCall]
        /\ reply = [t \in Tasks |-> [j \in {} |-> 0]]

--------------------------------------------------------------------------------
(* my_write_open: a read-only open is not counted. *)
OpenReadOnly(t, f) ==
  /\ At(t, "idle") /\ mode[f] = "closed"
  /\ mode' = [mode EXCEPT ![f] = "r"]
  /\ UNCHANGED <<writers, writers_lock, buffer, buf_mutex, pc, call, reply>>

OpenWrite(t, f) ==
  /\ At(t, "idle") /\ mode[f] = "closed"
  /\ mode' = [mode EXCEPT ![f] = "opening"]
  /\ call' = [call EXCEPT ![t] = [NoCall EXCEPT !.file = f]]
  /\ Goto(t, "open_lock")
  /\ UNCHANGED <<writers, writers_lock, buffer, buf_mutex, reply>>

\* Mutant of OpenLock: the spinlock is not waited for.
OpenLockUnguarded(t) ==
  /\ At(t, "open_lock")
  /\ writers_lock' = t
  /\ Goto(t, "open_check")
  /\ UNCHANGED <<writers, buffer, buf_mutex, mode, call, reply>>

OpenLock(t) ==
  /\ At(t, "open_lock") /\ writers_lock = NoTask
  /\ writers_lock' = t
  /\ Goto(t, "open_check")
  /\ UNCHANGED <<writers, buffer, buf_mutex, mode, call, reply>>

OpenCheck(t) ==
  /\ At(t, "open_check")
  /\ call' = [call EXCEPT ![t].dev_unavailable = writers]
  /\ Goto(t, IF writers = 0 THEN "open_incr" ELSE "open_unlock")
  /\ UNCHANGED <<writers, writers_lock, buffer, buf_mutex, mode, reply>>

OpenIncr(t) ==
  /\ At(t, "open_incr")
  /\ writers' = writers + 1
  /\ Goto(t, "open_unlock")
  /\ UNCHANGED <<writers_lock, buffer, buf_mutex, mode, call, reply>>

\* Mutant of OpenUnlock: the -EBUSY path returns without unlocking.
OpenUnlockOnSuccess(t) ==
  /\ At(t, "open_unlock")
  /\ writers_lock' = IF call[t].dev_unavailable # 0 THEN writers_lock ELSE NoTask
  /\ mode' = [mode EXCEPT ![call[t].file] =
                 IF call[t].dev_unavailable # 0 THEN "closed" ELSE "w"]
  /\ Return(t)
  /\ UNCHANGED <<writers, buffer, buf_mutex, reply>>

\* spin_unlock_irq, then -EBUSY or 0; VFS drops a file whose open failed.
OpenUnlock(t) ==
  /\ At(t, "open_unlock")
  /\ writers_lock' = NoTask
  /\ mode' = [mode EXCEPT ![call[t].file] =
                 IF call[t].dev_unavailable # 0 THEN "closed" ELSE "w"]
  /\ Return(t)
  /\ UNCHANGED <<writers, buffer, buf_mutex, reply>>

--------------------------------------------------------------------------------
(* my_write_release: VFS calls it when the last reference to the file is   *)
(* dropped, hence never while a call on that file is in flight.            *)
CloseReadOnly(t, f) ==
  /\ At(t, "idle") /\ mode[f] = "r"
  /\ mode' = [mode EXCEPT ![f] = "closed"]
  /\ UNCHANGED <<writers, writers_lock, buffer, buf_mutex, pc, call, reply>>

CloseWrite(t, f) ==
  /\ At(t, "idle") /\ mode[f] = "w" /\ ~InFlight(f)
  /\ mode' = [mode EXCEPT ![f] = "closing"]
  /\ call' = [call EXCEPT ![t] = [NoCall EXCEPT !.file = f]]
  /\ Goto(t, "rel_lock")
  /\ UNCHANGED <<writers, writers_lock, buffer, buf_mutex, reply>>

RelLock(t) ==
  /\ At(t, "rel_lock") /\ writers_lock = NoTask
  /\ writers_lock' = t
  /\ Goto(t, "rel_decr")
  /\ UNCHANGED <<writers, buffer, buf_mutex, mode, call, reply>>

RelDecr(t) ==
  /\ At(t, "rel_decr")
  /\ writers' = writers - 1
  /\ Goto(t, "rel_unlock")
  /\ UNCHANGED <<writers_lock, buffer, buf_mutex, mode, call, reply>>

RelUnlock(t) ==
  /\ At(t, "rel_unlock")
  /\ writers_lock' = NoTask
  /\ mode' = [mode EXCEPT ![call[t].file] = "closed"]
  /\ Return(t)
  /\ UNCHANGED <<writers, buffer, buf_mutex, reply>>

--------------------------------------------------------------------------------
(* buf_write *)
\* Mutant of Clamp: the whole buffer may be written, as it may be read.
ClampToBuffer(off, count) ==
  LET fits == IF off + count > BufLen THEN BufLen - off ELSE count
  IN  IF fits > Chunk THEN Chunk ELSE fits

\* The byte count after the two checks of buf_write.
Clamp(off, count) ==
  LET fits == IF off + count > BufLen - 1 THEN BufLen - 1 - off ELSE count
  IN  IF fits > Chunk THEN Chunk ELSE fits

\* Mutant of Write: the offset is not checked.
WriteAnywhere(t, f, off, count, data) ==
  /\ At(t, "idle") /\ mode[f] = "w"
  /\ call' = [call EXCEPT ![t] = [NoCall EXCEPT !.file = f, !.off = off, !.data = data,
                                                !.count = Clamp(off, count)]]
  /\ Goto(t, "wr_lock")
  /\ UNCHANGED <<writers, writers_lock, buffer, buf_mutex, mode, reply>>

Write(t, f, off, count, data) ==
  /\ At(t, "idle") /\ mode[f] = "w"
  /\ off <= BufLen - 1
  /\ call' = [call EXCEPT ![t] = [NoCall EXCEPT !.file = f, !.off = off, !.data = data,
                                                !.count = Clamp(off, count)]]
  /\ Goto(t, "wr_lock")
  /\ UNCHANGED <<writers, writers_lock, buffer, buf_mutex, mode, reply>>

WriteLock(t) ==
  /\ At(t, "wr_lock") /\ buf_mutex = NoTask
  /\ buf_mutex' = t
  /\ Goto(t, "wr_byte")
  /\ UNCHANGED <<writers, writers_lock, buffer, mode, call, reply>>

\* One iteration of the loop: store a byte and sleep with the mutex held.
WriteByte(t) ==
  /\ At(t, "wr_byte") /\ call[t].i < call[t].count
  /\ buffer' = [buffer EXCEPT ![call[t].off + call[t].i] = call[t].data[call[t].i]]
  /\ call' = [call EXCEPT ![t].i = @ + 1]
  /\ UNCHANGED <<writers, writers_lock, buf_mutex, mode, pc, reply>>

WriteUnlock(t) ==
  /\ At(t, "wr_byte") /\ call[t].i >= call[t].count
  /\ buf_mutex' = NoTask
  /\ Return(t)
  /\ UNCHANGED <<writers, writers_lock, buffer, mode, reply>>

--------------------------------------------------------------------------------
(* buf_read; my_read_device has no open or release of its own. *)
Read(t, off, count) ==
  /\ At(t, "idle")
  /\ off <= BufLen - 1 /\ count # 0
  /\ call' = [call EXCEPT ![t] = [NoCall EXCEPT !.off = off, !.count = count]]
  /\ Goto(t, "rd_lock")
  /\ UNCHANGED <<writers, writers_lock, buffer, buf_mutex, mode, reply>>

\* Mutant of ReadLock: the reader goes on without buf_mutex.
ReadUnlocked(t) ==
  /\ At(t, "rd_lock")
  /\ Goto(t, "rd_copy")
  /\ UNCHANGED <<writers, writers_lock, buffer, buf_mutex, mode, call, reply>>

ReadLock(t) ==
  /\ At(t, "rd_lock") /\ buf_mutex = NoTask
  /\ buf_mutex' = t
  /\ Goto(t, "rd_copy")
  /\ UNCHANGED <<writers, writers_lock, buffer, mode, call, reply>>

\* simple_read_from_buffer: user memory may take fewer bytes than there are.
ReadCopy(t) ==
  /\ At(t, "rd_copy")
  /\ LET room == BufLen - call[t].off
         n    == IF call[t].count > room THEN room ELSE call[t].count
     IN  \E k \in 0 .. n :
           reply' = [reply EXCEPT ![t] = [j \in 0 .. k - 1 |-> buffer[call[t].off + j]]]
  /\ Goto(t, "rd_unlock")
  /\ UNCHANGED <<writers, writers_lock, buffer, buf_mutex, mode, call>>

ReadUnlock(t) ==
  /\ At(t, "rd_unlock")
  /\ buf_mutex' = NoTask
  /\ Return(t)
  /\ UNCHANGED <<writers, writers_lock, buffer, mode, reply>>

--------------------------------------------------------------------------------
Call(t) ==
  \/ \E f \in Files : OpenReadOnly(t, f) \/ OpenWrite(t, f)
                      \/ CloseReadOnly(t, f) \/ CloseWrite(t, f)
  \/ \E f \in Files, off \in Offsets, count \in Counts, data \in Data :
       Write(t, f, off, count, data)
  \/ \E off \in Offsets, count \in Counts : Read(t, off, count)

Acquire(t) == OpenLock(t) \/ RelLock(t) \/ WriteLock(t) \/ ReadLock(t)

Step(t) == \/ OpenCheck(t) \/ OpenIncr(t) \/ OpenUnlock(t)
           \/ RelDecr(t) \/ RelUnlock(t)
           \/ WriteByte(t) \/ WriteUnlock(t)
           \/ ReadCopy(t) \/ ReadUnlock(t)

Next == \E t \in Tasks : Call(t) \/ Acquire(t) \/ Step(t)

Spec == Init /\ [][Next]_vars

\* A thread inside the driver keeps running (msleep returns), and a lock
\* that is released again and again is obtained in the end by every waiter:
\* waiters of spinlocks and mutexes queue.  Nobody has to make a call.
Fairness == \A t \in Tasks : WF_vars(Step(t)) /\ SF_vars(Acquire(t))

FairSpec == Spec /\ Fairness

--------------------------------------------------------------------------------
TypeOK ==
  /\ writers \in Int
  /\ writers_lock \in Tasks \cup {NoTask} /\ buf_mutex \in Tasks \cup {NoTask}
  /\ buffer \in [Index -> Bytes]
  /\ mode \in [Files -> Modes]
  /\ pc \in [Tasks -> Labels]
  /\ call \in [Tasks -> Calls]
  /\ reply \in [Tasks -> Replies]

\* The files "writers" stands for: those open for writing, those whose open
\* has incremented it and those whose release has not yet decremented it.
Counted(f) ==
  \/ mode[f] = "w"
  \/ \E t \in Tasks :
       /\ call[t].file = f
       /\ \/ pc[t] \in {"rel_lock", "rel_decr"}
          \/ pc[t] = "open_unlock" /\ call[t].dev_unavailable = 0

\* my_write_open "allow[s] only one writer" whatever opens, failed opens and
\* releases race, and "writers" neither drifts nor goes negative: a drift
\* would lock every later writer out, or let two in.
OneWriter ==
  /\ \A f, g \in Files : Counted(f) /\ Counted(g) => f = g
  /\ writers = IF \E f \in Files : Counted(f) THEN 1 ELSE 0

\* The two checks of buf_write keep each store inside the buffer for every
\* offset and count, and in fact below its last byte: the bound is 127 where
\* buf_read uses 128, so the last byte can be read but never written.
StoresBelowLastByte ==
  \A t \in Tasks : pc[t] = "wr_byte" /\ call[t].i < call[t].count
                      => call[t].off + call[t].i \in 0 .. BufLen - 2

\* The buffer as seen by a thread that holds no lock: a chunk counts as
\* stored from the moment its writer takes buf_mutex.
Committed ==
  [j \in Index |->
     IF /\ buf_mutex \in Tasks
        /\ pc[buf_mutex] = "wr_byte"
        /\ j \in call[buf_mutex].off + call[buf_mutex].i
                  .. call[buf_mutex].off + call[buf_mutex].count - 1
     THEN call[buf_mutex].data[j - call[buf_mutex].off]
     ELSE buffer[j]]

Abstract == INSTANCE AtomicBuffer
              WITH mem <- Committed, writer <- {f \in Files : mode[f] = "w"}

\* The driver implements the atomic buffer: although buf_write stores byte by
\* byte and sleeps in between, no read sees part of a chunk, no chunk loses
\* bytes to another one in flight, and nobody stores without being the writer.
ImplementsAtomicBuffer == Abstract!Spec

\* Every call ends, so no path of open, release, read or write, failing or
\* not, leaves writers_lock or buf_mutex behind.
CallsReturn == \A t \in Tasks : pc[t] # "idle" ~> pc[t] = "idle"
================================================================================
