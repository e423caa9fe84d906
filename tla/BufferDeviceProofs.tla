--------------------------- MODULE BufferDeviceProofs ---------------------------
(***************************************************************************)
(* Proofs about BufferDevice, for every number of threads and files and    *)
(* every buffer and chunk length: type correctness, one writer at a time,  *)
(* no store outside the buffer, and the refinement of AtomicBuffer.        *)
(*                                                                         *)
(* OneWriter is not inductive: whether the increment of "writers" is safe  *)
(* depends on the spinlock having been held since the check, and whether   *)
(* the decrement is, on each file having at most one thread opening or     *)
(* closing it.  IInv adds those facts.                                     *)
(***************************************************************************)
EXTENDS BufferDevice, TLAPS

Opening == {"open_lock", "open_check", "open_incr", "open_unlock"}
Closing == {"rel_lock", "rel_decr", "rel_unlock"}
Writing == {"wr_lock", "wr_byte"}
Reading == {"rd_lock", "rd_copy", "rd_unlock"}

\* The labels between lock and unlock, for each of the two locks.
Spinning == {"open_check", "open_incr", "open_unlock", "rel_decr", "rel_unlock"}
InMutex  == {"wr_byte", "rd_copy", "rd_unlock"}

LockInv == \A t \in Tasks : /\ pc[t] \in Spinning <=> writers_lock = t
                            /\ pc[t] \in InMutex <=> buf_mutex = t

\* What a file's mode says of the threads that work on it.
FileInv ==
  /\ \A t \in Tasks :
       /\ pc[t] \in Opening => call[t].file \in Files /\ mode[call[t].file] = "opening"
       /\ pc[t] \in Closing => call[t].file \in Files /\ mode[call[t].file] = "closing"
       /\ pc[t] \in Writing => call[t].file \in Files /\ mode[call[t].file] = "w"
       /\ pc[t] \in Reading \cup {"idle"} => call[t].file = NoFile
  /\ \A t, u \in Tasks :
       /\ pc[t] \in Opening \cup Closing /\ pc[u] \in Opening \cup Closing
       /\ call[t].file = call[u].file
       => t = u

\* The check of my_write_open still holds when it increments.
CheckInv == \A t \in Tasks :
              pc[t] = "open_incr" => writers = 0 /\ call[t].dev_unavailable = 0

\* The locals of buf_write and buf_read after their checks.
CallInv ==
  \A t \in Tasks :
    /\ pc[t] \in Writing => /\ call[t].off + call[t].count <= BufLen - 1
                            /\ call[t].count <= Chunk
    /\ pc[t] = "wr_lock" => call[t].i = 0
    /\ pc[t] \in Reading => call[t].off <= BufLen - 1

IInv == TypeOK /\ LockInv /\ FileInv /\ CheckInv /\ CallInv /\ OneWriter

--------------------------------------------------------------------------------
\* The locals of a thread outside the driver are well typed.
LEMMA NoCallType == NoCall \in Calls
BY BufferAssumption DEF NoCall, Calls, Data

\* Clamp: the two checks of buf_write leave a chunk that fits below the last
\* byte, whatever the offset (once within the buffer) and the count.
LEMMA ClampFits ==
  ASSUME NEW off \in Nat, NEW count \in Nat, off <= BufLen - 1
  PROVE  /\ Clamp(off, count) \in Nat
         /\ off + Clamp(off, count) <= BufLen - 1
         /\ Clamp(off, count) <= Chunk
BY BufferAssumption DEF Clamp

\* Every step of every thread keeps the variables well typed.
LEMMA TypePreserved == IInv /\ [Next]_vars => TypeOK'
<1> SUFFICES ASSUME IInv, [Next]_vars PROVE TypeOK'
  OBVIOUS
<1> USE BufferAssumption
<1>t. TypeOK /\ CallInv /\ NoCall \in Calls
  BY NoCallType DEF IInv
<1>1. ASSUME NEW t \in Tasks, NEW f \in Files,
             OpenReadOnly(t, f) \/ OpenWrite(t, f) \/ CloseReadOnly(t, f) \/ CloseWrite(t, f)
      PROVE  TypeOK'
  <2>1. [NoCall EXCEPT !.file = f] \in Calls
    BY <1>t DEF Calls
  <2> QED
    BY <1>1, <1>t, <2>1 DEF TypeOK, OpenReadOnly, OpenWrite, CloseReadOnly, CloseWrite,
       Goto, At, Modes, Labels
<1>2. ASSUME NEW t \in Tasks, NEW f \in Files, NEW off \in Offsets, NEW count \in Counts,
             NEW data \in Data, Write(t, f, off, count, data)
      PROVE  TypeOK'
  <2> DEFINE c == [NoCall EXCEPT !.file = f, !.off = off, !.data = data,
                                 !.count = Clamp(off, count)]
  <2>1. Clamp(off, count) \in Nat
    BY <1>2, ClampFits DEF Write
  <2>2. c \in Calls
    BY <1>t, <2>1 DEF Calls
  <2>3. call' \in [Tasks -> Calls]
    <3>1. call \in [Tasks -> Calls] /\ call' = [call EXCEPT ![t] = c]
      BY <1>2, <1>t DEF Write, TypeOK
    <3> QED
      BY <2>2, <3>1
  <2> QED
    BY <1>2, <1>t, <2>3 DEF TypeOK, Write, Goto, Labels
<1>3. ASSUME NEW t \in Tasks, NEW off \in Offsets, NEW count \in Counts, Read(t, off, count)
      PROVE  TypeOK'
  <2>1. [NoCall EXCEPT !.off = off, !.count = count] \in Calls
    BY <1>t DEF Calls
  <2> QED
    BY <1>3, <1>t, <2>1 DEF TypeOK, Read, Goto, Labels
<1>4. ASSUME NEW t \in Tasks, Acquire(t) PROVE TypeOK'
  BY <1>4, <1>t DEF TypeOK, Acquire, OpenLock, RelLock, WriteLock, ReadLock, Goto, Labels
<1>5. ASSUME NEW t \in Tasks, OpenCheck(t) \/ OpenIncr(t) \/ RelDecr(t) PROVE TypeOK'
  <2>1. [call[t] EXCEPT !.dev_unavailable = writers] \in Calls
    BY <1>t DEF TypeOK, Calls
  <2> QED
    BY <1>5, <1>t, <2>1 DEF TypeOK, OpenCheck, OpenIncr, RelDecr, Goto, Labels
<1>6. ASSUME NEW t \in Tasks, OpenUnlock(t) \/ RelUnlock(t) \/ WriteUnlock(t) \/ ReadUnlock(t)
      PROVE  TypeOK'
  BY <1>6, <1>t DEF TypeOK, OpenUnlock, RelUnlock, WriteUnlock, ReadUnlock,
     Return, Goto, Labels, Modes
<1>7. ASSUME NEW t \in Tasks, WriteByte(t) PROVE TypeOK'
  <2>1. call[t] \in Calls /\ call[t].i \in 0 .. Chunk - 1
    <3>1. call[t] \in Calls
      BY <1>t DEF TypeOK
    <3>2. call[t].i < call[t].count /\ call[t].count <= Chunk
      BY <1>7, <1>t DEF WriteByte, At, CallInv, Writing
    <3> QED
      BY <3>1, <3>2 DEF Calls
  <2>2. [call[t] EXCEPT !.i = @ + 1] \in Calls
    BY <2>1 DEF Calls
  <2>3. call[t].data[call[t].i] \in Bytes
    BY <2>1 DEF Calls, Data
  <2> QED
    BY <1>7, <1>t, <2>2, <2>3 DEF TypeOK, WriteByte
<1>8. ASSUME NEW t \in Tasks, ReadCopy(t) PROVE TypeOK'
  <2> DEFINE room == BufLen - call[t].off
             n    == IF call[t].count > room THEN room ELSE call[t].count
             got(k) == [j \in 0 .. k - 1 |-> buffer[call[t].off + j]]
  <2>1. PICK k \in 0 .. n : reply' = [reply EXCEPT ![t] = got(k)]
    BY <1>8 DEF ReadCopy
  <2>2. call[t].off \in Nat /\ call[t].count \in Nat /\ call[t].off <= BufLen - 1
    <3>1. call[t] \in Calls
      BY <1>t DEF TypeOK
    <3>2. call[t].off <= BufLen - 1
      BY <1>8, <1>t DEF ReadCopy, At, CallInv, Reading
    <3> QED
      BY <3>1, <3>2 DEF Calls
  <2>3. k \in 0 .. BufLen /\ call[t].off + k <= BufLen
    BY <2>2
  <2>4. got(k) \in [0 .. k - 1 -> Bytes]
    BY <2>2, <2>3, <1>t DEF TypeOK, Index
  <2>5. got(k) \in Replies
    BY <2>3, <2>4 DEF Replies
  <2> HIDE DEF got
  <2> QED
    BY <1>8, <1>t, <2>1, <2>5 DEF TypeOK, ReadCopy, Goto, Labels
<1>9. CASE UNCHANGED vars
  BY <1>9, <1>t DEF TypeOK, vars
<1> QED
  BY <1>1, <1>2, <1>3, <1>4, <1>5, <1>6, <1>7, <1>8, <1>9 DEF Next, Call, Step

\* Each lock is held by the one thread between its lock and its unlock.
LEMMA LockPreserved == IInv /\ [Next]_vars => LockInv'
<1> SUFFICES ASSUME IInv, [Next]_vars PROVE LockInv'
  OBVIOUS
<1> USE BufferAssumption DEF LockInv, Spinning, InMutex, At, Goto
<1>t. LockInv /\ pc \in [Tasks -> Labels]
  BY DEF IInv, TypeOK
<1>1. ASSUME NEW t \in Tasks, Call(t) PROVE LockInv'
  BY <1>1, <1>t DEF Call, OpenReadOnly, OpenWrite, CloseReadOnly, CloseWrite, Write, Read
<1>2. ASSUME NEW t \in Tasks, Acquire(t) PROVE LockInv'
  BY <1>2, <1>t DEF Acquire, OpenLock, RelLock, WriteLock, ReadLock
<1>3. ASSUME NEW t \in Tasks, OpenCheck(t) \/ OpenIncr(t) \/ RelDecr(t) \/ WriteByte(t)
                                \/ ReadCopy(t)
      PROVE  LockInv'
  BY <1>3, <1>t DEF OpenCheck, OpenIncr, RelDecr, WriteByte, ReadCopy
<1>4. ASSUME NEW t \in Tasks, OpenUnlock(t) \/ RelUnlock(t) PROVE LockInv'
  BY <1>4, <1>t DEF OpenUnlock, RelUnlock, Return
<1>5. ASSUME NEW t \in Tasks, WriteUnlock(t) \/ ReadUnlock(t) PROVE LockInv'
  BY <1>5, <1>t DEF WriteUnlock, ReadUnlock, Return
<1>6. CASE UNCHANGED vars
  BY <1>6, <1>t DEF vars
<1> QED
  BY <1>1, <1>2, <1>3, <1>4, <1>5, <1>6 DEF Next, Step

\* No thread's call touches the file another thread is opening or closing.
LEMMA FilePreserved == IInv /\ [Next]_vars => FileInv'
<1> SUFFICES ASSUME IInv, [Next]_vars PROVE FileInv'
  OBVIOUS
<1> USE BufferAssumption DEF FileInv, Opening, Closing, Writing, Reading, At, Goto
<1>t. /\ FileInv /\ pc \in [Tasks -> Labels] /\ mode \in [Files -> Modes]
      /\ call \in [Tasks -> Calls]
      /\ NoCall \in Calls
  BY NoCallType DEF IInv, TypeOK
<1>n. NoCall.file = NoFile
  BY DEF NoCall
<1>1. ASSUME NEW t \in Tasks, NEW f \in Files, OpenReadOnly(t, f) \/ CloseReadOnly(t, f)
      PROVE  FileInv'
  BY <1>1, <1>t DEF OpenReadOnly, CloseReadOnly
<1>2. ASSUME NEW t \in Tasks, NEW f \in Files, OpenWrite(t, f) PROVE FileInv'
  <2>1. [NoCall EXCEPT !.file = f].file = f
    BY <1>t DEF Calls
  <2> QED
    BY <1>2, <1>t, <2>1 DEF OpenWrite
<1>3. ASSUME NEW t \in Tasks, NEW f \in Files, CloseWrite(t, f) PROVE FileInv'
  <2>1. [NoCall EXCEPT !.file = f].file = f
    BY <1>t DEF Calls
  <2> QED
    BY <1>3, <1>t, <2>1 DEF CloseWrite, InFlight
<1>4. ASSUME NEW t \in Tasks, NEW f \in Files, NEW off \in Offsets, NEW count \in Counts,
             NEW data \in Data, Write(t, f, off, count, data)
      PROVE  FileInv'
  <2>1. [NoCall EXCEPT !.file = f, !.off = off, !.data = data,
                       !.count = Clamp(off, count)].file = f
    BY <1>t DEF Calls
  <2> QED
    BY <1>4, <1>t, <2>1 DEF Write
<1>5. ASSUME NEW t \in Tasks, NEW off \in Offsets, NEW count \in Counts, Read(t, off, count)
      PROVE  FileInv'
  <2>1. [NoCall EXCEPT !.off = off, !.count = count].file = NoFile
    BY <1>t, <1>n DEF Calls
  <2> QED
    BY <1>5, <1>t, <2>1 DEF Read
<1>6. ASSUME NEW t \in Tasks, Acquire(t) PROVE FileInv'
  BY <1>6, <1>t DEF Acquire, OpenLock, RelLock, WriteLock, ReadLock
<1>7. ASSUME NEW t \in Tasks, OpenCheck(t) \/ WriteByte(t) PROVE FileInv'
  <2>1. \A u \in Tasks : call'[u].file = call[u].file
    BY <1>7, <1>t DEF OpenCheck, WriteByte, Calls
  <2> QED
    BY <1>7, <1>t, <2>1 DEF OpenCheck, WriteByte
<1>8. ASSUME NEW t \in Tasks, OpenIncr(t) \/ RelDecr(t) \/ ReadCopy(t) PROVE FileInv'
  BY <1>8, <1>t DEF OpenIncr, RelDecr, ReadCopy
<1>9. ASSUME NEW t \in Tasks, OpenUnlock(t) \/ RelUnlock(t) PROVE FileInv'
  BY <1>9, <1>t, <1>n DEF OpenUnlock, RelUnlock, Return
<1>10. ASSUME NEW t \in Tasks, WriteUnlock(t) \/ ReadUnlock(t) PROVE FileInv'
  BY <1>10, <1>t, <1>n DEF WriteUnlock, ReadUnlock, Return
<1>11. CASE UNCHANGED vars
  BY <1>11, <1>t DEF vars
<1> QED
  BY <1>1, <1>2, <1>3, <1>4, <1>5, <1>6, <1>7, <1>8, <1>9, <1>10, <1>11 DEF Next, Call, Step

\* Between the check of my_write_open and its increment nobody else moves
\* "writers": every other step that writes it holds the same spinlock.
LEMMA CheckPreserved == IInv /\ [Next]_vars => CheckInv'
<1> SUFFICES ASSUME IInv, [Next]_vars PROVE CheckInv'
  OBVIOUS
<1> USE BufferAssumption DEF CheckInv, At, Goto
<1>t. /\ LockInv /\ CheckInv /\ pc \in [Tasks -> Labels] /\ call \in [Tasks -> Calls]
  BY DEF IInv, TypeOK
<1>1. ASSUME NEW t \in Tasks, Call(t) PROVE CheckInv'
  BY <1>1, <1>t DEF Call, OpenReadOnly, OpenWrite, CloseReadOnly, CloseWrite, Write, Read
<1>2. ASSUME NEW t \in Tasks, Acquire(t) PROVE CheckInv'
  BY <1>2, <1>t DEF Acquire, OpenLock, RelLock, WriteLock, ReadLock
<1>3. ASSUME NEW t \in Tasks, OpenCheck(t) PROVE CheckInv'
  BY <1>3, <1>t DEF OpenCheck, Calls
<1>4. ASSUME NEW t \in Tasks, OpenIncr(t) \/ RelDecr(t) PROVE CheckInv'
  <2>1. \A u \in Tasks : pc[u] = "open_incr" => u = t
    BY <1>4, <1>t DEF OpenIncr, RelDecr, LockInv, Spinning
  <2> QED
    BY <1>4, <1>t, <2>1 DEF OpenIncr, RelDecr
<1>5. ASSUME NEW t \in Tasks, WriteByte(t) PROVE CheckInv'
  BY <1>5, <1>t DEF WriteByte
<1>6. ASSUME NEW t \in Tasks, OpenUnlock(t) \/ RelUnlock(t) \/ WriteUnlock(t)
                                \/ ReadCopy(t) \/ ReadUnlock(t)
      PROVE  CheckInv'
  BY <1>6, <1>t DEF OpenUnlock, RelUnlock, WriteUnlock, ReadCopy, ReadUnlock, Return
<1>7. CASE UNCHANGED vars
  BY <1>7, <1>t DEF vars
<1> QED
  BY <1>1, <1>2, <1>3, <1>4, <1>5, <1>6, <1>7 DEF Next, Step

\* The locals of buf_write and buf_read stay what their checks made them.
LEMMA CallPreserved == IInv /\ [Next]_vars => CallInv'
<1> SUFFICES ASSUME IInv, [Next]_vars PROVE CallInv'
  OBVIOUS
<1> USE BufferAssumption DEF CallInv, Writing, Reading, At, Goto
<1>t. /\ CallInv /\ pc \in [Tasks -> Labels] /\ call \in [Tasks -> Calls]
      /\ NoCall \in Calls /\ NoCall.i = 0
  BY NoCallType DEF IInv, TypeOK, NoCall
<1>1. ASSUME NEW t \in Tasks, NEW f \in Files,
             OpenReadOnly(t, f) \/ OpenWrite(t, f) \/ CloseReadOnly(t, f) \/ CloseWrite(t, f)
      PROVE  CallInv'
  BY <1>1, <1>t DEF OpenReadOnly, OpenWrite, CloseReadOnly, CloseWrite
<1>2. ASSUME NEW t \in Tasks, NEW f \in Files, NEW off \in Offsets, NEW count \in Counts,
             NEW data \in Data, Write(t, f, off, count, data)
      PROVE  CallInv'
  <2> DEFINE c == [NoCall EXCEPT !.file = f, !.off = off, !.data = data,
                                 !.count = Clamp(off, count)]
  <2>1. c.off = off /\ c.count = Clamp(off, count) /\ c.i = 0
    BY <1>t DEF Calls
  <2>2. c.off + c.count <= BufLen - 1 /\ c.count <= Chunk
    BY <1>2, <2>1, ClampFits DEF Write
  <2>3. call' = [call EXCEPT ![t] = c] /\ pc' = [pc EXCEPT ![t] = "wr_lock"]
    BY <1>2 DEF Write
  <2> HIDE DEF c
  <2> QED
    BY <1>t, <2>1, <2>2, <2>3
<1>3. ASSUME NEW t \in Tasks, NEW off \in Offsets, NEW count \in Counts, Read(t, off, count)
      PROVE  CallInv'
  <2>1. [NoCall EXCEPT !.off = off, !.count = count].off = off
    BY <1>t DEF Calls
  <2> QED
    BY <1>3, <1>t, <2>1 DEF Read
<1>4. ASSUME NEW t \in Tasks, Acquire(t) PROVE CallInv'
  BY <1>4, <1>t DEF Acquire, OpenLock, RelLock, WriteLock, ReadLock
<1>5. ASSUME NEW t \in Tasks, OpenCheck(t) PROVE CallInv'
  BY <1>5, <1>t DEF OpenCheck
<1>6. ASSUME NEW t \in Tasks, WriteByte(t) PROVE CallInv'
  <2>1. \A u \in Tasks : call'[u].off = call[u].off /\ call'[u].count = call[u].count
    BY <1>6, <1>t DEF WriteByte, Calls
  <2>2. pc[t] = "wr_byte" /\ \A u \in Tasks : u # t => call'[u] = call[u]
    BY <1>6, <1>t DEF WriteByte
  <2> QED
    BY <1>6, <1>t, <2>1, <2>2 DEF WriteByte
<1>7. ASSUME NEW t \in Tasks, OpenIncr(t) \/ RelDecr(t) \/ ReadCopy(t) PROVE CallInv'
  BY <1>7, <1>t DEF OpenIncr, RelDecr, ReadCopy
<1>8. ASSUME NEW t \in Tasks, OpenUnlock(t) \/ RelUnlock(t) \/ WriteUnlock(t) \/ ReadUnlock(t)
      PROVE  CallInv'
  BY <1>8, <1>t DEF OpenUnlock, RelUnlock, WriteUnlock, ReadUnlock, Return
<1>9. CASE UNCHANGED vars
  BY <1>9, <1>t DEF vars
<1> QED
  BY <1>1, <1>2, <1>3, <1>4, <1>5, <1>6, <1>7, <1>8, <1>9 DEF Next, Call, Step

\* A step that moves neither "writers" nor the files it stands for.
LEMMA SameCounted ==
  ASSUME OneWriter, writers' = writers, \A f \in Files : Counted(f)' <=> Counted(f)
  PROVE  OneWriter'
BY DEF OneWriter

\* At most one file is counted and "writers" is their number, after every
\* step of any thread: the code's "allow only one writer".
LEMMA WriterPreserved == IInv /\ [Next]_vars => OneWriter'
<1> SUFFICES ASSUME IInv, [Next]_vars PROVE OneWriter'
  OBVIOUS
<1> USE BufferAssumption DEF Counted, At, Goto
<1>t. /\ FileInv /\ CheckInv /\ OneWriter
      /\ pc \in [Tasks -> Labels] /\ mode \in [Files -> Modes] /\ writers \in Int
      /\ call \in [Tasks -> Calls] /\ NoCall \in Calls /\ NoCall.file \notin Files
  BY NoCallType DEF IInv, TypeOK, NoCall
<1>1. ASSUME NEW t \in Tasks, NEW g \in Files, OpenReadOnly(t, g) \/ CloseReadOnly(t, g)
      PROVE  OneWriter'
  <2>1. \A f \in Files : Counted(f)' <=> Counted(f)
    BY <1>1, <1>t DEF OpenReadOnly, CloseReadOnly
  <2> QED
    BY <1>1, <1>t, <2>1, SameCounted DEF OpenReadOnly, CloseReadOnly
<1>2. ASSUME NEW t \in Tasks, NEW g \in Files, OpenWrite(t, g) PROVE OneWriter'
  <2>1. \A f \in Files : Counted(f)' <=> Counted(f)
    BY <1>2, <1>t DEF OpenWrite
  <2> QED
    BY <1>2, <1>t, <2>1, SameCounted DEF OpenWrite
<1>3. ASSUME NEW t \in Tasks, NEW g \in Files, CloseWrite(t, g) PROVE OneWriter'
  <2>1. [NoCall EXCEPT !.file = g].file = g
    BY <1>t DEF Calls
  <2>2. \A f \in Files : Counted(f)' <=> Counted(f)
    BY <1>3, <1>t, <2>1 DEF CloseWrite
  <2> QED
    BY <1>3, <1>t, <2>2, SameCounted DEF CloseWrite
<1>4. ASSUME NEW t \in Tasks, NEW g \in Files, NEW off \in Offsets, NEW count \in Counts,
             NEW data \in Data, Write(t, g, off, count, data)
      PROVE  OneWriter'
  <2>1. \A f \in Files : Counted(f)' <=> Counted(f)
    BY <1>4, <1>t DEF Write
  <2> QED
    BY <1>4, <1>t, <2>1, SameCounted DEF Write
<1>5. ASSUME NEW t \in Tasks, NEW off \in Offsets, NEW count \in Counts, Read(t, off, count)
      PROVE  OneWriter'
  <2>1. \A f \in Files : Counted(f)' <=> Counted(f)
    BY <1>5, <1>t DEF Read
  <2> QED
    BY <1>5, <1>t, <2>1, SameCounted DEF Read
<1>6. ASSUME NEW t \in Tasks, Acquire(t) PROVE OneWriter'
  <2>1. \A f \in Files : Counted(f)' <=> Counted(f)
    BY <1>6, <1>t DEF Acquire, OpenLock, RelLock, WriteLock, ReadLock
  <2> QED
    BY <1>6, <1>t, <2>1, SameCounted DEF Acquire, OpenLock, RelLock, WriteLock, ReadLock
<1>7. ASSUME NEW t \in Tasks, OpenCheck(t) PROVE OneWriter'
  <2>1. call'[t].dev_unavailable = writers /\ \A u \in Tasks : call'[u].file = call[u].file
    BY <1>7, <1>t DEF OpenCheck, Calls
  <2>2. \A f \in Files : Counted(f)' <=> Counted(f)
    BY <1>7, <1>t, <2>1 DEF OpenCheck
  <2> QED
    BY <1>7, <1>t, <2>2, SameCounted DEF OpenCheck
<1>8. ASSUME NEW t \in Tasks, OpenIncr(t) PROVE OneWriter'
  <2>1. writers = 0 /\ call[t].dev_unavailable = 0 /\ call[t].file \in Files
    BY <1>8, <1>t DEF OpenIncr, CheckInv, FileInv, Opening
  <2>2. \A f \in Files : ~Counted(f)
    BY <2>1, <1>t DEF OneWriter
  <2>3. \A f \in Files : Counted(f)' <=> f = call[t].file
    BY <1>8, <1>t, <2>1, <2>2 DEF OpenIncr
  <2> QED
    BY <1>8, <2>1, <2>3 DEF OpenIncr, OneWriter
<1>9. ASSUME NEW t \in Tasks, RelDecr(t) PROVE OneWriter'
  <2>1. call[t].file \in Files /\ mode[call[t].file] = "closing" /\ Counted(call[t].file)
    BY <1>9, <1>t DEF RelDecr, FileInv, Closing
  <2>2. writers = 1 /\ \A f \in Files : Counted(f) => f = call[t].file
    BY <2>1, <1>t DEF OneWriter
  <2>3. \A f \in Files : ~Counted(f)'
    BY <1>9, <1>t, <2>1, <2>2 DEF RelDecr, FileInv, Opening, Closing
  <2> QED
    BY <1>9, <2>2, <2>3 DEF RelDecr, OneWriter
<1>10. ASSUME NEW t \in Tasks, OpenUnlock(t) PROVE OneWriter'
  <2>1. call[t].file \in Files /\ mode[call[t].file] = "opening"
    BY <1>10, <1>t DEF OpenUnlock, FileInv, Opening
  <2>2. \A f \in Files : Counted(f)' <=> Counted(f)
    BY <1>10, <1>t, <2>1 DEF OpenUnlock, Return, FileInv, Opening, Closing, Modes
  <2> QED
    BY <1>10, <1>t, <2>2, SameCounted DEF OpenUnlock
<1>11. ASSUME NEW t \in Tasks, RelUnlock(t) PROVE OneWriter'
  <2>1. call[t].file \in Files /\ mode[call[t].file] = "closing"
    BY <1>11, <1>t DEF RelUnlock, FileInv, Closing
  <2>2. \A f \in Files : Counted(f)' <=> Counted(f)
    BY <1>11, <1>t, <2>1 DEF RelUnlock, Return
  <2> QED
    BY <1>11, <1>t, <2>2, SameCounted DEF RelUnlock
<1>12. ASSUME NEW t \in Tasks, WriteByte(t) PROVE OneWriter'
  <2>1. pc[t] = "wr_byte" /\ \A u \in Tasks : u # t => call'[u] = call[u]
    BY <1>12, <1>t DEF WriteByte
  <2>2. \A f \in Files : Counted(f)' <=> Counted(f)
    BY <1>12, <1>t, <2>1 DEF WriteByte
  <2> QED
    BY <1>12, <1>t, <2>2, SameCounted DEF WriteByte
<1>13. ASSUME NEW t \in Tasks, WriteUnlock(t) \/ ReadCopy(t) \/ ReadUnlock(t) PROVE OneWriter'
  <2>1. \A f \in Files : Counted(f)' <=> Counted(f)
    BY <1>13, <1>t DEF WriteUnlock, ReadCopy, ReadUnlock, Return
  <2> QED
    BY <1>13, <1>t, <2>1, SameCounted DEF WriteUnlock, ReadCopy, ReadUnlock
<1>14. CASE UNCHANGED vars
  <2>1. \A f \in Files : Counted(f)' <=> Counted(f)
    BY <1>14, <1>t DEF vars
  <2> QED
    BY <1>14, <1>t, <2>1, SameCounted DEF vars
<1> QED
  BY <1>1, <1>2, <1>3, <1>4, <1>5, <1>6, <1>7, <1>8, <1>9, <1>10, <1>11, <1>12, <1>13, <1>14
  DEF Next, Call, Step

--------------------------------------------------------------------------------
\* The driver starts with no writer, no lock held and no call in flight.
LEMMA InitInv == Init => IInv
<1> SUFFICES ASSUME Init PROVE IInv
  OBVIOUS
<1> USE BufferAssumption DEF Init
<1>1. TypeOK
  <2>1. [j \in {} |-> 0] \in Replies
    <3>1. [j \in {} |-> 0] \in [0 .. 0 - 1 -> Bytes]
      OBVIOUS
    <3> QED
      BY <3>1 DEF Replies
  <2> QED
    BY <2>1, NoCallType DEF TypeOK, Modes, Labels, Index
<1>2. LockInv /\ CheckInv /\ CallInv
  BY DEF LockInv, Spinning, InMutex, CheckInv, CallInv, Writing, Reading
<1>3. FileInv
  BY DEF FileInv, Opening, Closing, Writing, Reading, NoCall
<1>4. OneWriter
  BY DEF OneWriter, Counted
<1> QED
  BY <1>1, <1>2, <1>3, <1>4 DEF IInv

\* The strengthened invariant holds in every reachable state of the driver.
THEOREM Invariance == Spec => []IInv
<1>1. IInv /\ [Next]_vars => IInv'
  BY TypePreserved, LockPreserved, FilePreserved, CheckPreserved, CallPreserved,
     WriterPreserved DEF IInv
<1> QED
  BY InitInv, <1>1, PTL DEF Spec

\* Every variable of the driver stays within its type; in particular a read
\* never returns more bytes than the buffer has.
THEOREM TypeCorrect == Spec => []TypeOK
<1>1. IInv => TypeOK
  BY DEF IInv
<1> QED
  BY Invariance, <1>1, PTL

\* my_write_open admits one writer at a time and "writers" does not drift,
\* for any number of threads and files.
THEOREM AtMostOneWriter == Spec => []OneWriter
<1>1. IInv => OneWriter
  BY DEF IInv
<1> QED
  BY Invariance, <1>1, PTL

\* buf_write stores inside the buffer, below its last byte, for every offset
\* and count it can be called with.
THEOREM StoresInBounds == Spec => []StoresBelowLastByte
<1>1. IInv => StoresBelowLastByte
  <2> SUFFICES ASSUME IInv, NEW t \in Tasks, pc[t] = "wr_byte", call[t].i < call[t].count
               PROVE  call[t].off + call[t].i \in 0 .. BufLen - 2
    BY DEF StoresBelowLastByte
  <2>1. call[t] \in Calls /\ call[t].off + call[t].count <= BufLen - 1
    BY DEF IInv, TypeOK, CallInv, Writing
  <2> QED
    BY <2>1, BufferAssumption DEF Calls
<1> QED
  BY Invariance, <1>1, PTL

--------------------------------------------------------------------------------
(***************************************************************************)
(* The refinement.  A chunk is stored, abstractly, when its writer takes   *)
(* buf_mutex; the bytes it then stores one by one change nothing, because  *)
(* Committed already shows them.                                           *)
(***************************************************************************)
Storing(t) == t \in Tasks /\ pc[t] = "wr_byte"
WriterSet  == {f \in Files : mode[f] = "w"}

\* While nobody is between WriteLock and WriteUnlock the buffer is committed.
LEMMA CommittedIdle ==
  ASSUME TypeOK, ~Storing(buf_mutex)
  PROVE  Committed = buffer
BY DEF Committed, Storing, TypeOK, Index

\* A step that leaves the buffer, its lock and the writer holding it alone
\* leaves the committed contents alone.
LEMMA CommittedSame ==
  ASSUME buffer' = buffer, buf_mutex' = buf_mutex,
         Storing(buf_mutex)' <=> Storing(buf_mutex),
         Storing(buf_mutex) => call'[buf_mutex] = call[buf_mutex]
  PROVE  Committed' = Committed
BY DEF Committed, Storing

\* Every step of a thread is a step of the atomic buffer, or none.
LEMMA StepRefines == IInv /\ [Next]_vars => [Abstract!Next]_(Abstract!vars)
<1> SUFFICES ASSUME IInv, [Next]_vars
             PROVE  \/ Abstract!Next
                    \/ Committed' = Committed /\ WriterSet' = WriterSet /\ reply' = reply
  BY DEF Abstract!vars, WriterSet
<1> USE BufferAssumption DEF At, Goto
<1>t. /\ TypeOK /\ LockInv /\ FileInv /\ CallInv /\ OneWriter
      /\ pc \in [Tasks -> Labels] /\ mode \in [Files -> Modes]
      /\ call \in [Tasks -> Calls] /\ buffer \in [Index -> Bytes]
  BY DEF IInv, TypeOK
<1>1. ASSUME NEW t \in Tasks, NEW g \in Files,
             OpenReadOnly(t, g) \/ OpenWrite(t, g) \/ CloseReadOnly(t, g)
      PROVE  Committed' = Committed /\ WriterSet' = WriterSet /\ reply' = reply
  <2>1. Committed' = Committed
    BY <1>1, <1>t, CommittedSame DEF Storing, OpenReadOnly, OpenWrite, CloseReadOnly
  <2>2. WriterSet' = WriterSet /\ reply' = reply
    BY <1>1, <1>t DEF WriterSet, OpenReadOnly, OpenWrite, CloseReadOnly
  <2> QED
    BY <2>1, <2>2
<1>2. ASSUME NEW t \in Tasks, NEW g \in Files, CloseWrite(t, g)
      PROVE  Abstract!Close(g)
  <2>1. Committed' = Committed
    BY <1>2, <1>t, CommittedSame DEF Storing, CloseWrite
  <2>2. WriterSet = {g}
    BY <1>2, <1>t DEF WriterSet, CloseWrite, OneWriter, Counted
  <2>3. WriterSet' = {}
    BY <1>2, <1>t, <2>2 DEF WriterSet, CloseWrite
  <2> QED
    BY <1>2, <2>1, <2>2, <2>3 DEF WriterSet, CloseWrite, Abstract!Close
<1>3. ASSUME NEW t \in Tasks, OpenUnlock(t), call[t].dev_unavailable = 0
      PROVE  Abstract!Open(call[t].file)
  <2> DEFINE g == call[t].file
  <2>1. g \in Files /\ mode[g] = "opening" /\ Counted(g)
    BY <1>3, <1>t DEF OpenUnlock, FileInv, Opening, Counted
  <2>2. WriterSet = {}
    BY <2>1, <1>t DEF WriterSet, OneWriter, Counted
  <2>3. WriterSet' = {g}
    BY <1>3, <1>t, <2>1, <2>2 DEF WriterSet, OpenUnlock
  <2>4. Committed' = Committed
    BY <1>3, <1>t, CommittedSame DEF Storing, OpenUnlock, Return
  <2> QED
    BY <1>3, <2>2, <2>3, <2>4 DEF WriterSet, OpenUnlock, Abstract!Open
<1>4. ASSUME NEW t \in Tasks,
             \/ OpenUnlock(t) /\ call[t].dev_unavailable # 0
             \/ RelUnlock(t)
      PROVE  Committed' = Committed /\ WriterSet' = WriterSet /\ reply' = reply
  <2>1. call[t].file \in Files /\ mode[call[t].file] \in {"opening", "closing"}
    BY <1>4, <1>t DEF OpenUnlock, RelUnlock, FileInv, Opening, Closing
  <2>2. WriterSet' = WriterSet /\ reply' = reply
    BY <1>4, <1>t, <2>1 DEF WriterSet, OpenUnlock, RelUnlock
  <2>3. Committed' = Committed
    BY <1>4, <1>t, CommittedSame DEF Storing, OpenUnlock, RelUnlock, Return
  <2> QED
    BY <2>2, <2>3
<1>5. ASSUME NEW t \in Tasks,
             \/ OpenLock(t) \/ RelLock(t) \/ OpenCheck(t) \/ OpenIncr(t) \/ RelDecr(t)
      PROVE  Committed' = Committed /\ WriterSet' = WriterSet /\ reply' = reply
  <2>1. Committed' = Committed
    BY <1>5, <1>t, CommittedSame DEF Storing, OpenLock, RelLock, OpenCheck, OpenIncr, RelDecr
  <2>2. WriterSet' = WriterSet /\ reply' = reply
    BY <1>5, <1>t DEF WriterSet, OpenLock, RelLock, OpenCheck, OpenIncr, RelDecr
  <2> QED
    BY <2>1, <2>2
<1>6. ASSUME NEW t \in Tasks, NEW g \in Files, NEW off \in Offsets, NEW count \in Counts,
             NEW data \in Data, Write(t, g, off, count, data)
      PROVE  Committed' = Committed /\ WriterSet' = WriterSet /\ reply' = reply
  <2>1. Committed' = Committed
    BY <1>6, <1>t, CommittedSame DEF Storing, Write
  <2> QED
    BY <1>6, <2>1 DEF WriterSet, Write
<1>7. ASSUME NEW t \in Tasks, NEW off \in Offsets, NEW count \in Counts, Read(t, off, count)
      PROVE  Committed' = Committed /\ WriterSet' = WriterSet /\ reply' = reply
  <2>1. Committed' = Committed
    BY <1>7, <1>t, CommittedSame DEF Storing, Read
  <2> QED
    BY <1>7, <2>1 DEF WriterSet, Read
<1>8. ASSUME NEW t \in Tasks, WriteLock(t)
      PROVE  Abstract!Store(call[t].off, call[t].count, call[t].data)
  <2>1. /\ call[t] \in Calls /\ call[t].i = 0 /\ call[t].off + call[t].count <= BufLen - 1
        /\ mode[call[t].file] = "w" /\ call[t].file \in Files
    BY <1>8, <1>t DEF WriteLock, CallInv, FileInv, Writing
  <2>2. Committed = buffer
    BY <1>8, <1>t, CommittedIdle DEF WriteLock, Storing
  <2>3. Committed' = [j \in Index |-> IF j \in call[t].off .. call[t].off + call[t].count - 1
                                     THEN call[t].data[j - call[t].off] ELSE buffer[j]]
    <3>1. buf_mutex' = t /\ pc'[t] = "wr_byte" /\ call' = call /\ buffer' = buffer
      BY <1>8, <1>t DEF WriteLock
    <3>2. call[t].off + call[t].i = call[t].off
      BY <2>1 DEF Calls
    <3> QED
      BY <3>1, <3>2 DEF Committed
  <2>4. WriterSet # {} /\ WriterSet' = WriterSet /\ reply' = reply
    BY <1>8, <2>1 DEF WriterSet, WriteLock
  <2> QED
    BY <2>1, <2>2, <2>3, <2>4 DEF WriterSet, Abstract!Store, Abstract!Index, Index
<1>9. ASSUME NEW t \in Tasks, WriteByte(t)
      PROVE  Committed' = Committed /\ WriterSet' = WriterSet /\ reply' = reply
  <2>1. /\ buf_mutex = t /\ pc[t] = "wr_byte" /\ pc' = pc /\ buf_mutex' = buf_mutex
        /\ call[t] \in Calls /\ call[t].i < call[t].count
        /\ call[t].off + call[t].count <= BufLen - 1
    BY <1>9, <1>t DEF WriteByte, LockInv, InMutex, CallInv, Writing
  <2>2. /\ call'[t].off = call[t].off /\ call'[t].count = call[t].count
        /\ call'[t].data = call[t].data /\ call'[t].i = call[t].i + 1
    BY <1>9, <1>t DEF WriteByte, Calls
  <2>3. buffer' = [buffer EXCEPT ![call[t].off + call[t].i] = call[t].data[call[t].i]]
    BY <1>9 DEF WriteByte
  <2> DEFINE o == call[t].off  n == call[t].count  d == call[t].data  i == call[t].i
  <2>4. Committed = [j \in Index |-> IF j \in o + i .. o + n - 1 THEN d[j - o] ELSE buffer[j]]
    BY <2>1 DEF Committed
  <2>5. Committed' = [j \in Index |-> IF j \in o + (i + 1) .. o + n - 1
                                     THEN d[j - o] ELSE buffer'[j]]
    BY <2>1, <2>2 DEF Committed
  <2>6. o \in Nat /\ n \in Nat /\ i \in Nat /\ i < n /\ o + n <= BufLen - 1
    BY <2>1 DEF Calls
  <2>7. ASSUME NEW j \in Index
        PROVE  (IF j \in o + (i + 1) .. o + n - 1 THEN d[j - o] ELSE buffer'[j])
               = (IF j \in o + i .. o + n - 1 THEN d[j - o] ELSE buffer[j])
    <3>1. CASE j = o + i
      <4>1. j - o = i /\ buffer'[j] = d[i]
        BY <3>1, <2>3, <2>6, <1>t
      <4> QED
        BY <4>1, <3>1, <2>6
    <3>2. CASE j # o + i
      <4>1. buffer'[j] = buffer[j]
        BY <3>2, <2>3, <1>t
      <4>2. j \in Int
        BY DEF Index
      <4> QED
        BY <4>1, <4>2, <3>2, <2>6
    <3> QED
      BY <3>1, <3>2
  <2>8. Committed' = Committed
    BY <2>4, <2>5, <2>7
  <2> QED
    BY <1>9, <2>8 DEF WriteByte, WriterSet
<1>10. ASSUME NEW t \in Tasks, WriteUnlock(t)
       PROVE  Committed' = Committed /\ WriterSet' = WriterSet /\ reply' = reply
  <2>1. buf_mutex = t /\ call[t] \in Calls /\ call[t].i >= call[t].count
    BY <1>10, <1>t DEF WriteUnlock, LockInv, InMutex
  <2>2. call[t].off + call[t].i .. call[t].off + call[t].count - 1 = {}
    BY <2>1 DEF Calls
  <2>3. Committed = buffer
    BY <2>1, <2>2, <1>t DEF Committed
  <2>4. buf_mutex' = NoTask /\ buffer' = buffer
    BY <1>10 DEF WriteUnlock
  <2>5. Committed' = buffer'
    BY <2>4, <1>t DEF Committed
  <2> QED
    BY <1>10, <2>3, <2>4, <2>5 DEF WriteUnlock, WriterSet
<1>11. ASSUME NEW t \in Tasks, ReadLock(t) \/ ReadUnlock(t)
       PROVE  Committed' = Committed /\ WriterSet' = WriterSet /\ reply' = reply
  <2>1. ~Storing(buf_mutex) /\ ~Storing(buf_mutex)'
    BY <1>11, <1>t DEF Storing, ReadLock, ReadUnlock, Return, LockInv, InMutex
  <2>2. Committed = buffer
    BY <2>1, <1>t, CommittedIdle
  <2>3. buffer' = buffer
    BY <1>11 DEF ReadLock, ReadUnlock
  <2>4. Committed' = buffer'
    BY <2>1, <2>3, <1>t DEF Committed, Storing
  <2> QED
    BY <1>11, <2>2, <2>3, <2>4 DEF ReadLock, ReadUnlock, WriterSet
<1>12. ASSUME NEW t \in Tasks, ReadCopy(t)
       PROVE  \E off \in Index, k \in 0 .. BufLen : Abstract!Load(t, off, k)
  <2> DEFINE room == BufLen - call[t].off
             n    == IF call[t].count > room THEN room ELSE call[t].count
  <2>1. PICK k \in 0 .. n : reply' = [reply EXCEPT ![t] =
                                       [j \in 0 .. k - 1 |-> buffer[call[t].off + j]]]
    BY <1>12 DEF ReadCopy
  <2>2. call[t] \in Calls /\ call[t].off <= BufLen - 1
    BY <1>12, <1>t DEF ReadCopy, CallInv, Reading
  <2>3. call[t].off \in Index /\ k \in 0 .. BufLen /\ call[t].off + k <= BufLen
    BY <2>2 DEF Calls, Index
  <2>4. ~Storing(buf_mutex)
    BY <1>12, <1>t DEF Storing, ReadCopy, LockInv, InMutex
  <2>5. Committed = buffer
    BY <2>4, <1>t, CommittedIdle
  <2>6. Committed' = Committed
    BY <1>12, <1>t, <2>4, CommittedSame DEF ReadCopy, Storing
  <2> QED
    BY <1>12, <2>1, <2>3, <2>5, <2>6 DEF ReadCopy, Abstract!Load, WriterSet
<1>13. CASE UNCHANGED vars
  BY <1>13 DEF vars, Committed, WriterSet
<1>14. ASSUME NEW t \in Tasks, Call(t) \/ Acquire(t) \/ Step(t)
       PROVE  \/ Abstract!Next
              \/ Committed' = Committed /\ WriterSet' = WriterSet /\ reply' = reply
  <2>1. CASE Call(t)
    BY <2>1, <1>1, <1>2, <1>6, <1>7 DEF Call, Abstract!Next
  <2>2. CASE WriteLock(t)
    <3>1. /\ call[t].off \in Abstract!Index /\ call[t].count \in 0 .. Chunk
          /\ call[t].data \in [0 .. Chunk - 1 -> Bytes]
      <4>1. call[t] \in Calls /\ call[t].off + call[t].count <= BufLen - 1
            /\ call[t].count <= Chunk
        BY <2>2, <1>t DEF WriteLock, CallInv, Writing
      <4> QED
        BY <4>1 DEF Calls, Data, Abstract!Index
    <3> QED
      BY <3>1, <2>2, <1>8 DEF Abstract!Next
  <2>3. CASE OpenLock(t) \/ RelLock(t) \/ ReadLock(t)
    BY <2>3, <1>5, <1>11
  <2>4. CASE OpenUnlock(t)
    <3>1. call[t].file \in Files
      BY <2>4, <1>t DEF OpenUnlock, FileInv, Opening
    <3>2. CASE call[t].dev_unavailable = 0
      <4>1. PICK f \in Files : f = call[t].file
        BY <3>1
      <4>2. Abstract!Open(f)
        BY <2>4, <3>2, <4>1, <1>3 DEF Abstract!Open
      <4> QED
        BY <4>2 DEF Abstract!Next
    <3>3. CASE call[t].dev_unavailable # 0
      BY <2>4, <3>3, <1>4
    <3> QED
      BY <3>2, <3>3
  <2>5. CASE ReadCopy(t)
    BY <2>5, <1>12 DEF Abstract!Next, Abstract!Index, Index
  <2>6. CASE OpenCheck(t) \/ OpenIncr(t) \/ RelDecr(t) \/ RelUnlock(t) \/ WriteByte(t)
             \/ WriteUnlock(t) \/ ReadUnlock(t)
    BY <2>6, <1>4, <1>5, <1>9, <1>10, <1>11
  <2> QED
    BY <1>14, <2>1, <2>2, <2>3, <2>4, <2>5, <2>6 DEF Acquire, Step
<1> QED
  BY <1>13, <1>14 DEF Next

\* The pair of devices implements the atomic buffer, for any number of
\* threads and files and any buffer and chunk length.
THEOREM Refinement == Spec => ImplementsAtomicBuffer
<1>1. Init => Abstract!Init
  BY DEF Init, Abstract!Init, Committed, Index, Abstract!Index, BufferAssumption
<1> QED
  BY <1>1, StepRefines, Invariance, PTL DEF Spec, ImplementsAtomicBuffer, Abstract!Spec

================================================================================
