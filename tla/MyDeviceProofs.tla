----------------------------- MODULE MyDeviceProofs -----------------------------
(***************************************************************************)
(* Proofs about MyDevice, for every number of threads and files: the state *)
(* is well typed and my_device keeps the promise of DeviceState.           *)
(*                                                                         *)
(* That the counter is the number of opened instances is not inductive,    *)
(* since the count is loaded and stored apart.  LockInv says who is inside *)
(* the critical sections, so that LocalInv can say that what was loaded is *)
(* still the count when it is stored; FileInv says that a file is opened   *)
(* or released by one call at a time, so that the stored count is right.   *)
(***************************************************************************)
EXTENDS MyDevice, FiniteSetTheorems, TLAPS

\* Inside the critical sections of count_lock and of char_lock.
CountHeld == {"open_load", "open_store", "open_unlock", "rel_load", "rel_store", "rel_unlock"}
CharHeld  == {"set", "set_unlock", "copy", "copy_unlock"}

\* Inside my_open and my_release, and where the file counts as opened.
InOpen    == {"open_lock", "open_load", "open_store", "open_unlock"}
InRelease == {"rel_lock", "rel_load", "rel_store", "rel_unlock"}
Counted   == {"open_unlock", "rel_lock", "rel_load", "rel_store"}

Setting   == {"set_lock", "set", "set_unlock"}
Getting   == {"copy_lock", "copy", "copy_unlock", "return"}

\* A lock is held by the thread that is inside its critical section.
LockInv ==
  \A t \in Tasks : /\ pc[t] \in CountHeld <=> count_lock = t
                   /\ pc[t] \in CharHeld <=> char_lock = t

\* my_open and my_release have a file, in the right state and to themselves.
FileInv ==
  /\ \A t \in Tasks :
       /\ pc[t] \in InOpen => call[t].file \in Files /\ mode[call[t].file] = "opening"
       /\ pc[t] \in InRelease => call[t].file \in Files /\ mode[call[t].file] = "closing"
  /\ \A t, s \in Tasks : pc[t] \in InOpen \cup InRelease /\ pc[s] \in InOpen \cup InRelease
                           /\ call[t].file = call[s].file => t = s

\* What a call keeps to itself.
LocalInv ==
  \A t \in Tasks :
    /\ pc[t] \in {"open_store", "rel_store"} => call[t].local = count
    /\ pc[t] \in {"copy_unlock", "return"} => call[t].local \in 1 .. 4
    /\ pc[t] \in Setting => call[t].arg \in 1 .. 4
    /\ pc[t] \in Getting => call[t].op \in {"read", "ioctl"}

CountInv == count = Cardinality(Opened)

DevInv == TypeOK /\ LockInv /\ FileInv /\ LocalInv /\ CountInv

--------------------------------------------------------------------------------
\* What a step of thread t leaves alone: the calls of the others.
Others(t) == \A s \in Tasks \ {t} : pc'[s] = pc[s] /\ call'[s] = call[s] /\ reply'[s] = reply[s]

\* Nothing is open and nobody calls before the first step.
LEMMA DevInit == Init => DevInv /\ Abstract!Init
<1> SUFFICES ASSUME Init PROVE DevInv /\ Abstract!Init
  OBVIOUS
<1>1. Opened = {}
  BY DEF Init, Opened
<1>2. TypeOK
  <2>1. NoCall \in Calls /\ [str |-> "none", ret |-> 0] \in
          [str : {"none", "A", "Ah", "Aho", "Ahoj"}, ret : Nat \cup {-14}]
    BY DEF Calls, NoCall
  <2> QED
    BY <2>1 DEF Init, TypeOK, Modes, Labels
<1>3. LockInv /\ FileInv /\ LocalInv
  BY DeviceAssumption DEF Init, LockInv, FileInv, LocalInv, CountHeld, CharHeld, InOpen, InRelease,
     Setting, Getting
<1>4. CountInv
  BY <1>1, FS_EmptySet DEF Init, CountInv
<1>5. Answered = [t \in Tasks |-> [str |-> "none", ret |-> 0]]
  BY DEF Init, Answered
<1> QED
  BY <1>1, <1>2, <1>3, <1>4, <1>5 DEF Init, DevInv, Abstract!Init, Abstract!NoReply

\* The opened instances are finitely many.
LEMMA OpenedFinite == IsFiniteSet(Opened) /\ Cardinality(Opened) \in Nat
<1>1. Opened \subseteq Files
  BY DEF Opened
<1> QED
  BY <1>1, DeviceAssumption, FS_Subset, FS_CardinalityType

\* A step that keeps a call in or out of Counted, with its file, opens nothing.
LEMMA OpenedStands ==
  ASSUME NEW t \in Tasks, Others(t), mode' = mode,
         pc[t] \in Counted <=> pc'[t] \in Counted,
         pc[t] \in Counted => call'[t].file = call[t].file
  PROVE  Opened' = Opened
BY DEF Opened, Others, Counted

\* A step that keeps a call before or after its copy, with its answer, answers
\* nothing.
LEMMA AnswersStand ==
  ASSUME NEW t \in Tasks, Others(t), reply'[t] = reply[t],
         pc[t] \in {"copy_unlock", "return"} <=> pc'[t] \in {"copy_unlock", "return"},
         pc[t] \in {"copy_unlock", "return"} =>
           call'[t].op = call[t].op /\ call'[t].local = call[t].local
  PROVE  Answered' = Answered
BY DEF Answered, Others, Result

\* A step that changes the answer of one call changes no other.
LEMMA AnswerOf ==
  ASSUME NEW t \in Tasks, Others(t), NEW r,
         r = IF pc'[t] \in {"copy_unlock", "return"}
             THEN Result(call'[t].op, Word(call'[t].local), call'[t].local) ELSE reply'[t]
  PROVE  Answered' = [Answered EXCEPT ![t] = r]
<1>1. \A s \in Tasks \ {t} : Answered'[s] = Answered[s]
  BY DEF Answered, Others
<1>2. Answered'[t] = r
  BY DEF Answered
<1>3. /\ Answered' = [s \in Tasks |-> Answered'[s]]
      /\ Answered = [s \in Tasks |-> Answered[s]]
  BY DEF Answered
<1> QED
  BY <1>1, <1>2, <1>3

--------------------------------------------------------------------------------
(* my_open and my_release *)

\* Entering my_open or my_release: the file was nobody's, and a file that is
\* released counts until the count is stored.
LEMMA EnterFile ==
  ASSUME DevInv, NEW t \in Tasks, NEW f \in Files, Open(t, f) \/ Release(t, f)
  PROVE  DevInv' /\ UNCHANGED Abstract!vars
<1> DEFINE label == IF Open(t, f) THEN "open_lock" ELSE "rel_lock"
           life == IF Open(t, f) THEN "opening" ELSE "closing"
<1>1. /\ pc[t] = "idle" /\ pc' = [pc EXCEPT ![t] = label]
      /\ call' = [call EXCEPT ![t] = [NoCall EXCEPT !.file = f]]
      /\ mode[f] = IF Open(t, f) THEN "closed" ELSE "open"
      /\ mode' = [mode EXCEPT ![f] = life]
      /\ UNCHANGED <<count, count_lock, char_count, char_lock, reply>>
  BY DEF Open, Release, Enter, Move, Goto, charVars
<1>2. [NoCall EXCEPT !.file = f] \in Calls /\ [NoCall EXCEPT !.file = f].file = f
  BY DEF Calls, NoCall
<1>3. label \in {"open_lock", "rel_lock"} /\ life \in {"opening", "closing"}
  OBVIOUS
<1>4. Others(t) /\ call'[t].file = f /\ pc'[t] = label
  BY <1>1, <1>2 DEF Others, DevInv, TypeOK
<1>5. TypeOK'
  BY <1>1, <1>2, <1>3 DEF DevInv, TypeOK, Labels, Modes
<1>6. LockInv' /\ LocalInv'
  BY <1>1, <1>3, <1>4 DEF DevInv, LockInv, LocalInv, Others, CountHeld, CharHeld, Setting, Getting
<1>7. \A s \in Tasks : pc[s] \in InOpen \cup InRelease => call[s].file # f
  BY <1>1 DEF DevInv, FileInv
<1>8. FileInv'
  <2>1. \A s \in Tasks \ {t} : pc[s] \in InOpen \cup InRelease
                                => mode'[call[s].file] = mode[call[s].file]
    BY <1>1, <1>7 DEF DevInv, TypeOK, FileInv
  <2>2. /\ label \in InOpen => mode'[f] = "opening"
        /\ label \in InRelease => mode'[f] = "closing"
    BY <1>1 DEF DevInv, TypeOK, InOpen, InRelease
  <2> HIDE DEF label, life
  <2> QED
    BY <1>1, <1>4, <1>7, <2>1, <2>2 DEF DevInv, FileInv, Others
<1>9. Opened' = Opened
  <2>1. \A g \in Files \ {f} : mode'[g] = mode[g]
    BY <1>1 DEF DevInv, TypeOK
  <2>2. f \in Opened <=> f \in Opened'
    <3>1. CASE Open(t, f)
      BY <1>1, <1>4, <1>7, <3>1 DEF Opened, Others, DevInv, TypeOK, InOpen, InRelease
    <3>2. CASE ~Open(t, f)
      BY <1>1, <1>4, <3>2 DEF Opened
    <3> QED
      BY <3>1, <3>2
  <2>3. \A g \in Files \ {f} : g \in Opened <=> g \in Opened'
    <3> HIDE DEF label, life
    <3> QED
      BY <1>1, <1>4, <2>1 DEF Opened, Others
  <2> QED
    BY <2>2, <2>3 DEF Opened
<1>10. Answered' = Answered
  BY <1>1, <1>3, <1>4, AnswersStand
<1> QED
  BY <1>1, <1>5, <1>6, <1>8, <1>9, <1>10 DEF DevInv, CountInv, Abstract!vars

\* Taking count_lock, and loading the count under it.
LEMMA LockAndLoad ==
  ASSUME DevInv, NEW t \in Tasks,
         \/ OpenLock(t) \/ RelLock(t)
         \/ (OpenIncr(t) /\ pc[t] = "open_load")
         \/ (RelDecr(t) /\ pc[t] = "rel_load")
  PROVE  DevInv' /\ UNCHANGED Abstract!vars
<1> DEFINE label == CASE pc[t] = "open_lock" -> "open_load" [] pc[t] = "rel_lock" -> "rel_load"
                      [] pc[t] = "open_load" -> "open_store" [] OTHER -> "rel_store"
<1>1. /\ pc[t] \in {"open_lock", "rel_lock", "open_load", "rel_load"}
      /\ pc' = [pc EXCEPT ![t] = label]
      /\ UNCHANGED <<count, mode, char_count, char_lock, reply>>
  BY DEF OpenLock, RelLock, OpenIncr, RelDecr, Move, Goto, charVars
<1>2. /\ call' = IF pc[t] \in {"open_load", "rel_load"} THEN [call EXCEPT ![t].local = count] ELSE call
      /\ count_lock' = t /\ (count_lock = NoTask \/ count_lock = t)
  BY DEF OpenLock, RelLock, OpenIncr, RelDecr, Move, Goto, Keep, DevInv, LockInv, CountHeld
<1>3. /\ Others(t) /\ call'[t].file = call[t].file /\ call' \in [Tasks -> Calls]
      /\ label \in {"open_store", "rel_store"} => call'[t].local = count
      /\ pc'[t] = label /\ label \in {"open_load", "rel_load", "open_store", "rel_store"}
  <2>1. label \in {"open_load", "rel_load", "open_store", "rel_store"}
    BY <1>1
  <2>2. label \in {"open_store", "rel_store"} => pc[t] \in {"open_load", "rel_load"}
    BY <1>1
  <2> HIDE DEF label
  <2>3. pc'[t] = label /\ \A s \in Tasks \ {t} : pc'[s] = pc[s]
    BY <1>1 DEF DevInv, TypeOK
  <2>4. CASE pc[t] \in {"open_load", "rel_load"}
    <3>1. call' = [call EXCEPT ![t].local = count]
      BY <1>2, <2>4
    <3>2. count \in Int /\ call \in [Tasks -> Calls]
      BY DEF DevInv, TypeOK
    <3>3. /\ call'[t].file = call[t].file /\ call'[t].local = count /\ call' \in [Tasks -> Calls]
          /\ \A s \in Tasks \ {t} : call'[s] = call[s]
      BY <3>1, <3>2 DEF Calls
    <3> QED
      BY <1>1, <2>1, <2>3, <3>3 DEF Others
  <2>5. CASE pc[t] \notin {"open_load", "rel_load"}
    BY <1>1, <1>2, <2>1, <2>2, <2>3, <2>5 DEF Others, DevInv, TypeOK
  <2> QED
    BY <2>4, <2>5
<1>4. TypeOK'
  BY <1>1, <1>2, <1>3 DEF DevInv, TypeOK, Labels
<1>5. LockInv'
  BY <1>1, <1>2, <1>3, DeviceAssumption DEF DevInv, LockInv, Others, CountHeld, CharHeld
<1>6. label \in InOpen <=> pc[t] \in InOpen
  BY <1>1 DEF InOpen
<1>7. label \in InRelease <=> pc[t] \in InRelease
  BY <1>1 DEF InRelease
<1>8. label \in Counted <=> pc[t] \in Counted
  BY <1>1 DEF Counted
<1> HIDE DEF label
<1>9. FileInv'
  BY <1>1, <1>3, <1>6, <1>7 DEF DevInv, FileInv, Others
<1>10. LocalInv'
  BY <1>1, <1>3 DEF DevInv, LocalInv, Others, Setting, Getting
<1>11. Opened' = Opened
  BY <1>1, <1>3, <1>8, OpenedStands
<1>12. Answered' = Answered
  BY <1>1, <1>3, AnswersStand
<1> QED
  BY <1>1, <1>4, <1>5, <1>9, <1>10, <1>11, <1>12 DEF DevInv, CountInv, Abstract!vars

\* Nobody else is between the load and the store of the count.
LEMMA Alone ==
  ASSUME DevInv, NEW t \in Tasks, pc[t] \in CountHeld, NEW s \in Tasks, pc[s] \in CountHeld
  PROVE  s = t
BY DEF DevInv, LockInv

\* Storing the count adds a file that was not opened, or removes one that was.
LEMMA Stores ==
  ASSUME DevInv, NEW t \in Tasks,
         (OpenIncr(t) /\ pc[t] = "open_store") \/ (RelDecr(t) /\ pc[t] = "rel_store")
  PROVE  DevInv' /\ \E f \in Files : Abstract!Open(f) \/ Abstract!Close(f)
<1> DEFINE f == call[t].file
           label == IF pc[t] = "open_store" THEN "open_unlock" ELSE "rel_unlock"
<1>1. /\ pc[t] \in {"open_store", "rel_store"} /\ pc' = [pc EXCEPT ![t] = label]
      /\ count' = IF pc[t] = "open_store" THEN call[t].local + 1 ELSE call[t].local - 1
      /\ UNCHANGED <<count_lock, mode, char_count, char_lock, call, reply>>
  BY DEF OpenIncr, RelDecr, Move, Goto, charVars
<1>2. /\ Others(t) /\ pc'[t] = label /\ f \in Files /\ call[t].local = count
      /\ mode[f] = IF pc[t] = "open_store" THEN "opening" ELSE "closing"
  BY <1>1 DEF Others, DevInv, TypeOK, LocalInv, FileInv, InOpen, InRelease
<1>3. \A s \in Tasks \ {t} : pc[s] \in InOpen \cup InRelease => call[s].file # f
  BY <1>1 DEF DevInv, FileInv, InOpen, InRelease
<1>4. f \in Opened <=> pc[t] = "rel_store"
  BY <1>1, <1>2, <1>3 DEF Opened, InOpen, InRelease
<1>5. f \in Opened' <=> pc[t] = "open_store"
  BY <1>1, <1>2, <1>3 DEF Opened, InOpen, InRelease, Others
<1>6. \A g \in Files \ {f} : g \in Opened' <=> g \in Opened
  BY <1>1, <1>2 DEF Opened, Others
<1>7. Opened' = IF pc[t] = "open_store" THEN Opened \cup {f} ELSE Opened \ {f}
  <2> HIDE DEF f
  <2> QED
    BY <1>1, <1>2, <1>4, <1>5, <1>6 DEF Opened
<1>8. count' = Cardinality(Opened') /\ count' \in Nat
  <2>1. count = Cardinality(Opened) /\ IsFiniteSet(Opened) /\ count \in Nat
    BY OpenedFinite DEF DevInv, CountInv
  <2>2. CASE pc[t] = "open_store"
    <3>1. Cardinality(Opened \cup {f}) = Cardinality(Opened) + 1
      BY <1>4, <2>1, <2>2, FS_AddElement
    <3> QED
      BY <1>1, <1>2, <1>7, <2>1, <2>2, <3>1
  <2>3. CASE pc[t] = "rel_store"
    <3>1. Cardinality(Opened \ {f}) = Cardinality(Opened) - 1 /\ IsFiniteSet(Opened \ {f})
      BY <1>4, <2>1, <2>3, FS_RemoveElement
    <3>2. Cardinality(Opened \ {f}) \in Nat
      BY <3>1, FS_CardinalityType
    <3> QED
      BY <1>1, <1>2, <1>7, <2>1, <2>3, <3>1, <3>2
  <2> QED
    BY <1>1, <2>2, <2>3
<1>9. TypeOK'
  BY <1>1, <1>8 DEF DevInv, TypeOK, Labels
<1>10. LockInv'
  BY <1>1, <1>2 DEF DevInv, LockInv, Others, CountHeld, CharHeld
<1>11. FileInv'
  BY <1>1, <1>2 DEF DevInv, FileInv, Others, InOpen, InRelease
<1>12. LocalInv'
  <2>1. \A s \in Tasks \ {t} : pc[s] \notin {"open_store", "rel_store"}
    BY <1>1, Alone DEF CountHeld
  <2> QED
    BY <1>1, <1>2, <2>1 DEF DevInv, LocalInv, Others, Setting, Getting
<1>13. Answered' = Answered
  BY <1>1, <1>2, AnswersStand
<1>14. Abstract!Open(f) \/ Abstract!Close(f)
  <2> HIDE DEF f
  <2> QED
    BY <1>1, <1>4, <1>7, <1>13 DEF Abstract!Open, Abstract!Close
<1> QED
  BY <1>2, <1>8, <1>9, <1>10, <1>11, <1>12, <1>14 DEF DevInv, CountInv

\* Releasing count_lock ends the call; its file stays opened, or closed.
LEMMA Unlocks ==
  ASSUME DevInv, NEW t \in Tasks, OpenUnlock(t) \/ RelUnlock(t)
  PROVE  DevInv' /\ UNCHANGED Abstract!vars
<1> DEFINE f == call[t].file
           life == IF pc[t] = "open_unlock" THEN "open" ELSE "closed"
<1>1. /\ pc[t] \in {"open_unlock", "rel_unlock"} /\ pc' = [pc EXCEPT ![t] = "idle"]
      /\ call' = [call EXCEPT ![t] = NoCall] /\ count_lock' = NoTask
      /\ mode' = [mode EXCEPT ![f] = life]
      /\ UNCHANGED <<count, char_count, char_lock, reply>>
  BY DEF OpenUnlock, RelUnlock, Return, Move, Goto, charVars
<1>2. NoCall \in Calls
  BY DEF NoCall, Calls
<1>3. /\ Others(t) /\ pc'[t] = "idle" /\ f \in Files /\ mode'[f] = life
      /\ mode[f] = IF pc[t] = "open_unlock" THEN "opening" ELSE "closing"
      /\ \A g \in Files \ {f} : mode'[g] = mode[g]
  BY <1>1 DEF Others, DevInv, TypeOK, FileInv, InOpen, InRelease
<1>4. \A s \in Tasks \ {t} : pc[s] \in InOpen \cup InRelease => call[s].file # f
  BY <1>1 DEF DevInv, FileInv, InOpen, InRelease
<1>5. TypeOK'
  BY <1>1, <1>2 DEF DevInv, TypeOK, Labels, Modes
<1>6. LockInv'
  <2>1. \A s \in Tasks \ {t} : pc[s] \notin CountHeld
    BY <1>1, Alone DEF CountHeld
  <2> QED
    BY <1>1, <1>3, <2>1, DeviceAssumption DEF DevInv, LockInv, Others, CountHeld, CharHeld
<1>7. FileInv'
  <2>1. \A s \in Tasks \ {t} : pc[s] \in InOpen \cup InRelease
                                => mode'[call[s].file] = mode[call[s].file]
    BY <1>3, <1>4 DEF DevInv, FileInv
  <2> QED
    BY <1>3, <2>1 DEF DevInv, FileInv, Others, InOpen, InRelease
<1>8. LocalInv'
  BY <1>1, <1>3 DEF DevInv, LocalInv, Others, Setting, Getting
<1>9. f \in Opened <=> f \in Opened'
  BY <1>1, <1>3, <1>4 DEF Opened, InOpen, InRelease, Others
<1>10. \A g \in Files \ {f} : g \in Opened' <=> g \in Opened
  BY <1>1, <1>3 DEF Opened, Others
<1>11. Opened' = Opened
  <2> HIDE DEF f
  <2> QED
    BY <1>9, <1>10 DEF Opened
<1>12. Answered' = Answered
  BY <1>1, <1>3, AnswersStand
<1> QED
  BY <1>1, <1>5, <1>6, <1>7, <1>8, <1>11, <1>12 DEF DevInv, CountInv, Abstract!vars

--------------------------------------------------------------------------------
(* The debugfs counter, my_unlocked_ioctl and my_read *)

\* A step of t between labels outside my_open and my_release, as long as it
\* leaves the count and the files alone, keeps what is about them.
LEMMA CountStands ==
  ASSUME DevInv, NEW t \in Tasks, Others(t), UNCHANGED countVars,
         {pc[t], pc'[t]} \cap (InOpen \cup InRelease) = {}
  PROVE  /\ FileInv' /\ CountInv' /\ Opened' = Opened
         /\ \A s \in Tasks : pc'[s] \in CountHeld <=> count_lock' = s
<1>1. UNCHANGED <<count, count_lock, mode>>
  BY DEF countVars
<1>2. pc[t] \notin CountHeld /\ pc'[t] \notin CountHeld
  BY DEF CountHeld, InOpen, InRelease
<1>3. pc[t] \notin Counted /\ pc'[t] \notin Counted
  BY DEF Counted, InOpen, InRelease
<1>4. Opened' = Opened
  BY <1>1, <1>3, OpenedStands
<1>5. FileInv'
  BY <1>1 DEF DevInv, FileInv, Others
<1> QED
  BY <1>1, <1>2, <1>4, <1>5 DEF DevInv, LockInv, CountInv, Others

\* debugfs hands out the count as it is: the number of opened instances.
LEMMA ReadsCounter ==
  ASSUME DevInv, NEW t \in Tasks, ReadCounter(t)
  PROVE  DevInv' /\ Abstract!Counter(t)
<1>1. /\ pc[t] = "idle" /\ reply' = [reply EXCEPT ![t] = [str |-> "none", ret |-> count]]
      /\ UNCHANGED <<count, count_lock, mode, char_count, char_lock, pc, call>>
  BY DEF ReadCounter, countVars, charVars
<1>2. TypeOK'
  <2>1. [str |-> "none", ret |-> count] \in
           [str : {"none", "A", "Ah", "Aho", "Ahoj"}, ret : Nat \cup {-14}]
    BY DEF DevInv, TypeOK
  <2> QED
    BY <1>1, <2>1 DEF DevInv, TypeOK
<1>3. Opened' = Opened
  BY <1>1 DEF Opened
<1>4. LockInv' /\ FileInv' /\ LocalInv' /\ CountInv'
  BY <1>1, <1>3 DEF DevInv, LockInv, FileInv, LocalInv, CountInv
<1>5. Answered' = [Answered EXCEPT ![t] = [str |-> "none", ret |-> Cardinality(Opened)]]
  BY <1>1 DEF Answered, DevInv, CountInv, TypeOK
<1>6. Abstract!Counter(t)
  <2>1. Abstract!Cardinality(Opened) = Cardinality(Opened)
    BY Zenon DEF Cardinality, Abstract!Cardinality
  <2> QED
    BY <1>1, <1>3, <1>5, <2>1 DEF Abstract!Counter, Abstract!Answer
<1> QED
  BY <1>2, <1>4, <1>6 DEF DevInv

\* Entering an ioctl or my_read, and taking and releasing char_lock.
LEMMA CharLocks ==
  ASSUME DevInv, NEW t \in Tasks,
         \/ \E arg \in Args : IoctlWrite(t, arg)
         \/ \E op \in {"read", "ioctl"} : Get(t, op)
         \/ IoctlSet(t) /\ pc[t] # "set"
         \/ GetCopy(t) /\ pc[t] # "copy"
  PROVE  DevInv' /\ UNCHANGED Abstract!vars
<1>1. UNCHANGED <<count, count_lock, mode, char_count, reply>>
  BY DEF IoctlWrite, Get, IoctlSet, GetCopy, countVars, charVars, Move, Goto, Return
<1>2. /\ pc[t] \notin InOpen \cup InRelease /\ pc'[t] \notin InOpen \cup InRelease
      /\ pc' \in [Tasks -> Labels] /\ call' \in [Tasks -> Calls] /\ Others(t)
  <2>1. CASE \E arg \in Args : IoctlWrite(t, arg)
    <3>1. PICK arg \in Args : IoctlWrite(t, arg)
      BY <2>1
    <3>2. [NoCall EXCEPT !.arg = arg] \in Calls
      BY DeviceAssumption DEF NoCall, Calls
    <3> QED
      BY <1>1, <3>1, <3>2 DEF IoctlWrite, Enter, Move, Goto, InOpen, InRelease, Others, Labels,
                       DevInv, TypeOK
  <2>2. CASE \E op \in {"read", "ioctl"} : Get(t, op)
    <3>1. PICK op \in {"read", "ioctl"} : Get(t, op)
      BY <2>2
    <3>2. [NoCall EXCEPT !.op = op] \in Calls
      BY DEF NoCall, Calls
    <3> QED
      BY <1>1, <3>1, <3>2 DEF Get, Enter, Move, Goto, InOpen, InRelease, Others, Labels,
                       DevInv, TypeOK
  <2>3. CASE IoctlSet(t) /\ pc[t] # "set"
    <3>1. NoCall \in Calls
      BY DEF NoCall, Calls
    <3> QED
      BY <1>1, <2>3, <3>1 DEF IoctlSet, Return, Move, Goto, InOpen, InRelease, Others, Labels,
                       DevInv, TypeOK
  <2>4. CASE GetCopy(t) /\ pc[t] # "copy"
    BY <1>1, <2>4 DEF GetCopy, Move, Goto, InOpen, InRelease, Others, Labels, DevInv, TypeOK
  <2> QED
    BY <2>1, <2>2, <2>3, <2>4
<1>3. /\ FileInv' /\ CountInv' /\ Opened' = Opened
      /\ \A s \in Tasks : pc'[s] \in CountHeld <=> count_lock' = s
  BY <1>1, <1>2, CountStands DEF countVars
<1>4. /\ char_lock' \in Tasks \cup {NoTask}
      /\ pc[t] \in CharHeld => char_lock = t
      /\ pc'[t] \in CharHeld <=> char_lock' = t
      /\ \A s \in Tasks \ {t} : char_lock' = s <=> char_lock = s
  <2>1. CASE \E arg \in Args : IoctlWrite(t, arg)
    BY <2>1 DEF IoctlWrite, Enter, Move, Goto, charVars, DevInv, TypeOK, LockInv, CharHeld
  <2>2. CASE \E op \in {"read", "ioctl"} : Get(t, op)
    BY <2>2 DEF Get, Enter, Move, Goto, charVars, DevInv, TypeOK, LockInv, CharHeld
  <2>3. CASE IoctlSet(t) /\ pc[t] # "set"
    BY <2>3, DeviceAssumption DEF IoctlSet, Return, Move, Goto, DevInv, TypeOK, LockInv, CharHeld
  <2>4. CASE GetCopy(t) /\ pc[t] # "copy"
    BY <2>4, DeviceAssumption DEF GetCopy, Move, Goto, DevInv, TypeOK, LockInv, CharHeld
  <2> QED
    BY <2>1, <2>2, <2>3, <2>4
<1>5. LockInv'
  BY <1>2, <1>3, <1>4 DEF DevInv, LockInv, Others
<1>6. TypeOK'
  BY <1>1, <1>2, <1>4 DEF DevInv, TypeOK
<1>7. /\ pc'[t] \in Setting => call'[t].arg \in 1 .. 4
      /\ pc'[t] \in Getting => call'[t].op \in {"read", "ioctl"}
      /\ pc'[t] \in {"copy_unlock", "return"} <=> pc[t] \in {"copy_unlock", "return"}
      /\ pc[t] \in {"copy_unlock", "return"} => call'[t] = call[t]
  <2>1. CASE \E arg \in Args : IoctlWrite(t, arg)
    <3>1. PICK arg \in Args : IoctlWrite(t, arg)
      BY <2>1
    <3>2. arg \in 1 .. 4 /\ [NoCall EXCEPT !.arg = arg].arg = arg
      BY <3>1, DeviceAssumption DEF IoctlWrite, NoCall
    <3> QED
      BY <3>1, <3>2 DEF IoctlWrite, Enter, Move, Goto, Setting, Getting, DevInv, TypeOK
  <2>2. CASE \E op \in {"read", "ioctl"} : Get(t, op)
    <3>1. PICK op \in {"read", "ioctl"} : Get(t, op)
      BY <2>2
    <3>2. [NoCall EXCEPT !.op = op].op = op
      BY DEF NoCall
    <3> QED
      BY <3>1, <3>2 DEF Get, Enter, Move, Goto, Setting, Getting, DevInv, TypeOK
  <2>3. CASE IoctlSet(t) /\ pc[t] # "set"
    BY <2>3 DEF IoctlSet, Return, Move, Goto, Setting, Getting, DevInv, TypeOK, LocalInv
  <2>4. CASE GetCopy(t) /\ pc[t] # "copy"
    BY <2>4 DEF GetCopy, Move, Goto, Setting, Getting, DevInv, TypeOK, LocalInv
  <2> QED
    BY <2>1, <2>2, <2>3, <2>4
<1>8. LocalInv'
  BY <1>1, <1>2, <1>7 DEF DevInv, LocalInv, Others, InOpen, InRelease
<1>9. Answered' = Answered
  BY <1>1, <1>2, <1>7, AnswersStand
<1> QED
  BY <1>1, <1>3, <1>5, <1>6, <1>8, <1>9 DEF DevInv, Abstract!vars

\* Under char_lock the length is set ...
LEMMA SetsLength ==
  ASSUME DevInv, NEW t \in Tasks, IoctlSet(t), pc[t] = "set"
  PROVE  DevInv' /\ \E n \in 1 .. 4 : Abstract!SetLength(n)
<1>1. /\ pc' = [pc EXCEPT ![t] = "set_unlock"] /\ char_count' = call[t].arg
      /\ UNCHANGED <<count, count_lock, mode, char_lock, call, reply>>
  BY DEF IoctlSet, Move, Goto, Return, countVars
<1>2. pc'[t] = "set_unlock" /\ Others(t) /\ call[t].arg \in 1 .. 4
  BY <1>1 DEF DevInv, TypeOK, LocalInv, Setting, Others
<1>3. /\ FileInv' /\ CountInv' /\ Opened' = Opened
      /\ \A s \in Tasks : pc'[s] \in CountHeld <=> count_lock' = s
  BY <1>1, <1>2, CountStands DEF countVars, InOpen, InRelease
<1>4. LockInv'
  BY <1>1, <1>2, <1>3 DEF DevInv, LockInv, Others, CharHeld
<1>5. TypeOK'
  BY <1>1, <1>2 DEF DevInv, TypeOK, Labels
<1>6. LocalInv'
  BY <1>1, <1>2 DEF DevInv, LocalInv, Others, Setting, Getting
<1>7. Answered' = Answered
  BY <1>1, <1>2, AnswersStand
<1> QED
  BY <1>1, <1>2, <1>3, <1>4, <1>5, <1>6, <1>7 DEF DevInv, Abstract!SetLength

\* ... or copied, which decides what the call will answer.
LEMMA CopiesLength ==
  ASSUME DevInv, NEW t \in Tasks, GetCopy(t), pc[t] = "copy"
  PROVE  DevInv' /\ (Abstract!Read(t) \/ Abstract!GetLength(t))
<1>1. /\ pc' = [pc EXCEPT ![t] = "copy_unlock"] /\ call' = [call EXCEPT ![t].local = char_count]
      /\ UNCHANGED <<count, count_lock, mode, char_count, char_lock, reply>>
  BY DEF GetCopy, Move, Goto, Keep, countVars
<1>2. call \in [Tasks -> Calls] /\ char_count \in 1 .. 4 /\ call[t].op \in {"read", "ioctl"}
  BY DEF DevInv, TypeOK, LocalInv, Getting
<1>3. /\ call' \in [Tasks -> Calls] /\ call'[t].local = char_count /\ call'[t].op = call[t].op
      /\ pc'[t] = "copy_unlock" /\ Others(t)
  <2>1. /\ call' \in [Tasks -> Calls] /\ call'[t].local = char_count /\ call'[t].op = call[t].op
        /\ \A s \in Tasks \ {t} : call'[s] = call[s]
    BY <1>1, <1>2 DEF Calls
  <2>2. pc'[t] = "copy_unlock" /\ \A s \in Tasks \ {t} : pc'[s] = pc[s]
    BY <1>1 DEF DevInv, TypeOK
  <2> QED
    BY <1>1, <2>1, <2>2 DEF Others
<1>4. /\ FileInv' /\ CountInv' /\ Opened' = Opened
      /\ \A s \in Tasks : pc'[s] \in CountHeld <=> count_lock' = s
  BY <1>1, <1>3, CountStands DEF countVars, InOpen, InRelease
<1>5. LockInv'
  BY <1>1, <1>3, <1>4 DEF DevInv, LockInv, Others, CharHeld
<1>6. TypeOK'
  BY <1>1, <1>3 DEF DevInv, TypeOK, Labels
<1>7. LocalInv'
  BY <1>1, <1>2, <1>3 DEF DevInv, LocalInv, Others, Setting, Getting
<1>8. Answered' = [Answered EXCEPT ![t] = Result(call[t].op, Word(char_count), char_count)]
  BY <1>3, AnswerOf
<1>9. Abstract!Read(t) \/ Abstract!GetLength(t)
  BY <1>1, <1>2, <1>4, <1>8 DEF Abstract!Read, Abstract!GetLength, Abstract!Answer, Abstract!Word,
     Word, Result
<1> QED
  BY <1>4, <1>5, <1>6, <1>7, <1>9 DEF DevInv

\* The answer is handed over as it was copied, or not at all.
LEMMA Returns ==
  ASSUME DevInv, NEW t \in Tasks, GetReturn(t)
  PROVE  DevInv' /\ (Abstract!Fault(t) \/ UNCHANGED Abstract!vars)
<1> DEFINE answer == Result(call[t].op, Word(call[t].local), call[t].local)
<1>1. PICK r \in {answer, Efault} : reply' = [reply EXCEPT ![t] = r]
  BY DEF GetReturn
<1>2. /\ pc[t] = "return" /\ pc' = [pc EXCEPT ![t] = "idle"]
      /\ call' = [call EXCEPT ![t] = NoCall]
      /\ UNCHANGED <<count, count_lock, mode, char_count, char_lock>>
  BY DEF GetReturn, Return, Move, Goto, countVars, charVars
<1>3. r \in [str : {"none", "A", "Ah", "Aho", "Ahoj"}, ret : Nat \cup {-14}] /\ NoCall \in Calls
  <2>1. call[t].local \in 1 .. 4 /\ call[t].op \in {"read", "ioctl"}
    BY <1>2 DEF DevInv, LocalInv, Getting
  <2>2. Word(call[t].local) \in {"A", "Ah", "Aho", "Ahoj"}
    BY <2>1 DEF Word
  <2> QED
    BY <1>1, <2>1, <2>2 DEF Result, Efault, NoCall, Calls
<1>4. /\ pc'[t] = "idle" /\ Others(t) /\ reply'[t] = r
      /\ reply' \in [Tasks -> [str : {"none", "A", "Ah", "Aho", "Ahoj"}, ret : Nat \cup {-14}]]
  BY <1>1, <1>2, <1>3 DEF DevInv, TypeOK, Others
<1>5. /\ FileInv' /\ CountInv' /\ Opened' = Opened
      /\ \A s \in Tasks : pc'[s] \in CountHeld <=> count_lock' = s
  BY <1>2, <1>4, CountStands DEF countVars, InOpen, InRelease
<1>6. LockInv'
  BY <1>2, <1>4, <1>5 DEF DevInv, LockInv, Others, CharHeld
<1>7. TypeOK'
  BY <1>2, <1>3, <1>4 DEF DevInv, TypeOK, Labels
<1>8. LocalInv'
  BY <1>2, <1>4 DEF DevInv, LocalInv, Others, Setting, Getting
<1>9. Answered' = [Answered EXCEPT ![t] = r] /\ Answered[t] = answer
  <2>1. Answered' = [Answered EXCEPT ![t] = r]
    BY <1>4, AnswerOf
  <2>2. Answered[t] = answer
    BY <1>2 DEF Answered
  <2> QED
    BY <2>1, <2>2
<1>10. CASE r = answer
  <2>1. Answered' = Answered
    BY <1>9, <1>10 DEF Answered
  <2> QED
    BY <1>2, <1>5, <1>6, <1>7, <1>8, <2>1 DEF DevInv, Abstract!vars
<1>11. CASE r = Efault
  BY <1>2, <1>5, <1>6, <1>7, <1>8, <1>9, <1>11 DEF DevInv, Abstract!Fault, Abstract!Efault, Efault
<1> QED
  BY <1>1, <1>10, <1>11

--------------------------------------------------------------------------------
\* Every step keeps the invariant and is a step of DeviceState.
LEMMA DevNext ==
  ASSUME DevInv, [Next]_vars
  PROVE  DevInv' /\ [Abstract!Next]_Abstract!vars
<1>1. CASE UNCHANGED vars
  <2>1. UNCHANGED <<count, count_lock, char_count, char_lock, mode, pc, call, reply>>
    BY <1>1 DEF vars
  <2>2. Opened' = Opened /\ Answered' = Answered
    BY <2>1 DEF Opened, Answered
  <2> QED
    BY <2>1, <2>2 DEF DevInv, TypeOK, LockInv, FileInv, LocalInv, CountInv, Abstract!vars
<1>2. ASSUME NEW t \in Tasks,
             (\E f \in Files : Open(t, f)) \/ FileCall(t) \/ ReadCounter(t) \/ Step(t)
      PROVE  DevInv' /\ [Abstract!Next]_Abstract!vars
  <2>1. CASE \E f \in Files : Open(t, f) \/ Release(t, f)
    BY <2>1, EnterFile
  <2>2. CASE ReadCounter(t)
    BY <2>2, ReadsCounter DEF Abstract!Next
  <2>3. CASE OpenLock(t) \/ RelLock(t)
    BY <2>3, LockAndLoad
  <2>4. CASE OpenIncr(t) \/ RelDecr(t)
    <3>1. \/ (OpenIncr(t) /\ pc[t] = "open_load") \/ (RelDecr(t) /\ pc[t] = "rel_load")
          \/ (OpenIncr(t) /\ pc[t] = "open_store") \/ (RelDecr(t) /\ pc[t] = "rel_store")
      BY <2>4 DEF OpenIncr, RelDecr, Move
    <3>2. CASE (OpenIncr(t) /\ pc[t] = "open_load") \/ (RelDecr(t) /\ pc[t] = "rel_load")
      BY <3>2, LockAndLoad
    <3>3. CASE (OpenIncr(t) /\ pc[t] = "open_store") \/ (RelDecr(t) /\ pc[t] = "rel_store")
      BY <3>3, Stores DEF Abstract!Next
    <3> QED
      BY <3>1, <3>2, <3>3
  <2>5. CASE OpenUnlock(t) \/ RelUnlock(t)
    BY <2>5, Unlocks
  <2>6. CASE (\E arg \in Args : IoctlWrite(t, arg)) \/ (\E op \in {"read", "ioctl"} : Get(t, op))
    BY <2>6, CharLocks
  <2>7. CASE IoctlSet(t)
    BY <2>7, CharLocks, SetsLength DEF Abstract!Next, Abstract!Lengths
  <2>8. CASE GetCopy(t)
    BY <2>8, CharLocks, CopiesLength DEF Abstract!Next
  <2>9. CASE GetReturn(t)
    BY <2>9, Returns DEF Abstract!Next
  <2> QED
    BY <1>2, <2>1, <2>2, <2>3, <2>4, <2>5, <2>6, <2>7, <2>8, <2>9 DEF FileCall, Step
<1> QED
  BY <1>1, <1>2 DEF Next

\* my_device by itself is well typed, for every number of threads and files: the
\* count never falls below zero.
THEOREM DeviceTypes == Spec => []TypeOK
<1>1. DevInv /\ [Next]_vars => DevInv'
  BY DevNext
<1>2. DevInv => TypeOK
  BY DEF DevInv
<1> QED
  BY <1>1, <1>2, DevInit, PTL DEF Spec

\* The two spinlocks are enough: my_device keeps the promise of DeviceState for
\* every number of threads and files.
THEOREM DeviceRefines == Spec => ImplementsDeviceState
<1>1. DevInv /\ [Next]_vars => DevInv' /\ [Abstract!Next]_Abstract!vars
  BY DevNext
<1> QED
  BY <1>1, DevInit, PTL DEF Spec, ImplementsDeviceState, Abstract!Spec

================================================================================
