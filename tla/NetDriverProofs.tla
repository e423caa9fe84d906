---------------------------- MODULE NetDriverProofs ----------------------------
(***************************************************************************)
(* Proofs about NetDriver, for every set of readers and writers, every     *)
(* packet and every size of the queue: the timer is stopped when the       *)
(* interface is down, and nobody uses a net device that is not there.      *)
(*                                                                         *)
(* Neither is inductive: that my_exit may free the device depends on the   *)
(* interface being down at that point and on no file being open since it   *)
(* began, and the life of the device on where my_init or my_exit is.       *)
(*                                                                         *)
(* Then, for one reader, that the queue is a FIFO.  QueueInv and ReaderInv *)
(* say what is true between the copy and the count on either side: the     *)
(* bytes sent are in free slots, the bytes copied are still the first.     *)
(* Both rest on the arithmetic of counters that wrap at a multiple of the  *)
(* size, which comes first.                                                *)
(***************************************************************************)
EXTENDS NetDriver, TLAPS

\* The net device is registered between the ends of register_netdev and of
\* unregister_netdev.
Live == {"in", "x_net", "x_close"}
\* The misc device can be open.
Pinned == {"i_alloc", "i_register", "in", "failed"}

\* Where my_init or my_exit is says how far the life of the device is.
LifeInv ==
  /\ ctl \in Live <=> ndev = "registered"
  /\ ctl = "i_alloc" => ndev = "null"
  /\ ctl = "i_register" => ndev = "allocated"
  /\ ctl = "failed" => ndev \in {"null", "allocated"}

\* The timer is confined to the time the interface is up or stopping, and that
\* to the time the device is registered.
LinkInv ==
  /\ link \in {"down", "up", "stopping"}
  /\ pending \/ firing => link # "down"
  /\ xmit # << >> => link = "up"
  /\ link # "down" => ctl \in Live

\* An open file keeps the module, and my_write got past the first use of ndev.
UserInv ==
  /\ pc \in [Tasks -> {"closed", "open", "oops", "w_fill", "r_copy", "r_count"}]
  /\ \A t \in Tasks : pc[t] # "closed" => ctl \in Pinned
  /\ \A t \in Tasks : pc[t] = "w_fill" => ndev # "null"

NInv == LifeInv /\ LinkInv /\ UserInv

--------------------------------------------------------------------------------
\* Before the module is loaded nothing is armed, running or open.
LEMMA NInit == Init => NInv
BY DEF Init, NInv, LifeInv, LinkInv, UserInv, Live, Pinned

\* my_init and my_exit keep NInv: a step of my_exit is taken with every file
\* closed, and the device is unregistered with the interface down.
LEMMA ControlSteps ==
  ASSUME NInv,
         \/ Load \/ InitAlloc \/ InitRegister \/ InitFail
         \/ ExitMisc \/ ExitLock \/ ExitNet \/ ExitFree
  PROVE  NInv'
<1> USE DEF NInv, LifeInv, LinkInv, UserInv, Live, Pinned, timerVars, queueVars
<1>1. CASE Load
  <2>1. \A t \in Tasks : pc[t] = "closed"
    BY <1>1 DEF Load
  <2>2. QED
    BY <1>1, <2>1 DEF Load
<1>2. CASE InitAlloc \/ InitRegister \/ InitFail
  BY <1>2 DEF InitAlloc, InitRegister, InitFail
<1>3. CASE ExitMisc \/ ExitLock
  BY <1>3 DEF ExitMisc, ExitLock
<1>4. CASE ExitNet \/ ExitFree
  BY <1>4 DEF ExitNet, ExitFree
<1> QED
  BY <1>1, <1>2, <1>3, <1>4

\* The interface, its timer and its transmissions keep NInv: the interface goes
\* down only without a callback running, and takes the armed timer with it.
LEMMA LinkSteps ==
  ASSUME NInv,
         \/ LinkUp \/ LinkDown \/ LinkStopped \/ TimerFire \/ TimerRearm \/ XmitCount
         \/ \E p \in Packets : XmitCopy(p)
  PROVE  NInv'
<1> USE DEF NInv, LifeInv, LinkInv, UserInv, Live, Pinned, timerVars, queueVars
<1>1. CASE LinkUp \/ LinkDown \/ LinkStopped
  BY <1>1 DEF LinkUp, LinkDown, LinkStopped
<1>2. CASE TimerFire \/ TimerRearm
  BY <1>2 DEF TimerFire, TimerRearm
<1>3. CASE XmitCount
  BY <1>3 DEF XmitCount
<1>4. CASE \E p \in Packets : XmitCopy(p)
  BY <1>4 DEF XmitCopy
<1> QED
  BY <1>1, <1>2, <1>3, <1>4

\* The file operations keep NInv: misc_open is refused once my_exit has begun.
LEMMA UserSteps ==
  ASSUME NInv, NEW t \in Tasks,
         \/ Open(t) \/ Close(t) \/ WriteAlloc(t) \/ WriteSend(t) \/ ReadCount(t)
         \/ \E n \in 0 .. Size : ReadLook(t, n) \/ ReadCopy(t, n)
  PROVE  NInv'
<1> USE DEF NInv, LifeInv, LinkInv, UserInv, Live, Pinned, timerVars, queueVars, Move
<1>1. CASE Open(t) \/ Close(t)
  BY <1>1 DEF Open, Close
<1>2. CASE WriteAlloc(t) \/ WriteSend(t)
  BY <1>2 DEF WriteAlloc, WriteSend
<1>3. CASE ReadCount(t)
  BY <1>3 DEF ReadCount
<1>4. CASE \E n \in 0 .. Size : ReadLook(t, n) \/ ReadCopy(t, n)
  BY <1>4 DEF ReadLook, ReadCopy
<1> QED
  BY <1>1, <1>2, <1>3, <1>4

\* NInv is inductive.
LEMMA NNext == NInv /\ [Next]_vars => NInv'
<1> SUFFICES ASSUME NInv, [Next]_vars PROVE NInv'
  OBVIOUS
<1>1. CASE UNCHANGED vars
  BY <1>1 DEF vars, timerVars, queueVars, NInv, LifeInv, LinkInv, UserInv
<1> QED
  BY <1>1, ControlSteps, LinkSteps, UserSteps DEF Next, Tasks

\* del_timer_sync in my_ndev_stop really stops a timer that arms itself.
THEOREM DownMeansStopped == Spec => []TimerStopped
<1>1. NInv => TimerStopped
  BY DEF NInv, LinkInv, TimerStopped
<1> QED
  BY <1>1, NInit, NNext, PTL DEF Spec

\* timer_fn, my_start_xmit and my_write never use a net device my_exit freed.
THEOREM DeviceStays == Spec => []DeviceWhileUsed
<1>1. NInv => DeviceWhileUsed
  BY DEF NInv, LifeInv, LinkInv, UserInv, DeviceWhileUsed, Live, Pinned, Tasks
<1> QED
  BY <1>1, NInit, NNext, PTL DEF Spec

--------------------------------------------------------------------------------
(* Arithmetic of the counters and the slots of the array *)

\* Dividing by n leaves a remainder below n.
LEMMA Quotient ==
  ASSUME NEW n \in Nat \ {0}, NEW a \in Int
  PROVE  a % n \in 0 .. n - 1 /\ \E q \in Int : a = n * q + (a % n)
<1>1. a \div n \in Int
  OBVIOUS
<1>2. a = n * (a \div n) + (a % n)
  OBVIOUS
<1>3. \E q \in Int : a = n * q + (a % n)
  BY <1>1, <1>2
<1>4. a % n \in 0 .. n - 1
  OBVIOUS
<1> QED
  BY <1>3, <1>4

\* ... and that remainder is the only one.
LEMMA Remainder ==
  ASSUME NEW n \in Nat \ {0}, NEW q \in Int, NEW r \in 0 .. n - 1
  PROVE  (n * q + r) % n = r
OBVIOUS

\* Multiples of n do not change it.
LEMMA Multiples ==
  ASSUME NEW n \in Nat \ {0}, NEW q \in Int, NEW a \in Int
  PROVE  (n * q + a) % n = a % n
<1>1. PICK k \in Int : a = n * k + (a % n)
  BY Quotient
<1>2. n * q + a = n * (q + k) + (a % n)
  BY <1>1
<1>3. q + k \in Int /\ a % n \in 0 .. n - 1
  OBVIOUS
<1> QED
  BY <1>2, <1>3, Remainder

\* A place in the array can be reckoned with slots as well as with counters ...
LEMMA SlotOfSlot ==
  ASSUME NEW a \in Int, NEW b \in Int
  PROVE  ((a % Size) + b) % Size = (a + b) % Size
<1>1. PICK q \in Int : a = Size * q + (a % Size)
  BY Quotient, NetAssumption
<1>2. Size \in Nat \ {0} /\ a % Size \in Int /\ (a % Size) + b \in Int
  BY NetAssumption
<1>3. a + b = Size * q + ((a % Size) + b)
  <2> DEFINE r == a % Size
  <2>1. a = Size * q + r /\ r \in Int /\ Size * q \in Int
    BY <1>1, <1>2
  <2> HIDE DEF r
  <2>2. a + b = Size * q + (r + b)
    BY <2>1
  <2> QED
    BY <2>2 DEF r
<1>4. (Size * q + ((a % Size) + b)) % Size = ((a % Size) + b) % Size
  BY <1>2, Multiples, Zenon
<1> QED
  BY <1>3, <1>4, Zenon

\* The counters wrap after a whole number of turns of the array ...
LEMMA WholeTurns == \E m \in Int : Wrap = Size * m
<1>0. Size \in Nat \ {0} /\ Wrap \in Int
  BY NetAssumption
<1>1. PICK m \in Int : Wrap = Size * m + (Wrap % Size)
  BY <1>0, Quotient, Zenon
<1>2. Wrap = Size * m
  BY <1>1, NetAssumption
<1> QED
  BY <1>2

\* ... so that wrapping does not change the slot.
LEMMA SlotOfCounter ==
  ASSUME NEW a \in Int, NEW b \in Int
  PROVE  ((a % Wrap) + b) % Size = (a + b) % Size
<1>1. PICK q \in Int : a = Wrap * q + (a % Wrap)
  BY Quotient, NetAssumption
<1>2. PICK m \in Int : Wrap = Size * m
  BY WholeTurns
<1>3. Size \in Nat \ {0} /\ (a % Wrap) + b \in Int /\ m * q \in Int
  BY NetAssumption
<1>4. Wrap * q = Size * (m * q)
  BY <1>2, NetAssumption
<1>5. a + b = Size * (m * q) + ((a % Wrap) + b)
  BY <1>1, <1>3, <1>4, NetAssumption
<1>6. (Size * (m * q) + ((a % Wrap) + b)) % Size = ((a % Wrap) + b) % Size
  BY <1>3, Multiples, Zenon
<1> QED
  BY <1>5, <1>6, Zenon

\* How far one counter is ahead of the other.
LEMMA Distance ==
  ASSUME NEW i \in 0 .. Wrap - 1, NEW o \in 0 .. Wrap - 1
  PROVE  (i - o) % Wrap = IF i >= o THEN i - o ELSE i - o + Wrap
<1>1. CASE i >= o
  BY <1>1, NetAssumption
<1>2. CASE i < o
  BY <1>2, NetAssumption
<1> QED
  BY <1>1, <1>2

\* A counter that moves on wraps at most once.
LEMMA Advance ==
  ASSUME NEW i \in 0 .. Wrap - 1, NEW k \in 0 .. Size
  PROVE  (i + k) % Wrap = IF i + k < Wrap THEN i + k ELSE i + k - Wrap
<1>1. CASE i + k < Wrap
  BY <1>1, NetAssumption
<1>2. CASE i + k >= Wrap
  BY <1>2, NetAssumption
<1> QED
  BY <1>1, <1>2, NetAssumption

\* Counting k bytes in, with room for them, makes the distance k more ...
LEMMA CountIn ==
  ASSUME NEW i \in 0 .. Wrap - 1, NEW o \in 0 .. Wrap - 1, NEW k \in 0 .. Size,
         ((i - o) % Wrap) + k <= Size
  PROVE  /\ (i + k) % Wrap \in 0 .. Wrap - 1
         /\ (((i + k) % Wrap) - o) % Wrap = ((i - o) % Wrap) + k
<1> DEFINE j == (i + k) % Wrap
<1>1. j = IF i + k < Wrap THEN i + k ELSE i + k - Wrap
  BY Advance
<1>2. (i - o) % Wrap = IF i >= o THEN i - o ELSE i - o + Wrap
  BY Distance
<1>3. j \in 0 .. Wrap - 1
  BY <1>1, NetAssumption
<1> HIDE DEF j
<1>4. (j - o) % Wrap = IF j >= o THEN j - o ELSE j - o + Wrap
  BY <1>3, Distance
<1>5. (j - o) % Wrap = ((i - o) % Wrap) + k
  BY <1>1, <1>2, <1>3, <1>4, NetAssumption
<1> QED
  BY <1>3, <1>5 DEF j

\* ... and counting k bytes out, with as many there, k less.
LEMMA CountOut ==
  ASSUME NEW i \in 0 .. Wrap - 1, NEW o \in 0 .. Wrap - 1, NEW k \in 0 .. Size,
         k <= ((i - o) % Wrap)
  PROVE  /\ (o + k) % Wrap \in 0 .. Wrap - 1
         /\ (i - ((o + k) % Wrap)) % Wrap = ((i - o) % Wrap) - k
<1> DEFINE j == (o + k) % Wrap
<1>1. j = IF o + k < Wrap THEN o + k ELSE o + k - Wrap
  BY Advance
<1>2. (i - o) % Wrap = IF i >= o THEN i - o ELSE i - o + Wrap
  BY Distance
<1>3. j \in 0 .. Wrap - 1
  BY <1>1, NetAssumption
<1> HIDE DEF j
<1>4. (i - j) % Wrap = IF i >= j THEN i - j ELSE i - j + Wrap
  BY <1>3, Distance
<1>5. (i - j) % Wrap = ((i - o) % Wrap) - k
  BY <1>1, <1>2, <1>3, <1>4, NetAssumption
<1> QED
  BY <1>3, <1>5 DEF j

\* The slot at k from "in_" is the one at the distance and k from "out".
LEMMA SlotInOut ==
  ASSUME NEW i \in 0 .. Wrap - 1, NEW o \in 0 .. Wrap - 1, NEW k \in Int
  PROVE  (i + k) % Size = (o + ((i - o) % Wrap) + k) % Size
<1>0. i - o \in Int /\ o + k \in Int
  BY NetAssumption
<1>1. (((i - o) % Wrap) + (o + k)) % Size = ((i - o) + (o + k)) % Size
  BY <1>0, SlotOfCounter, Zenon
<1>2. (i - o) + (o + k) = i + k /\ ((i - o) % Wrap) + (o + k) = o + ((i - o) % Wrap) + k
  BY NetAssumption
<1> QED
  BY <1>1, <1>2, Zenon

\* Seen from "in_", the queued bytes are in the last slots of the array and the
\* next ones in the first.
LEMMA FreeSlots ==
  ASSUME NEW i \in 0 .. Wrap - 1, NEW o \in 0 .. Wrap - 1, ((i - o) % Wrap) <= Size
  PROVE  /\ \A j \in 0 .. ((i - o) % Wrap) - 1 :
              (((o + j) % Size) - i) % Size = Size - ((i - o) % Wrap) + j
         /\ \A k \in 0 .. Size - 1 : (((i + k) % Size) - i) % Size = k
<1> DEFINE u == (i - o) % Wrap
<1>1. u \in 0 .. Size
  BY NetAssumption
<1>2. ASSUME NEW j \in 0 .. u - 1
      PROVE  (((o + j) % Size) - i) % Size = Size - u + j
  <2>0. /\ Size \in Nat \ {0} /\ Wrap \in Nat \ {0} /\ i - o \in Int
        /\ o + j \in Int /\ -i \in Int
    BY <1>1, NetAssumption
  <2>1. (((o + j) % Size) + (-i)) % Size = ((o + j) + (-i)) % Size
    BY <2>0, SlotOfSlot, Zenon
  <2>2. PICK q \in Int : i - o = Wrap * q + u
    BY <2>0, Quotient, Zenon
  <2>3. PICK m \in Int : Wrap = Size * m
    BY WholeTurns
  <2> HIDE DEF u
  <2>4. Wrap * q = Size * (m * q) /\ m * q \in Int
    BY <2>3, NetAssumption
  <2>5. (o + j) + (-i) = j - u - Size * (m * q)
    BY <1>1, <2>2, <2>4, NetAssumption
  <2>6. j - u - Size * (m * q) = Size * (-(m * q) - 1) + (Size - u + j)
    BY <1>1, <2>4, NetAssumption
  <2>7. -(m * q) - 1 \in Int /\ Size - u + j \in 0 .. Size - 1
    BY <1>1, <2>4, NetAssumption
  <2>8. (Size * (-(m * q) - 1) + (Size - u + j)) % Size = Size - u + j
    BY <2>0, <2>7, Remainder, Zenon
  <2>9. ((o + j) % Size) + (-i) = ((o + j) % Size) - i
    BY <2>0
  <2> QED
    BY <2>1, <2>5, <2>6, <2>8, <2>9, Zenon
<1>3. ASSUME NEW k \in 0 .. Size - 1
      PROVE  (((i + k) % Size) - i) % Size = k
  <2>0. i + k \in Int /\ -i \in Int
    BY NetAssumption
  <2>1. (((i + k) % Size) + (-i)) % Size = ((i + k) + (-i)) % Size
    BY <2>0, SlotOfSlot, Zenon
  <2>2. (i + k) + (-i) = k /\ k % Size = k
    BY NetAssumption
  <2>3. ((i + k) % Size) + (-i) = ((i + k) % Size) - i
    BY NetAssumption
  <2> QED
    BY <2>1, <2>2, <2>3, Zenon
<1> QED
  BY <1>2, <1>3

--------------------------------------------------------------------------------
(* The queue with one reader *)

Byte == 0 .. 255

\* The kfifo asks for no lock as long as one thread at a time reads.
OneReader == \A r, s \in Readers : r = s

\* What is being sent has room, is part of one packet, and is in the slots after
\* the queued bytes before it is counted.
QueueInv ==
  /\ in_ \in 0 .. Wrap - 1 /\ out \in 0 .. Wrap - 1
  /\ data \in [0 .. Size - 1 -> Byte]
  /\ xmit \in Seq(Byte) /\ Used + Len(xmit) <= Size
  /\ xmit # << >> => \E p \in Packets : \E n \in 0 .. Len(p) : xmit = SubSeq(p, 1, n)
  /\ \A k \in 1 .. Len(xmit) : At(in_ + k - 1) = xmit[k]

\* What my_read found to be there still is, and what it copied is what the queue
\* still has to give.
ReaderInv ==
  /\ want \in [Readers -> 0 .. Size] /\ buf \in [Readers -> Seq(Byte)]
  /\ \A t \in Readers :
       /\ pc[t] = "r_copy" => want[t] <= Used
       /\ pc[t] = "r_count" => /\ Len(buf[t]) <= Used
                               /\ \A i \in 1 .. Len(buf[t]) : buf[t][i] = At(out + i - 1)

QInv == NInv /\ QueueInv /\ ReaderInv

\* The queue starts empty, and so does the FIFO.
LEMMA QInit == Init => QueueInv /\ ReaderInv /\ Queue!Init
<1> SUFFICES ASSUME Init PROVE QueueInv /\ ReaderInv /\ Queue!Init
  OBVIOUS
<1>1. Used = 0
  BY NetAssumption DEF Init, Used
<1>2. QueueInv
  BY <1>1, NetAssumption DEF Init, QueueInv, Byte
<1>3. ReaderInv
  BY <1>1, NetAssumption DEF Init, ReaderInv, Tasks
<1>4. Contents = << >>
  BY <1>1 DEF Contents
<1> QED
  BY <1>2, <1>3, <1>4 DEF Init, Queue!Init

\* Consecutive slots of the array, read from anywhere, are a sequence of bytes.
LEMMA Slots ==
  ASSUME NEW a \in [0 .. Size - 1 -> Byte], NEW o \in Int, NEW u \in Nat
  PROVE  /\ [i \in 1 .. u |-> a[(o + i - 1) % Size]] \in Seq(Byte)
         /\ Len([i \in 1 .. u |-> a[(o + i - 1) % Size]]) = u
<1>1. \A i \in 1 .. u : a[(o + i - 1) % Size] \in Byte
  <2> SUFFICES ASSUME NEW i \in 1 .. u PROVE a[(o + i - 1) % Size] \in Byte
    OBVIOUS
  <2>1. (o + i - 1) % Size \in 0 .. Size - 1
    BY NetAssumption
  <2> QED
    BY <2>1
<1> QED
  BY <1>1

\* The number of queued bytes, and that Contents holds as many.
LEMMA Length ==
  ASSUME QueueInv
  PROVE  /\ Used \in 0 .. Size /\ Len(xmit) \in Nat
         /\ Contents \in Seq(Byte) /\ Len(Contents) = Used
<1>1. Used \in Nat /\ Len(xmit) \in Nat
  BY NetAssumption DEF QueueInv, Used
<1>2. Used \in 0 .. Size
  BY <1>1, NetAssumption DEF QueueInv
<1>3. out \in Int
  BY NetAssumption DEF QueueInv
<1> QED
  BY <1>1, <1>2, <1>3, Slots DEF QueueInv, Contents, At

\* A step that leaves the queue and the reader alone leaves the FIFO alone.
LEMMA QueueStands ==
  ASSUME QInv, UNCHANGED <<data, in_, out, xmit, want, buf>>,
         \A t \in Readers : pc'[t] \in {"r_copy", "r_count"} => pc'[t] = pc[t]
  PROVE  QueueInv' /\ ReaderInv' /\ Contents' = Contents
<1>1. Used' = Used /\ \A n \in Int : At(n)' = At(n)
  BY DEF Used, At
<1>2. Contents' = Contents
  BY DEF Contents, Used, At
<1>3. QueueInv'
  BY DEF QInv, QueueInv, Used, At
<1>4. ReaderInv'
  BY DEF QInv, ReaderInv, Used, At
<1> QED
  BY <1>2, <1>3, <1>4

\* Loading the module empties the queue, with nobody in the middle of anything.
LEMMA LoadResets ==
  ASSUME QInv, Load
  PROVE  QueueInv' /\ ReaderInv' /\ Queue!Reset
<1>1. xmit = << >> /\ \A t \in Tasks : pc[t] = "closed"
  BY DEF Load, QInv, NInv, LinkInv, UserInv, Live, Pinned
<1>2. /\ in_' = 0 /\ out' = 0 /\ got' = << >> /\ ctl = "out"
      /\ UNCHANGED <<xmit, data, pc, want, buf>>
  BY DEF Load
<1>3. Used' = 0
  BY <1>2, NetAssumption DEF Used
<1>4. QueueInv'
  BY <1>1, <1>2, <1>3, NetAssumption DEF QInv, QueueInv
<1>5. ReaderInv'
  BY <1>1, <1>2 DEF QInv, ReaderInv, Tasks
<1>6. Contents' = << >>
  BY <1>3 DEF Contents
<1> QED
  BY <1>2, <1>4, <1>5, <1>6 DEF Queue!Reset

\* kfifo_in writes the bytes of the packet that fit, and no queued byte.
LEMMA XmitCopies ==
  ASSUME QInv, NEW p \in Packets, XmitCopy(p)
  PROVE  QueueInv' /\ ReaderInv' /\ Contents' = Contents
<1> DEFINE n == IF Len(p) < Size - Used THEN Len(p) ELSE Size - Used
<1>1. /\ xmit = << >> /\ xmit' = SubSeq(p, 1, n)
      /\ data' = [i \in 0 .. Size - 1 |->
                    IF (i - in_) % Size < n THEN p[((i - in_) % Size) + 1] ELSE data[i]]
      /\ UNCHANGED <<in_, out, pc, want, buf>>
  BY DEF XmitCopy, readVars
<1>2. p \in Seq(Byte) /\ Len(p) \in Nat
  BY NetAssumption DEF Byte
<1>3. Used \in 0 .. Size /\ Used' = Used
  BY <1>1, Length DEF QInv, Used
<1>4. n \in 0 .. Len(p) /\ n <= Size - Used
  BY <1>2, <1>3, NetAssumption
<1> HIDE DEF n
<1>5. xmit' \in Seq(Byte) /\ Len(xmit') = n /\ \A k \in 1 .. n : xmit'[k] = p[k]
  BY <1>1, <1>2, <1>4
<1>6. data' \in [0 .. Size - 1 -> Byte]
  <2> SUFFICES ASSUME NEW i \in 0 .. Size - 1, (i - in_) % Size < n
               PROVE  p[((i - in_) % Size) + 1] \in Byte
    BY <1>1 DEF QInv, QueueInv
  <2>1. ((i - in_) % Size) + 1 \in 1 .. Len(p)
    BY <1>2, <1>4, NetAssumption DEF QInv, QueueInv
  <2> QED
    BY <1>2, <2>1
<1>7. \A j \in 0 .. Used - 1 : At(out + j)' = At(out + j)
  <2> SUFFICES ASSUME NEW j \in 0 .. Used - 1
               PROVE  data'[(out + j) % Size] = data[(out + j) % Size]
    BY <1>1 DEF At
  <2>1. (((out + j) % Size) - in_) % Size = Size - Used + j
    BY <1>3, FreeSlots DEF QInv, QueueInv, Used
  <2>2. ~((((out + j) % Size) - in_) % Size < n)
    BY <1>3, <1>4, <2>1, NetAssumption
  <2>3. (out + j) % Size \in 0 .. Size - 1
    BY <1>3, NetAssumption DEF QInv, QueueInv
  <2> QED
    BY <1>1, <2>2, <2>3, Zenon
<1>8. \A k \in 1 .. n : At(in_ + k - 1)' = p[k]
  <2> SUFFICES ASSUME NEW k \in 1 .. n
               PROVE  data'[(in_ + k - 1) % Size] = p[k]
    BY <1>1 DEF At
  <2>1. k - 1 \in 0 .. Size - 1 /\ in_ + (k - 1) = in_ + k - 1
    BY <1>3, <1>4, NetAssumption DEF QInv, QueueInv
  <2>2. (((in_ + (k - 1)) % Size) - in_) % Size = k - 1
    BY <1>3, <2>1, FreeSlots DEF QInv, QueueInv, Used
  <2>3. (((in_ + k - 1) % Size) - in_) % Size = k - 1
    BY <2>1, <2>2
  <2>4. /\ ((((in_ + k - 1) % Size) - in_) % Size) < n
        /\ ((((in_ + k - 1) % Size) - in_) % Size) + 1 = k
    BY <1>4, <2>3, NetAssumption
  <2>5. (in_ + k - 1) % Size \in 0 .. Size - 1
    BY <1>3, <1>4, NetAssumption DEF QInv, QueueInv
  <2>6. data'[(in_ + k - 1) % Size] = p[((((in_ + k - 1) % Size) - in_) % Size) + 1]
    BY <1>1, <2>4, <2>5, Zenon
  <2> QED
    BY <2>4, <2>6, Zenon
<1>9. QueueInv'
  <2>1. Used' + Len(xmit') <= Size
    BY <1>3, <1>4, <1>5, NetAssumption
  <2>2. \E r \in Packets : \E m \in 0 .. Len(r) : xmit' = SubSeq(r, 1, m)
    BY <1>1, <1>4
  <2>3. \A k \in 1 .. Len(xmit') : At(in_ + k - 1)' = xmit'[k]
    BY <1>5, <1>8
  <2> QED
    BY <1>1, <1>5, <1>6, <2>1, <2>2, <2>3 DEF QInv, QueueInv
<1>10. \A i \in 1 .. Used : At(out + i - 1)' = At(out + i - 1)
  <2> SUFFICES ASSUME NEW i \in 1 .. Used PROVE At(out + i - 1)' = At(out + i - 1)
    OBVIOUS
  <2>1. i - 1 \in 0 .. Used - 1 /\ out + (i - 1) = out + i - 1
    BY <1>3, NetAssumption DEF QInv, QueueInv
  <2> QED
    BY <1>1, <1>7, <2>1 DEF At
<1>11. Contents' = Contents
  BY <1>1, <1>3, <1>10 DEF Contents
<1>12. ReaderInv'
  BY <1>1, <1>3, <1>10 DEF QInv, ReaderInv
<1> QED
  BY <1>9, <1>11, <1>12

\* Counting the bytes in puts what was sent of the packet behind the others.
LEMMA XmitCounts ==
  ASSUME QInv, XmitCount
  PROVE  QueueInv' /\ ReaderInv' /\ Queue!Put
<1> DEFINE n == Len(xmit)
<1>1. /\ xmit # << >> /\ xmit' = << >> /\ in_' = (in_ + n) % Wrap
      /\ UNCHANGED <<data, out, pc, want, buf, got>>
  BY DEF XmitCount, readVars
<1>2. /\ Used \in 0 .. Size /\ n \in 0 .. Size /\ Used + n <= Size
      /\ in_ \in 0 .. Wrap - 1 /\ out \in 0 .. Wrap - 1
  BY Length, NetAssumption DEF QInv, QueueInv
<1>3. in_' \in 0 .. Wrap - 1 /\ Used' = Used + n
  BY <1>1, <1>2, CountIn DEF Used
<1>4. QueueInv'
  BY <1>1, <1>2, <1>3, NetAssumption DEF QInv, QueueInv
<1>5. ReaderInv'
  BY <1>1, <1>2, <1>3 DEF QInv, ReaderInv, At
<1>6. ASSUME NEW k \in 1 .. n
      PROVE  At(out + (Used + k) - 1) = xmit[k]
  <2>1. At(in_ + k - 1) = xmit[k]
    BY DEF QInv, QueueInv
  <2>2. k - 1 \in Int
    BY <1>2
  <2>3. (in_ + (k - 1)) % Size = (out + ((in_ - out) % Wrap) + (k - 1)) % Size
    BY <1>2, <2>2, SlotInOut
  <2>4. /\ in_ + (k - 1) = in_ + k - 1
        /\ out + Used + (k - 1) = out + (Used + k) - 1
    BY <1>2, NetAssumption
  <2>5. (in_ + k - 1) % Size = (out + (Used + k) - 1) % Size
    BY <2>3, <2>4 DEF Used
  <2> QED
    BY <2>1, <2>5 DEF At
<1>7. Contents' = Contents \o xmit
  <2>0. out' \in Int /\ Used' \in Nat /\ data' \in [0 .. Size - 1 -> Byte]
    BY <1>1, <1>2, <1>3, NetAssumption DEF QInv, QueueInv
  <2>1. /\ Contents' \in Seq(Byte) /\ Len(Contents') = Used + n
        /\ Contents \in Seq(Byte) /\ Len(Contents) = Used
    BY <1>3, <2>0, Length, Slots DEF QInv, Contents, At
  <2>2. xmit \in Seq(Byte) /\ Contents \o xmit \in Seq(Byte) /\ Len(Contents \o xmit) = Used + n
    BY <1>2, <2>1 DEF QInv, QueueInv
  <2>3. ASSUME NEW i \in 1 .. Used + n
        PROVE  Contents'[i] = (Contents \o xmit)[i]
    <3>1. Contents'[i] = At(out + i - 1)
      BY <1>1, <1>3 DEF Contents, At
    <3>2. CASE i <= Used
      BY <1>2, <2>1, <2>2, <3>1, <3>2 DEF Contents
    <3>3. CASE i > Used
      <4>1. i - Used \in 1 .. n /\ Used + (i - Used) = i
        BY <1>2, <3>3
      <4>2. At(out + i - 1) = xmit[i - Used]
        BY <1>6, <4>1
      <4>3. (Contents \o xmit)[i] = xmit[i - Used]
        BY <1>2, <2>1, <2>2, <3>3, <4>1
      <4> QED
        BY <3>1, <4>2, <4>3
    <3>4. i <= Used \/ i > Used
      BY <1>2
    <3> QED
      BY <3>2, <3>3, <3>4
  <2> QED
    BY <2>1, <2>2, <2>3
<1>8. PICK p \in Packets : \E m \in 0 .. Len(p) : xmit = SubSeq(p, 1, m)
  BY <1>1 DEF QInv, QueueInv
<1>9. PICK m \in 0 .. Len(p) : xmit = SubSeq(p, 1, m)
  BY <1>8
<1>10. n = m
  BY <1>9, NetAssumption
<1> QED
  BY <1>1, <1>2, <1>4, <1>5, <1>7, <1>9, <1>10, Length DEF QInv, Queue!Put

\* my_read looks and copies; only a reader itself takes bytes out.
LEMMA ReadLooks ==
  ASSUME QInv, NEW t \in Readers, NEW n \in 0 .. Size, ReadLook(t, n) \/ ReadCopy(t, n)
  PROVE  QueueInv' /\ ReaderInv' /\ Contents' = Contents
<1>1. UNCHANGED <<data, in_, out, xmit>>
  BY DEF ReadLook, ReadCopy, queueVars
<1>2. Contents' = Contents /\ Used' = Used /\ QueueInv'
  BY <1>1 DEF Contents, Used, At, QInv, QueueInv
<1>3. Used \in 0 .. Size /\ out \in Int /\ data \in [0 .. Size - 1 -> Byte]
  BY Length, NetAssumption DEF QInv, QueueInv
<1>4. CASE ReadLook(t, n)
  <2>1. /\ buf' = buf /\ pc' = [pc EXCEPT ![t] = "r_copy"]
        /\ want' = [want EXCEPT ![t] = IF n < Used THEN n ELSE Used]
    BY <1>4 DEF ReadLook, Move
  <2>2. want' \in [Readers -> 0 .. Size] /\ want'[t] <= Used
    BY <1>3, <2>1 DEF QInv, ReaderInv
  <2> QED
    BY <1>1, <1>2, <2>1, <2>2 DEF QInv, NInv, UserInv, ReaderInv, Tasks, At
<1>5. CASE ReadCopy(t, n)
  <2> DEFINE b == [i \in 1 .. n |-> At(out + i - 1)]
  <2>1. /\ want' = want /\ pc' = [pc EXCEPT ![t] = "r_count"]
        /\ buf' = [buf EXCEPT ![t] = b] /\ n <= want[t] /\ pc[t] = "r_copy"
    BY <1>5 DEF ReadCopy, Move
  <2>2. b \in Seq(Byte) /\ Len(b) = n
    <3>1. n \in Nat
      BY NetAssumption
    <3> QED
      BY <1>3, <3>1, Slots DEF At
  <2>3. n <= Used
    BY <1>3, <2>1 DEF QInv, ReaderInv
  <2>4. \A i \in 1 .. n : b[i] = At(out + i - 1)
    OBVIOUS
  <2> HIDE DEF b
  <2>5. buf' \in [Readers -> Seq(Byte)]
    BY <2>1, <2>2 DEF QInv, ReaderInv
  <2>6. ASSUME NEW r \in Readers
        PROVE  /\ pc'[r] = "r_copy" => want'[r] <= Used'
               /\ pc'[r] = "r_count" => /\ Len(buf'[r]) <= Used'
                                        /\ \A i \in 1 .. Len(buf'[r]) :
                                             buf'[r][i] = At(out + i - 1)'
    <3>1. CASE r = t
      BY <1>1, <1>2, <2>1, <2>2, <2>3, <2>4, <3>1 DEF QInv, ReaderInv, NInv, UserInv, Tasks, At
    <3>2. CASE r # t
      BY <1>1, <1>2, <2>1, <3>2 DEF QInv, ReaderInv, NInv, UserInv, Tasks, At
    <3> QED
      BY <3>1, <3>2
  <2> QED
    BY <1>2, <2>1, <2>5, <2>6 DEF QInv, ReaderInv
<1> QED
  BY <1>2, <1>4, <1>5

\* Counting the bytes out takes from the front what the reader was given, as
\* long as nobody else reads.
LEMMA ReadCounts ==
  ASSUME QInv, OneReader, NEW t \in Readers, ReadCount(t)
  PROVE  QueueInv' /\ ReaderInv' /\ Queue!Get
<1> DEFINE n == Len(buf[t])
<1>1. /\ pc[t] = "r_count" /\ pc' = [pc EXCEPT ![t] = "open"]
      /\ out' = (out + n) % Wrap /\ got' = buf[t]
      /\ want' = [want EXCEPT ![t] = 0] /\ buf' = [buf EXCEPT ![t] = << >>]
      /\ UNCHANGED <<xmit, data, in_>>
  BY DEF ReadCount, Move
<1>2. /\ Used \in 0 .. Size /\ buf[t] \in Seq(Byte) /\ n \in 0 .. Size /\ n <= Used
      /\ in_ \in 0 .. Wrap - 1 /\ out \in 0 .. Wrap - 1
      /\ data \in [0 .. Size - 1 -> Byte]
  BY <1>1, Length, NetAssumption DEF QInv, QueueInv, ReaderInv
<1>3. \A i \in 1 .. n : buf[t][i] = At(out + i - 1)
  BY <1>1 DEF QInv, ReaderInv
<1> HIDE DEF n
<1>4. out' \in 0 .. Wrap - 1 /\ Used' = Used - n
  BY <1>1, <1>2, CountOut DEF Used
<1>5. QueueInv'
  BY <1>1, <1>2, <1>4, Length, NetAssumption DEF QInv, QueueInv, At
<1>6. ReaderInv'
  <2>1. \A r \in Readers : pc'[r] = "open"
    BY <1>1 DEF OneReader, QInv, NInv, UserInv, Tasks
  <2>2. want' \in [Readers -> 0 .. Size] /\ buf' \in [Readers -> Seq(Byte)]
    BY <1>1, NetAssumption DEF QInv, ReaderInv
  <2> QED
    BY <2>1, <2>2 DEF ReaderInv
<1>7. /\ Contents \in Seq(Byte) /\ Len(Contents) = Used
      /\ Contents' \in Seq(Byte) /\ Len(Contents') = Used - n
  <2>1. out' \in Int /\ Used' \in Nat /\ data' \in [0 .. Size - 1 -> Byte]
    BY <1>1, <1>2, <1>4, NetAssumption
  <2> QED
    BY <1>4, <2>1, Length, Slots DEF QInv, Contents, At
<1>8. buf[t] = SubSeq(Contents, 1, n)
  <2>1. /\ SubSeq(Contents, 1, n) \in Seq(Byte) /\ Len(SubSeq(Contents, 1, n)) = n
        /\ \A i \in 1 .. n : SubSeq(Contents, 1, n)[i] = Contents[i]
    BY <1>2, <1>7
  <2>2. \A i \in 1 .. n : Contents[i] = At(out + i - 1)
    BY <1>2 DEF Contents
  <2>3. Len(buf[t]) = n
    BY DEF n
  <2> QED
    BY <1>2, <1>3, <2>1, <2>2, <2>3
<1>9. Contents' = SubSeq(Contents, n + 1, Used)
  <2>1. /\ SubSeq(Contents, n + 1, Used) \in Seq(Byte)
        /\ Len(SubSeq(Contents, n + 1, Used)) = Used - n
        /\ \A i \in 1 .. Used - n : SubSeq(Contents, n + 1, Used)[i] = Contents[n + i]
    BY <1>2, <1>7
  <2>2. ASSUME NEW i \in 1 .. Used - n
        PROVE  Contents'[i] = Contents[n + i]
    <3>1. Contents'[i] = data[(out' + i - 1) % Size]
      BY <1>1, <1>4 DEF Contents, At
    <3>2. out + n \in Int /\ i - 1 \in Int /\ n + i \in 1 .. Used
      BY <1>2, NetAssumption
    <3>3. (((out + n) % Wrap) + (i - 1)) % Size = ((out + n) + (i - 1)) % Size
      BY <3>2, SlotOfCounter, Zenon
    <3>4. /\ out' + (i - 1) = out' + i - 1
          /\ (out + n) + (i - 1) = out + (n + i) - 1
      BY <1>2, <1>4, NetAssumption
    <3>5. (out' + i - 1) % Size = (out + (n + i) - 1) % Size
      BY <1>1, <3>3, <3>4, Zenon
    <3>6. Contents[n + i] = data[(out + (n + i) - 1) % Size]
      BY <3>2 DEF Contents, At
    <3> QED
      BY <3>1, <3>5, <3>6
  <2>3. \A i \in 1 .. Used - n : Contents'[i] = SubSeq(Contents, n + 1, Used)[i]
    BY <2>1, <2>2
  <2> DEFINE tail == SubSeq(Contents, n + 1, Used)
  <2>4. /\ tail \in Seq(Byte) /\ Len(tail) = Used - n
        /\ \A i \in 1 .. Used - n : Contents'[i] = tail[i]
    BY <2>1, <2>3
  <2> HIDE DEF tail
  <2>5. Contents' = tail
    BY <1>7, <2>4
  <2> QED
    BY <2>5 DEF tail
<1> QED
  BY <1>1, <1>2, <1>5, <1>6, <1>7, <1>8, <1>9 DEF Queue!Get

--------------------------------------------------------------------------------
\* With one reader every step keeps the invariant and is a step of the FIFO.
LEMMA QNext ==
  ASSUME OneReader, QInv, [Next]_vars
  PROVE  QueueInv' /\ ReaderInv' /\ [Queue!Next]_Queue!vars
<1>1. CASE Load
  BY <1>1, LoadResets DEF Queue!Next
<1>2. CASE \E p \in Packets : XmitCopy(p)
  <2>1. got' = got
    BY <1>2 DEF XmitCopy, readVars
  <2> QED
    BY <1>2, <2>1, XmitCopies DEF Queue!vars
<1>3. CASE XmitCount
  BY <1>3, XmitCounts DEF Queue!Next
<1>4. CASE \E t \in Readers : ReadCount(t)
  BY <1>4, ReadCounts DEF Queue!Next
<1>5. CASE \E t \in Readers, n \in 0 .. Size : ReadLook(t, n) \/ ReadCopy(t, n)
  <2>1. got' = got
    BY <1>5 DEF ReadLook, ReadCopy
  <2> QED
    BY <1>5, <2>1, ReadLooks DEF Queue!vars
<1>6. CASE \/ UNCHANGED vars
           \/ InitAlloc \/ InitRegister \/ InitFail \/ ExitMisc \/ ExitLock \/ ExitNet \/ ExitFree
           \/ LinkUp \/ LinkDown \/ LinkStopped \/ TimerFire \/ TimerRearm
  <2>1. UNCHANGED <<queueVars, pc, readVars>>
    BY <1>6 DEF vars, InitAlloc, InitRegister, InitFail, ExitMisc, ExitLock, ExitNet, ExitFree,
                LinkUp, LinkDown, LinkStopped, TimerFire, TimerRearm
  <2> QED
    BY <2>1, QueueStands DEF queueVars, readVars, Queue!vars
<1>7. CASE \/ \E t \in Tasks : Open(t) \/ Close(t)
           \/ \E t \in Writers : WriteAlloc(t) \/ WriteSend(t)
  <2>1. UNCHANGED <<queueVars, readVars>>
    BY <1>7 DEF Open, Close, WriteAlloc, WriteSend
  <2>2. \A r \in Readers : pc'[r] \in {"r_copy", "r_count"} => pc'[r] = pc[r]
    BY <1>7, NetAssumption DEF Open, Close, WriteAlloc, WriteSend, Move, QInv, NInv, UserInv, Tasks
  <2> QED
    BY <2>1, <2>2, QueueStands DEF queueVars, readVars, Queue!vars
<1> QED
  BY <1>1, <1>2, <1>3, <1>4, <1>5, <1>6, <1>7 DEF Next

\* The counters never pass each other nor get more than the array apart, for
\* every size of the array and wherever they wrap, if only one thread reads.
THEOREM TypeCorrect == OneReader => (Spec => []TypeOK)
<1> SUFFICES ASSUME OneReader PROVE Spec => []TypeOK
  OBVIOUS
<1> DEFINE CtlInv == /\ ctl \in {"out", "i_alloc", "i_register", "in", "x_net", "x_close",
                                 "x_free", "failed"}
                     /\ ndev \in {"null", "allocated", "registered", "unregistered", "freed"}
                     /\ pending \in BOOLEAN /\ firing \in BOOLEAN
<1>1. Init => CtlInv
  BY DEF Init
<1>2. CtlInv /\ [Next]_vars => CtlInv'
  BY DEF Next, vars, timerVars, Load, InitAlloc, InitRegister, InitFail, ExitMisc, ExitLock,
         ExitNet, ExitFree, LinkUp, LinkDown, LinkStopped, TimerFire, TimerRearm, XmitCopy,
         XmitCount, Open, Close, WriteAlloc, WriteSend, ReadLook, ReadCopy, ReadCount
<1>3. QInv /\ CtlInv => TypeOK
  BY DEF QInv, NInv, LinkInv, UserInv, QueueInv, ReaderInv, TypeOK
<1>4. QInv /\ [Next]_vars => QueueInv' /\ ReaderInv'
  BY QNext
<1> HIDE DEF CtlInv
<1> QED
  BY <1>1, <1>2, <1>3, <1>4, NInit, NNext, QInit, PTL DEF Spec, QInv

\* Neither kfifo_in nor kfifo_to_user takes a lock, yet with one reader the bytes
\* come out as they went in: every step is one of the bounded FIFO, for every
\* size of the array, every packet and wherever the counters wrap.
THEOREM OneReaderFifo == OneReader => (Spec => ImplementsFifo)
<1> SUFFICES ASSUME OneReader PROVE Spec => ImplementsFifo
  OBVIOUS
<1>1. QInv /\ [Next]_vars => QueueInv' /\ ReaderInv' /\ [Queue!Next]_Queue!vars
  BY QNext
<1>2. Init => QueueInv /\ ReaderInv /\ Queue!Init
  BY QInit
<1> QED
  BY <1>1, <1>2, NInit, NNext, PTL DEF Spec, QInv, ImplementsFifo, Queue!Spec

================================================================================
