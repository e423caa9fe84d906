-------------------------------- MODULE NetDriver --------------------------------
(***************************************************************************)
(* The network driver of 12/pb173.c: an interface whose timer feeds it a   *)
(* packet every second, a queue (kfifo) of the bytes sent through it, and  *)
(* a misc device to inject packets and to read the queue.                  *)
(*                                                                         *)
(* Outside src/ and modelled from how the driver uses it: the kfifo (free- *)
(* running in and out counters over a power-of-two array; data first, then *)
(* the counter), the timer core (del_timer_sync waits for the callback),   *)
(* the network core (one xmit at a time, none once ndo_stop is called;     *)
(* rtnl orders up, down and unregister) and misc_open (owner pins the      *)
(* module).  What netif_rx does with a packet is left out, and so is a     *)
(* timer_fn that gets no memory for one, which would end everything.       *)
(***************************************************************************)
EXTENDS Sequences, Integers

CONSTANTS Readers,   \* threads that read the device
          Writers,   \* threads that write it
          Packets,   \* packets the interface is given to send, as bytes
          Size,      \* bytes of the queue, 8192 in the code
          Wrap,      \* where the counters wrap, 2^32 in the code
          Failing    \* bound: the steps of my_init and my_write that may fail

Tasks == Readers \cup Writers

ASSUME NetAssumption ==
  /\ Size \in Nat \ {0} /\ Wrap \in Nat \ {0}
  /\ Wrap % Size = 0 /\ Wrap > Size
  /\ Packets \subseteq Seq(0 .. 255)
  /\ Readers \cap Writers = {}

VARIABLES
  ctl,       \* where my_init or my_exit is; "in" after, "out" before
  ndev,      \* life of the net device, my_timer included
  link,      \* "down", "up", or "stopping" while my_ndev_stop runs
  pending,   \* my_timer is armed
  firing,    \* timer_fn runs
  xmit,      \* my_start_xmit: what it still has to count, << >> outside
  data,      \* queue: the array
  in_, out,  \* queue: the counters
  pc,        \* where in the file operations each thread is
  want,      \* my_read: bytes to copy, as found when it looked
  buf,       \* my_read: bytes in the user's buffer
  got        \* what the last my_read returned

timerVars == <<link, pending, firing>>
queueVars == <<xmit, data, in_, out>>
readVars == <<want, buf, got>>
vars == <<ctl, ndev, timerVars, queueVars, pc, readVars>>

Init ==
  /\ ctl = "out" /\ ndev = "null"
  /\ link = "down" /\ pending = FALSE /\ firing = FALSE
  /\ xmit = << >> /\ data = [i \in 0 .. Size - 1 |-> 0] /\ in_ = 0 /\ out = 0
  /\ pc = [t \in Tasks |-> "closed"]
  /\ want = [t \in Readers |-> 0] /\ buf = [t \in Readers |-> << >>] /\ got = << >>

--------------------------------------------------------------------------------
(* my_init.  A failed step returns -EIO and undoes nothing: the misc device  *)
(* stays registered by a module that is gone, and nothing can be said of the *)
(* driver from there on.                                                     *)
Load ==
  /\ ctl = "out" /\ ctl' = "i_alloc"
  /\ ndev' = "null" /\ in_' = 0 /\ out' = 0 /\ got' = << >>
  /\ UNCHANGED <<timerVars, xmit, data, pc, want, buf>>

InitAlloc ==
  /\ ctl = "i_alloc" /\ ctl' = "i_register" /\ ndev' = "allocated"
  /\ UNCHANGED <<timerVars, queueVars, pc, readVars>>

InitRegister ==
  /\ ctl = "i_register" /\ ctl' = "in" /\ ndev' = "registered"
  /\ UNCHANGED <<timerVars, queueVars, pc, readVars>>

InitFail ==
  /\ ctl \in Failing \cap {"i_alloc", "i_register"} /\ ctl' = "failed"
  /\ UNCHANGED <<ndev, timerVars, queueVars, pc, readVars>>

\* Mutant of ExitMisc: my_fops has no owner.
ExitMiscUnowned ==
  /\ ctl = "in" /\ ctl' = "x_net"
  /\ UNCHANGED <<ndev, timerVars, queueVars, pc, readVars>>

(* my_exit *)
ExitMisc ==
  /\ ctl = "in" /\ \A t \in Tasks : pc[t] = "closed"
  /\ ctl' = "x_net"
  /\ UNCHANGED <<ndev, timerVars, queueVars, pc, readVars>>

\* unregister_netdev gets rtnl; until then the interface may still go up or down.
ExitLock ==
  /\ ctl = "x_net" /\ link # "stopping" /\ ctl' = "x_close"
  /\ UNCHANGED <<ndev, timerVars, queueVars, pc, readVars>>

\* unregister_netdev, once it has taken the interface down.
ExitNet ==
  /\ ctl = "x_close" /\ link = "down"
  /\ ctl' = "x_free" /\ ndev' = "unregistered"
  /\ UNCHANGED <<timerVars, queueVars, pc, readVars>>

ExitFree ==
  /\ ctl = "x_free" /\ ctl' = "out" /\ ndev' = "freed"
  /\ UNCHANGED <<timerVars, queueVars, pc, readVars>>

--------------------------------------------------------------------------------
(* my_ndev_open *)
LinkUp ==
  /\ ctl \in {"in", "x_net"} /\ link = "down"
  /\ link' = "up" /\ pending' = TRUE
  /\ UNCHANGED <<ctl, ndev, firing, queueVars, pc, readVars>>

\* my_ndev_stop is called: by the administrator, or by unregister_netdev.
LinkDown ==
  /\ ctl \in {"in", "x_net", "x_close"} /\ link = "up" /\ xmit = << >>
  /\ link' = "stopping"
  /\ UNCHANGED <<ctl, ndev, pending, firing, queueVars, pc, readVars>>

\* Mutant of LinkStopped: del_timer, which does not wait for timer_fn.
LinkStoppedUnsynced ==
  /\ link = "stopping"
  /\ link' = "down" /\ pending' = FALSE
  /\ UNCHANGED <<ctl, ndev, firing, queueVars, pc, readVars>>

LinkStopped ==
  /\ link = "stopping" /\ ~firing
  /\ link' = "down" /\ pending' = FALSE
  /\ UNCHANGED <<ctl, ndev, firing, queueVars, pc, readVars>>

(* timer_fn *)
TimerFire ==
  /\ pending /\ ~firing
  /\ pending' = FALSE /\ firing' = TRUE
  /\ UNCHANGED <<ctl, ndev, link, queueVars, pc, readVars>>

\* Mutant of TimerRearm: timer_fn polls until the network core takes the packet.
TimerSpins == firing /\ UNCHANGED vars

TimerRearm ==
  /\ firing
  /\ pending' = TRUE /\ firing' = FALSE
  /\ UNCHANGED <<ctl, ndev, link, queueVars, pc, readVars>>

--------------------------------------------------------------------------------
Used == (in_ - out) % Wrap
At(n) == data[n % Size]

\* Mutant of XmitCopy: room is not checked.
XmitCopyUnchecked(p) ==
  /\ link = "up" /\ xmit = << >>
  /\ LET n == Len(p)
     IN  /\ xmit' = SubSeq(p, 1, n)
         /\ data' = [i \in 0 .. Size - 1 |->
                       LET k == (i - in_) % Size IN IF k < n THEN p[k + 1] ELSE data[i]]
  /\ UNCHANGED <<ctl, ndev, timerVars, in_, out, pc, readVars>>

(* my_start_xmit: kfifo_in copies what fits and then counts it. *)
XmitCopy(p) ==
  /\ link = "up" /\ xmit = << >>
  /\ LET room == Size - Used
         n == IF Len(p) < room THEN Len(p) ELSE room
     IN  /\ xmit' = SubSeq(p, 1, n)
         /\ data' = [i \in 0 .. Size - 1 |->
                       LET k == (i - in_) % Size IN IF k < n THEN p[k + 1] ELSE data[i]]
  /\ UNCHANGED <<ctl, ndev, timerVars, in_, out, pc, readVars>>

XmitCount ==
  /\ xmit # << >> /\ xmit' = << >>
  /\ in_' = (in_ + Len(xmit)) % Wrap
  /\ UNCHANGED <<ctl, ndev, timerVars, data, out, pc, readVars>>

--------------------------------------------------------------------------------
Move(t, from, to) == pc[t] = from /\ pc' = [pc EXCEPT ![t] = to]

(* misc_open, while the misc device is registered by a module that stays.    *)
Open(t) ==
  /\ ctl \in {"i_alloc", "i_register", "in"}
  /\ Move(t, "closed", "open")
  /\ UNCHANGED <<ctl, ndev, timerVars, queueVars, readVars>>

Close(t) ==
  /\ ctl # "failed" /\ Move(t, "open", "closed")
  /\ UNCHANGED <<ctl, ndev, timerVars, queueVars, readVars>>

(* my_write: netdev_alloc_skb looks into ndev, which is NULL until my_init   *)
(* has got to it, and what it returns is not checked; eth_type_trans looks   *)
(* again, after copy_from_user.                                              *)
WriteAlloc(t) ==
  /\ ctl # "failed"
  /\ \/ ndev # "null" /\ Move(t, "open", "w_fill")
     \/ (ndev = "null" \/ "w_alloc" \in Failing) /\ Move(t, "open", "oops")
  /\ UNCHANGED <<ctl, ndev, timerVars, queueVars, readVars>>

WriteSend(t) ==
  /\ ctl # "failed" /\ Move(t, "w_fill", "open")
  /\ UNCHANGED <<ctl, ndev, timerVars, queueVars, readVars>>

(* my_read: kfifo_to_user takes what is there, up to count, copies it, as    *)
(* far as the user's buffer is mapped, and counts what it copied.            *)
ReadLook(t, count) ==
  /\ ctl # "failed" /\ Move(t, "open", "r_copy")
  /\ want' = [want EXCEPT ![t] = IF count < Used THEN count ELSE Used]
  /\ UNCHANGED <<ctl, ndev, timerVars, queueVars, buf, got>>

ReadCopy(t, n) ==
  /\ ctl # "failed" /\ n <= want[t] /\ Move(t, "r_copy", "r_count")
  /\ buf' = [buf EXCEPT ![t] = [i \in 1 .. n |-> At(out + i - 1)]]
  /\ UNCHANGED <<ctl, ndev, timerVars, queueVars, want, got>>

\* Mutant of ReadCount: the bytes asked for are counted, not the bytes copied.
ReadCountWanted(t) ==
  /\ ctl # "failed" /\ Move(t, "r_count", "open")
  /\ out' = (out + want[t]) % Wrap /\ got' = buf[t]
  /\ want' = [want EXCEPT ![t] = 0] /\ buf' = [buf EXCEPT ![t] = << >>]
  /\ UNCHANGED <<ctl, ndev, timerVars, xmit, data, in_>>

ReadCount(t) ==
  /\ ctl # "failed" /\ Move(t, "r_count", "open")
  /\ out' = (out + Len(buf[t])) % Wrap /\ got' = buf[t]
  /\ want' = [want EXCEPT ![t] = 0] /\ buf' = [buf EXCEPT ![t] = << >>]
  /\ UNCHANGED <<ctl, ndev, timerVars, xmit, data, in_>>

--------------------------------------------------------------------------------
Exit == ExitNet \/ ExitFree \/ (ctl = "x_close" /\ LinkDown)

Next ==
  \/ Load \/ InitAlloc \/ InitRegister \/ InitFail \/ ExitMisc \/ ExitLock \/ ExitNet \/ ExitFree
  \/ LinkUp \/ LinkDown \/ LinkStopped \/ TimerFire \/ TimerRearm
  \/ XmitCount \/ \E p \in Packets : XmitCopy(p)
  \/ \E t \in Tasks : Open(t) \/ Close(t)
  \/ \E t \in Writers : WriteAlloc(t) \/ WriteSend(t)
  \/ \E t \in Readers : \/ \E n \in 0 .. Size : ReadLook(t, n) \/ ReadCopy(t, n)
                        \/ ReadCount(t)

Spec == Init /\ [][Next]_vars

\* my_exit runs on and gets rtnl, which others release again and again; a
\* transmission and a callback end; dev_close lets no new transmission begin, and
\* del_timer_sync gets hold of a timer that is idle again and again.
Fairness == /\ SF_vars(Exit) /\ SF_vars(ExitLock) /\ SF_vars(LinkStopped)
            /\ WF_vars(XmitCount) /\ WF_vars(TimerRearm)

FairSpec == Spec /\ Fairness

--------------------------------------------------------------------------------
(* Type correctness: in particular the counters stay below Wrap and never    *)
(* more than Size apart.                                                     *)
TypeOK ==
  /\ ctl \in {"out", "i_alloc", "i_register", "in", "x_net", "x_close", "x_free",
            "failed"}
  /\ ndev \in {"null", "allocated", "registered", "unregistered", "freed"}
  /\ link \in {"down", "up", "stopping"} /\ pending \in BOOLEAN /\ firing \in BOOLEAN
  /\ in_ \in 0 .. Wrap - 1 /\ out \in 0 .. Wrap - 1 /\ Used + Len(xmit) <= Size
  /\ DOMAIN data = 0 .. Size - 1
  /\ pc \in [Tasks -> {"closed", "open", "oops", "w_fill", "r_copy", "r_count"}]
  /\ want \in [Readers -> 0 .. Size]

(* The timer is armed or running, and my_start_xmit and the second half of   *)
(* my_write run, only while the net device they use, in whose memory the     *)
(* timer is, is there: my_exit may free it without looking.                  *)
DeviceWhileUsed ==
  /\ pending \/ firing \/ xmit # << >> => ndev = "registered"
  /\ \A t \in Writers : pc[t] = "w_fill" => ndev \in {"allocated", "registered"}

(* "iface down - stop timer": once my_ndev_stop has returned the timer is    *)
(* neither armed nor running, although timer_fn arms it again by itself.     *)
TimerStopped == link = "down" => ~pending /\ ~firing

(* The bytes queued, oldest first. *)
Contents == [i \in 1 .. Used |-> At(out + i - 1)]
Queue == INSTANCE Fifo WITH contents <- Contents

(* With one reader the queue is a bounded FIFO, though neither my_read nor   *)
(* my_start_xmit takes a lock and the counters wrap.                         *)
ImplementsFifo == Queue!Spec

Leaving == ctl \in {"x_net", "x_close", "x_free"}

(* Taking the interface down, by itself or as part of my_exit, ends,         *)
(* although timer_fn arms the timer again and again.                         *)
StopReturns == link = "stopping" \/ Leaving ~> link = "down" /\ ~Leaving

================================================================================
