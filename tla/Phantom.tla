--------------------------------- MODULE Phantom ---------------------------------
(***************************************************************************)
(* The phantom driver of 10/example/pb173.c: a character device per PCI    *)
(* card that one process at a time may open, an interrupt handler, and     *)
(* probe and remove that take and give back a minor number and everything  *)
(* else the card needs.                                                    *)
(*                                                                         *)
(* Outside src/ and modelled from how the driver uses it: chrdev_open (it  *)
(* finds a cdev by its minor and takes a reference on cdev.owner, which a  *)
(* module that is going away refuses), the interrupt core (the line is     *)
(* shared; free_irq waits for the handler) and the driver core (it calls   *)
(* probe and remove, here for one card at a time, and remove only when the *)
(* module goes away: a card pulled out while it is open is not modelled).  *)
(* What phantom_write and phantom_isr do to the card's registers is left   *)
(* out; that they go through pht and pht->iaddr is kept.                   *)
(***************************************************************************)
EXTENDS Integers

CONSTANTS Cards,       \* PCI cards the driver is offered
          Tasks,       \* threads that make system calls
          Files,       \* file descriptions on the nodes
          MaxMinors,   \* PHANTOM_MAX_MINORS, 8 in the code
          Failing,     \* bound: the probe steps that may fail
          NoTask,      \* owner of a free mutex
          NoFile,      \* file of a thread outside the driver
          NoCard       \* card of a closed file

Minors == 0 .. MaxMinors - 1

ASSUME PhantomAssumption ==
  /\ MaxMinors \in Nat \ {0}
  /\ NoTask \notin Tasks /\ NoFile \notin Files /\ NoCard \notin Cards

VARIABLES
  module,           \* "out", "in" or "going"
  ctl,              \* ctl[d]: where probe or remove of card d is
  res,              \* res[d]: what is held for card d
  minor,            \* minor[d]: the minor number picked for card d
  phantom_devices,  \* phantom_devices[m]: 1 if minor m is taken
  phantom_mutex,    \* owner of the mutex around phantom_open
  opened,           \* opened[d]: dev->opened
  open_lock,        \* open_lock[d]: owner of dev->open_lock
  isr,              \* isr[d]: phantom_isr is running for card d
  file,             \* file[f]: life of each file and the card it is on
  pc,               \* pc[t]: where in the file operations thread t is
  on                \* on[t]: the file thread t works on

fileVars == <<file, on>>
openVars == <<phantom_mutex, opened, open_lock>>
vars == <<module, ctl, res, minor, phantom_devices, openVars, isr, fileVars, pc>>

Closed == [mode |-> "closed", card |-> NoCard]

Init ==
  /\ module = "out"
  /\ ctl = [d \in Cards |-> "none"] /\ res = [d \in Cards |-> {}]
  /\ minor = [d \in Cards |-> 0] /\ phantom_devices = [m \in Minors |-> 0]
  /\ phantom_mutex = NoTask
  /\ opened = [d \in Cards |-> 0] /\ open_lock = [d \in Cards |-> NoTask]
  /\ isr = [d \in Cards |-> FALSE]
  /\ file = [f \in Files |-> Closed]
  /\ pc = [t \in Tasks |-> "idle"] /\ on = [t \in Tasks |-> NoFile]

InUse == \E f \in Files : file[f].mode # "closed"
Dev(t) == file[on[t]].card

--------------------------------------------------------------------------------
(* phantom_init and phantom_exit: whatever fails in phantom_init is undone   *)
(* before anyone can see it; rmmod needs a module nobody uses.               *)
Load ==
  /\ module = "out" /\ module' = "in"
  /\ UNCHANGED <<ctl, res, minor, phantom_devices, openVars, isr, fileVars, pc>>

Unload ==
  /\ module = "in" /\ ~InUse
  /\ module' = "going"
  /\ UNCHANGED <<ctl, res, minor, phantom_devices, openVars, isr, fileVars, pc>>

Unloaded ==
  /\ module = "going" /\ \A d \in Cards : ctl[d] = "none"
  /\ module' = "out"
  /\ UNCHANGED <<ctl, res, minor, phantom_devices, openVars, isr, fileVars, pc>>

--------------------------------------------------------------------------------
(* phantom_probe *)
\* For each acquisition: what it takes, the next step, and the label of the
\* cascade at the end of phantom_probe its failure jumps to.
Take == [p_enable  |-> [gets |-> "enabled", next |-> "p_minor", else |-> "none"],
         p_regions |-> [gets |-> "regions", next |-> "p_alloc", else |-> "err_null"],
         p_caddr   |-> [gets |-> "caddr",   next |-> "p_iaddr", else |-> "err_fr"],
         p_iaddr   |-> [gets |-> "iaddr",   next |-> "p_irq",   else |-> "err_unmc"],
         p_irq     |-> [gets |-> "irq",     next |-> "p_cdev",  else |-> "err_unmi"],
         p_cdev    |-> [gets |-> "cdev",    next |-> "bound",   else |-> "err_irq"]]

\* The cascade: what each label gives back before the next.
Unwind == [err_irq  |-> [drops |-> "irq",     next |-> "err_unmi"],
           err_unmi |-> [drops |-> "iaddr",   next |-> "err_unmc"],
           err_unmc |-> [drops |-> "caddr",   next |-> "err_fr"],
           err_fr   |-> [drops |-> "pht",     next |-> "err_reg"],
           err_reg  |-> [drops |-> "regions", next |-> "err_null"],
           err_null |-> [drops |-> "minor",   next |-> "err_dis"],
           err_dis  |-> [drops |-> "enabled", next |-> "none"]]

\* phantom_remove, in its own order.
Removal == [r_cdev    |-> [drops |-> "cdev",    next |-> "r_irq"],
            r_irq     |-> [drops |-> "irq",     next |-> "r_iaddr"],
            r_iaddr   |-> [drops |-> "iaddr",   next |-> "r_caddr"],
            r_caddr   |-> [drops |-> "caddr",   next |-> "r_free"],
            r_free    |-> [drops |-> "pht",     next |-> "r_regions"],
            r_regions |-> [drops |-> "regions", next |-> "r_minor"],
            r_minor   |-> [drops |-> "minor",   next |-> "r_disable"],
            r_disable |-> [drops |-> "enabled", next |-> "none"]]

Goto(d, label) == ctl' = [ctl EXCEPT ![d] = label]
Quiet == \A d \in Cards : ctl[d] \in {"none", "bound"}   \* the driver core is idle

Probe(d) ==
  /\ module = "in" /\ Quiet /\ ctl[d] = "none"
  /\ Goto(d, "p_enable")
  /\ UNCHANGED <<module, res, minor, phantom_devices, openVars, isr, fileVars, pc>>

ProbeTake(d) ==
  /\ ctl[d] \in DOMAIN Take
  /\ res' = [res EXCEPT ![d] = @ \cup {Take[ctl[d]].gets}]
  /\ Goto(d, Take[ctl[d]].next)
  /\ UNCHANGED <<module, minor, phantom_devices, openVars, isr, fileVars, pc>>

\* Mutant of ProbeMinor: PHANTOM_MAX_MINORS is not recognised as "none free".
ProbeMinorUnchecked(d) ==
  /\ ctl[d] = "p_minor"
  /\ \E m \in 0 .. MaxMinors :
       /\ \A k \in Minors : k < m => phantom_devices[k] # 0
       /\ minor' = [minor EXCEPT ![d] = m]
       /\ phantom_devices' = [k \in Minors |-> IF k = m THEN 1 ELSE phantom_devices[k]]
  /\ res' = [res EXCEPT ![d] = @ \cup {"minor"}]
  /\ Goto(d, "p_regions")
  /\ UNCHANGED <<module, openVars, isr, fileVars, pc>>

\* Mutant of ProbeMinor: the minor is picked but not marked as taken.
ProbeMinorUnmarked(d) ==
  /\ ctl[d] = "p_minor"
  /\ \E m \in Minors :
       /\ phantom_devices[m] = 0 /\ \A k \in Minors : k < m => phantom_devices[k] # 0
       /\ minor' = [minor EXCEPT ![d] = m]
  /\ res' = [res EXCEPT ![d] = @ \cup {"minor"}]
  /\ Goto(d, "p_regions")
  /\ UNCHANGED <<module, phantom_devices, openVars, isr, fileVars, pc>>

\* phantom_get_free, and the entry of phantom_devices it leads to.
ProbeMinor(d) ==
  /\ ctl[d] = "p_minor"
  /\ \E m \in Minors :
       /\ phantom_devices[m] = 0 /\ \A k \in Minors : k < m => phantom_devices[k] # 0
       /\ minor' = [minor EXCEPT ![d] = m]
       /\ phantom_devices' = [phantom_devices EXCEPT ![m] = 1]
  /\ res' = [res EXCEPT ![d] = @ \cup {"minor"}]
  /\ Goto(d, "p_regions")
  /\ UNCHANGED <<module, openVars, isr, fileVars, pc>>

\* kzalloc, later mutex_init: nobody has it open and nobody holds its lock.
ProbeAlloc(d) ==
  /\ ctl[d] = "p_alloc"
  /\ res' = [res EXCEPT ![d] = @ \cup {"pht"}]
  /\ opened' = [opened EXCEPT ![d] = 0] /\ open_lock' = [open_lock EXCEPT ![d] = NoTask]
  /\ Goto(d, "p_caddr")
  /\ UNCHANGED <<module, minor, phantom_devices, phantom_mutex, isr, fileVars, pc>>

ProbeFail(d) ==
  /\ \/ ctl[d] \in Failing \cap DOMAIN Take /\ Goto(d, Take[ctl[d]].else)
     \/ ctl[d] = "p_minor" /\ (\A m \in Minors : phantom_devices[m] # 0) /\ Goto(d, "err_dis")
     \/ ctl[d] = "p_alloc" /\ "p_alloc" \in Failing /\ Goto(d, "err_reg")
  /\ UNCHANGED <<module, res, minor, phantom_devices, openVars, isr, fileVars, pc>>

\* One step of a table of things to give back; free_irq waits for the handler.
Drop(d, table) ==
  /\ ctl[d] \in DOMAIN table
  /\ table[ctl[d]].drops = "irq" => ~isr[d]
  /\ res' = [res EXCEPT ![d] = @ \ {table[ctl[d]].drops}]
  /\ phantom_devices' = IF table[ctl[d]].drops = "minor"
                        THEN [phantom_devices EXCEPT ![minor[d]] = 0] ELSE phantom_devices
  /\ Goto(d, table[ctl[d]].next)
  /\ UNCHANGED <<module, minor, openVars, isr, fileVars, pc>>

\* Mutant of ProbeUnwind: the label err_null is missing.
ProbeUnwindKeepMinor(d) ==
  Drop(d, [Unwind EXCEPT !.err_reg.next = "err_dis"])

ProbeUnwind(d) == Drop(d, Unwind)

Remove(d) ==
  /\ module = "going" /\ Quiet /\ ctl[d] = "bound"
  /\ Goto(d, "r_cdev")
  /\ UNCHANGED <<module, res, minor, phantom_devices, openVars, isr, fileVars, pc>>

\* Mutant of RemoveStep: the handler is freed last.
RemoveStepIrqLast(d) ==
  Drop(d, [Removal EXCEPT !.r_cdev.next = "r_iaddr", !.r_disable.next = "r_irq",
                          !.r_irq.next = "none"])

RemoveStep(d) == Drop(d, Removal)

--------------------------------------------------------------------------------
(* phantom_isr *)
IsrEnter(d) ==
  /\ ~isr[d] /\ "irq" \in res[d]
  /\ isr' = [isr EXCEPT ![d] = TRUE]
  /\ UNCHANGED <<module, ctl, res, minor, phantom_devices, openVars, fileVars, pc>>

\* Mutant of IsrLeave: the handler polls the card for the end of the interrupt.
IsrSpins(d) == isr[d] /\ UNCHANGED vars

IsrLeave(d) ==
  /\ isr[d]
  /\ isr' = [isr EXCEPT ![d] = FALSE]
  /\ UNCHANGED <<module, ctl, res, minor, phantom_devices, openVars, fileVars, pc>>

--------------------------------------------------------------------------------
Move(t, from, to) == pc[t] = from /\ pc' = [pc EXCEPT ![t] = to]
\* The call of t on its file ends and leaves the file in the given state.
Return(t, from, state) ==
  /\ Move(t, from, "idle")
  /\ file' = [file EXCEPT ![on[t]] = state]
  /\ on' = [on EXCEPT ![t] = NoFile]
Keep == UNCHANGED <<module, ctl, res, minor, phantom_devices, isr>>

\* Mutant of Open: cdev.owner is not set, so a going module is not noticed.
OpenUnowned(t, f, d) ==
  /\ "cdev" \in res[d]
  /\ file[f].mode = "closed"
  /\ Move(t, "idle", "o_mutex")
  /\ file' = [file EXCEPT ![f] = [mode |-> "opening", card |-> d]]
  /\ on' = [on EXCEPT ![t] = f]
  /\ Keep /\ UNCHANGED openVars

(* phantom_open *)
Open(t, f, d) ==
  /\ "cdev" \in res[d] /\ module # "going"
  /\ file[f].mode = "closed"
  /\ Move(t, "idle", "o_mutex")
  /\ file' = [file EXCEPT ![f] = [mode |-> "opening", card |-> d]]
  /\ on' = [on EXCEPT ![t] = f]
  /\ Keep /\ UNCHANGED openVars

OpenMutex(t) ==
  /\ Move(t, "o_mutex", "o_lock")
  /\ phantom_mutex = NoTask /\ phantom_mutex' = t
  /\ Keep /\ UNCHANGED <<opened, open_lock, fileVars>>

OpenLock(t) ==
  /\ Move(t, "o_lock", "o_check")
  /\ open_lock[Dev(t)] = NoTask /\ open_lock' = [open_lock EXCEPT ![Dev(t)] = t]
  /\ Keep /\ UNCHANGED <<phantom_mutex, opened, fileVars>>

\* Mutant of OpenInterrupted: -ERESTARTSYS is returned with phantom_mutex held.
OpenInterruptedLocked(t) ==
  /\ Return(t, "o_lock", Closed)
  /\ Keep /\ UNCHANGED openVars

\* A signal ends the wait for open_lock: -ERESTARTSYS.
OpenInterrupted(t) ==
  /\ Return(t, "o_lock", Closed)
  /\ phantom_mutex' = NoTask
  /\ Keep /\ UNCHANGED <<opened, open_lock>>

\* Mutant of OpenCheck: the device is busy from the second opener on.
OpenCheckSecond(t) ==
  /\ Move(t, "o_check", IF opened[Dev(t)] > 1 THEN "o_busy" ELSE "o_incr")
  /\ Keep /\ UNCHANGED <<openVars, fileVars>>

OpenCheck(t) ==
  /\ Move(t, "o_check", IF opened[Dev(t)] # 0 THEN "o_busy" ELSE "o_incr")
  /\ Keep /\ UNCHANGED <<openVars, fileVars>>

OpenIncr(t) ==
  /\ Move(t, "o_incr", "o_unlock")
  /\ opened' = [opened EXCEPT ![Dev(t)] = @ + 1]
  /\ Keep /\ UNCHANGED <<phantom_mutex, open_lock, fileVars>>

\* mutex_unlock of dev->open_lock, on the way to 0 or to -EBUSY.
OpenUnlock(t) ==
  /\ Move(t, "o_unlock", "o_done") \/ Move(t, "o_busy", "o_fail")
  /\ open_lock' = [open_lock EXCEPT ![Dev(t)] = NoTask]
  /\ Keep /\ UNCHANGED <<phantom_mutex, opened, fileVars>>

OpenDone(t) ==
  /\ \/ Return(t, "o_done", [file[on[t]] EXCEPT !.mode = "open"])
     \/ Return(t, "o_fail", Closed)
  /\ phantom_mutex' = NoTask
  /\ Keep /\ UNCHANGED <<opened, open_lock>>

--------------------------------------------------------------------------------
(* phantom_write: nothing is written unless the count is right; several      *)
(* threads may write through one file.                                       *)
Write(t, f) ==
  /\ file[f].mode = "open"
  /\ Move(t, "idle", "w_regs") /\ on' = [on EXCEPT ![t] = f]
  /\ Keep /\ UNCHANGED <<file, openVars>>

WriteDone(t) ==
  /\ Return(t, "w_regs", file[on[t]])
  /\ Keep /\ UNCHANGED openVars

(* phantom_release, called when no call on the file is left. *)
Release(t, f) ==
  /\ file[f].mode = "open" /\ \A u \in Tasks : on[u] # f
  /\ Move(t, "idle", "c_lock") /\ on' = [on EXCEPT ![t] = f]
  /\ file' = [file EXCEPT ![f].mode = "closing"]
  /\ Keep /\ UNCHANGED openVars

ReleaseLock(t) ==
  /\ Move(t, "c_lock", "c_reset")
  /\ open_lock[Dev(t)] = NoTask /\ open_lock' = [open_lock EXCEPT ![Dev(t)] = t]
  /\ Keep /\ UNCHANGED <<phantom_mutex, opened, fileVars>>

ReleaseReset(t) ==
  /\ Move(t, "c_reset", "c_unlock")
  /\ opened' = [opened EXCEPT ![Dev(t)] = 0]
  /\ Keep /\ UNCHANGED <<phantom_mutex, open_lock, fileVars>>

ReleaseUnlock(t) ==
  /\ Return(t, "c_unlock", Closed)
  /\ open_lock' = [open_lock EXCEPT ![Dev(t)] = NoTask]
  /\ Keep /\ UNCHANGED <<phantom_mutex, opened>>

--------------------------------------------------------------------------------
Acquire(t) == OpenMutex(t) \/ OpenLock(t) \/ ReleaseLock(t)
Step(t) == \/ OpenCheck(t) \/ OpenIncr(t) \/ OpenUnlock(t) \/ OpenDone(t)
           \/ WriteDone(t) \/ ReleaseReset(t) \/ ReleaseUnlock(t)
Control(d) == ProbeTake(d) \/ ProbeMinor(d) \/ ProbeAlloc(d) \/ ProbeFail(d)
              \/ ProbeUnwind(d) \/ RemoveStep(d)

Next == \/ Load \/ Unload \/ Unloaded
        \/ \E d \in Cards : Probe(d) \/ Remove(d) \/ Control(d) \/ IsrEnter(d) \/ IsrLeave(d)
        \/ \E t \in Tasks : \/ \E f \in Files, d \in Cards : Open(t, f, d)
                            \/ \E f \in Files : Write(t, f) \/ Release(t, f)
                            \/ Acquire(t) \/ Step(t) \/ OpenInterrupted(t)

Spec == Init /\ [][Next]_vars

\* A thread inside the driver keeps running, a mutex passed on again and again
\* reaches every waiter, a handler ends, and free_irq (it takes the handler off
\* the line before it waits) ends.  Nobody has to make a call or send a signal.
Fairness == /\ \A t \in Tasks : WF_vars(Step(t)) /\ SF_vars(Acquire(t))
            /\ \A d \in Cards : SF_vars(Control(d)) /\ WF_vars(IsrLeave(d))

FairSpec == Spec /\ Fairness

--------------------------------------------------------------------------------
(* Type correctness: in particular a minor number is an index into           *)
(* phantom_devices and dev->opened never exceeds 1.                          *)
TypeOK ==
  /\ module \in {"out", "in", "going"}
  /\ ctl \in [Cards -> {"none", "p_minor", "p_alloc", "bound"} \cup DOMAIN Take
                          \cup DOMAIN Unwind \cup DOMAIN Removal]
  /\ res \in [Cards -> SUBSET {"enabled", "minor", "regions", "pht", "caddr", "iaddr",
                                "irq", "cdev"}]
  /\ minor \in [Cards -> Minors] /\ phantom_devices \in [Minors -> {0, 1}]
  /\ phantom_mutex \in Tasks \cup {NoTask}
  /\ opened \in [Cards -> 0 .. 1] /\ open_lock \in [Cards -> Tasks \cup {NoTask}]
  /\ isr \in [Cards -> BOOLEAN]
  /\ file \in [Files -> [mode : {"closed", "opening", "open", "closing"},
                          card : Cards \cup {NoCard}]]
  /\ pc \in [Tasks -> {"idle", "w_regs", "o_mutex", "o_lock", "o_check", "o_incr", "o_unlock",
                        "o_busy", "o_done", "o_fail", "c_lock", "c_reset", "c_unlock"}]
  /\ on \in [Tasks -> Files \cup {NoFile}]

(* The device structure and the mapping of iaddr are there whenever the      *)
(* interrupt handler runs and as long as a file is open on the card:         *)
(* phantom_remove frees the line before it unmaps anything, and cdev.owner   *)
(* keeps a module with open files from being removed.                        *)
DeviceUsable ==
  \A d \in Cards :
    isr[d] \/ (\E f \in Files : file[f].card = d) => {"pht", "iaddr"} \subseteq res[d]

(* The files dev->opened of card d stands for.                               *)
Holders(d) == {f \in Files : /\ file[f].card = d
                             /\ \/ file[f].mode = "open"
                                \/ \E t \in Tasks :
                                     /\ on[t] = f
                                     /\ pc[t] \in {"o_unlock", "o_done", "c_lock", "c_reset"}}

(* At most one file is open on a card, and dev->opened says whether: an open *)
(* that races with the release of the last holder either gets the device or  *)
(* is turned away, and what it finds in dev->opened is never out of date.    *)
OneOpener ==
  \A d \in Cards : /\ \A f, g \in Holders(d) : f = g
                   /\ opened[d] = IF Holders(d) = {} THEN 0 ELSE 1

Owns(d, m) == "minor" \in res[d] /\ minor[d] = m

(* A minor number belongs to one card, and phantom_devices tells the taken   *)
(* ones from the free ones.                                                  *)
MinorsUnique ==
  /\ \A d, e \in Cards : Owns(d, minor[d]) /\ Owns(e, minor[d]) => d = e
  /\ \A m \in Minors : phantom_devices[m] = IF \E d \in Cards : Owns(d, m) THEN 1 ELSE 0

(* Whichever step of phantom_probe fails, and after phantom_remove, the card *)
(* holds nothing: the labels of the cascade are entered at the right place.  *)
NothingLeaked == \A d \in Cards : ctl[d] = "none" => res[d] = {}

(* Every open, write and close ends, also when opens fail or are interrupted *)
(* while they wait for the two mutexes.                                      *)
CallsReturn == \A t \in Tasks : pc[t] # "idle" ~> pc[t] = "idle"

(* phantom_probe and phantom_remove end, although free_irq waits for a       *)
(* handler that other interrupts start again and again.                      *)
ControlReturns == \A d \in Cards : ctl[d] \notin {"none", "bound"} ~> ctl[d] \in {"none", "bound"}

================================================================================
