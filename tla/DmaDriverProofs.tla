----------------------------- MODULE DmaDriverProofs -----------------------------
(***************************************************************************)
(* Proofs about DmaDriver for any number of cards, any failing probe step  *)
(* and any sequence of probes and removals: the handler and the timer      *)
(* callback never run without the mapping and the struct they use.         *)
(*                                                                         *)
(* The property itself says nothing of when the handler is registered or   *)
(* the timer armed, so it is not inductive.  LifeInv follows the order of  *)
(* my_probe and my_remove: the resources are complete before request_irq,  *)
(* a handler runs only while registered, a timer lives only from mod_timer *)
(* to del_timer_sync, and both are over before anything is freed.          *)
(*                                                                         *)
(* Then the types, and that the driver implements TimerDriver: Frame says  *)
(* that a step of card d moves the abstract state of d alone, so that each *)
(* action is matched at d with an action of TimerDriver or with none.      *)
(*                                                                         *)
(* Last, the greeting's way through the card: SentInv says which transfer  *)
(* is under way at which label, BackInv and PrintInv what has arrived by   *)
(* the time the help struct is complete and the tasklet prints.            *)
(***************************************************************************)
EXTENDS DmaDriver, TLAPS

\* Between these labels of my_probe the BAR is mapped, then the struct there.
HasBar  == {"p_help", "p_page", "p_x1", "p_poll1", "p_x2", "p_poll2", "p_setup"}
HasHelp == HasBar \ {"p_help"}

\* From request_irq to free_irq, and from mod_timer to del_timer_sync.
TimerArmed == {"bound", "r_kill", "r_kfree", "r_null", "r_timer"}
Registered == TimerArmed \cup {"p_ints", "p_x3", "p_arm", "r_irq"}
Usable     == Registered \cup {"p_irq"}

LifeType ==
  /\ ctl \in [Cards -> {"new", "bound", "unbound"} \cup Probing \cup Removing]
  /\ res \in [Cards -> SUBSET Resources]
  /\ isr \in [Cards -> {"off", "read", "ack", "init", "sched"}]
  /\ pending \in [Cards -> BOOLEAN] /\ firing \in [Cards -> {"off", "raise", "rearm"}]

LifeInv ==
  \A d \in Cards :
    /\ isr[d] # "off" => "irq" \in res[d]
    /\ "irq" \in res[d] => ctl[d] \in Registered
    /\ pending[d] => ctl[d] \in TimerArmed
    /\ firing[d] # "off" => ctl[d] \in TimerArmed
    /\ ctl[d] \in HasBar => "bar" \in res[d]
    /\ ctl[d] \in HasHelp => "help" \in res[d]
    /\ ctl[d] \in Usable => {"bar", "help", "fields"} \subseteq res[d]

DInv == LifeType /\ LifeInv

\* Before the first probe no card has anything registered.
LEMMA DInit == Init => DInv
BY DEF Init, DInv, LifeType, LifeInv, Registered, TimerArmed, HasBar, HasHelp, Usable

\* The steps of my_probe and my_remove keep to the order LifeInv states.
LEMMA ControlSteps ==
  ASSUME DInv, NEW d \in Cards, Probe(d) \/ ProbeStep(d) \/ Remove(d) \/ RemoveStep(d)
  PROVE  DInv'
<1> USE DEF DInv, LifeType, LifeInv, Registered, TimerArmed, HasBar, HasHelp, Usable, Goto
<1>1. CASE Probe(d)
  BY <1>1 DEF Probe, Probing, Fallible, irqVars, timeVars
<1>2. CASE ProbeTask(d) \/ ProbePage(d)
  BY <1>2 DEF ProbeTask, ProbePage, Gain, Probing, Resources, Fallible, irqVars, timeVars
<1>3. CASE ProbeAcquire(d)
  <2>1. /\ UNCHANGED <<isr, pending, firing>>
        /\ \A e \in Cards \ {d} : ctl'[e] = ctl[e] /\ res'[e] = res[e]
        /\ ctl' \in [Cards -> {"new", "bound", "unbound"} \cup Probing \cup Removing]
        /\ res' \in [Cards -> SUBSET Resources]
    BY <1>3 DEF ProbeAcquire, Gain, Probing, Fallible, Resources, irqVars, timeVars
  <2>2. CASE ctl[d] \in {"p_enable", "p_mask", "p_region"}
    BY <1>3, <2>1, <2>2 DEF ProbeAcquire, Gain
  <2>3. CASE ctl[d] \in {"p_bar", "p_help"}
    BY <1>3, <2>1, <2>3 DEF ProbeAcquire, Gain
  <2>4. CASE ctl[d] = "p_setup"
    BY <1>3, <2>1, <2>4 DEF ProbeAcquire, Gain
  <2>5. CASE ctl[d] = "p_irq"
    BY <1>3, <2>1, <2>5 DEF ProbeAcquire, Gain
  <2> QED
    BY <1>3, <2>2, <2>3, <2>4, <2>5 DEF ProbeAcquire
<1>4. CASE ProbeFail(d)
  BY <1>4, DmaAssumption DEF ProbeFail, Fallible, irqVars, timeVars
<1>5. CASE ProbeTransfer(d) \/ ProbePoll(d) \/ ProbeEnableInterrupts(d)
  BY <1>5 DEF ProbeTransfer, ProbePoll, ProbeEnableInterrupts, Probing, irqVars, timeVars
<1>6. CASE ProbeArm(d)
  BY <1>6 DEF ProbeArm, irqVars
<1>7. CASE Remove(d)
  BY <1>7 DEF Remove, Removing, irqVars, timeVars
<1>8. CASE RemoveKill(d) \/ RemoveKfree(d) \/ RemoveNull(d)
  BY <1>8 DEF RemoveKill, RemoveKfree, RemoveNull, Removing, irqVars, timeVars
<1>9. CASE RemoveTimer(d)
  BY <1>9 DEF RemoveTimer, Removing, irqVars
<1>10. CASE RemoveIrq(d)
  BY <1>10 DEF RemoveIrq, Removing, irqVars, timeVars
<1>11. CASE RemoveFree(d)
  BY <1>11 DEF RemoveFree, irqVars, timeVars
<1> QED
  BY <1>1, <1>2, <1>3, <1>4, <1>5, <1>6, <1>7, <1>8, <1>9, <1>10, <1>11 DEF ProbeStep, RemoveStep

\* A handler starts only while it is registered, a timer callback only while
\* its timer is armed, and neither touches the resources.
LEMMA CallbackSteps ==
  ASSUME DInv, NEW d \in Cards,
         IsrEnter(d) \/ IsrStep(d) \/ TaskletStep(d) \/ TimerStep(d) \/ CardDone(d)
  PROVE  DInv'
<1> USE DEF DInv, LifeType, LifeInv
<1>1. CASE IsrEnter(d)
  BY <1>1 DEF IsrEnter, timeVars
<1>2. CASE IsrRead(d) \/ IsrAck(d) \/ IsrInit(d) \/ IsrSchedule(d)
  BY <1>2 DEF IsrRead, IsrAck, IsrInit, IsrSchedule, timeVars
<1>3. CASE TaskletStep(d)
  BY <1>3 DEF TaskletStep, TaskletStart, TaskletEnd, irqVars, timeVars
<1>4. CASE TimerStep(d)
  BY <1>4 DEF TimerStep, TimerFire, TimerRaise, TimerRearm, irqVars
<1>5. CASE CardDone(d)
  BY <1>5 DEF CardDone, irqVars, timeVars
<1> QED
  BY <1>1, <1>2, <1>3, <1>4, <1>5 DEF IsrStep

\* LifeInv is inductive.
LEMMA DNext == DInv /\ [Next]_vars => DInv'
<1> SUFFICES ASSUME DInv, [Next]_vars PROVE DInv'
  OBVIOUS
<1>1. CASE User
  BY <1>1 DEF User, Mmap, Munmap, DInv, LifeType, LifeInv, irqVars, timeVars
<1>2. CASE UNCHANGED vars
  BY <1>2 DEF vars, irqVars, timeVars, DInv, LifeType, LifeInv
<1> QED
  BY <1>1, <1>2, ControlSteps, CallbackSteps DEF Next

\* my_handler and raise_intr run, and the timer stays armed, only while the BAR
\* is mapped and the help struct is complete, on every card.
THEOREM CallbacksSafe == Spec => []BarMappedWhileUsed
<1>1. DInv => BarMappedWhileUsed
  BY DEF DInv, LifeInv, BarMappedWhileUsed, TimerLive, Usable, Registered
<1> QED
  BY <1>1, DInit, DNext, PTL DEF Spec

--------------------------------------------------------------------------------
(* Types *)

\* A step of my_probe or my_remove keeps the types.
LEMMA ControlTypes ==
  ASSUME TypeOK, NEW d \in Cards, Probe(d) \/ ProbeStep(d) \/ Remove(d) \/ RemoveStep(d)
  PROVE  TypeOK'
<1> USE DEF TypeOK, Goto, Gain, Probing, Fallible, Removing, Resources
<1>1. CASE Probe(d) \/ Remove(d)
  BY <1>1 DEF Probe, Remove, taskVars, cardVars, irqVars, timeVars
<1>2. CASE ProbeTask(d)
  <2>1. PICK s, r \in Garbage :
          tasklet' = [tasklet EXCEPT ![d] = [mem |-> "raw", sched |-> s, queued |-> FALSE,
                                             run |-> r, data |-> NULL]]
    BY <1>2 DEF ProbeTask
  <2>2. s \in BOOLEAN /\ r \in BOOLEAN
    BY DmaAssumption
  <2>3. tasklet' \in [Cards -> Tasklets]
    BY <2>1, <2>2 DEF Tasklets
  <2> QED
    BY <1>2, <2>3 DEF ProbeTask, cardVars, irqVars, timeVars
<1>3. CASE ProbeAcquire(d)
  <2>1. \E label \in Probing : ctl' = [ctl EXCEPT ![d] = label]
    BY <1>3 DEF ProbeAcquire
  <2>2. res' = res \/ \E r \in Resources : res' = [res EXCEPT ![d] = @ \cup {r}]
    BY <1>3 DEF ProbeAcquire
  <2>3. ctl' \in [Cards -> {"new", "bound", "unbound"} \cup Probing \cup Removing]
    BY <2>1
  <2>4. res' \in [Cards -> SUBSET Resources]
    BY <2>2
  <2> QED
    BY <1>3, <2>3, <2>4 DEF ProbeAcquire, taskVars, cardVars, irqVars, timeVars
<1>4. CASE ProbePage(d)
  <2>1. [o \in Offsets |-> o = 0] \in [Offsets -> BOOLEAN]
    OBVIOUS
  <2>2. page' \in [Cards -> [Offsets -> BOOLEAN]]
    BY <1>4, <2>1 DEF ProbePage
  <2>3. ctl' \in [Cards -> {"new", "bound", "unbound"} \cup Probing \cup Removing]
        /\ res' \in [Cards -> SUBSET Resources]
    BY <1>4 DEF ProbePage
  <2>4. dma_virt_addr' \in Cards \cup {NULL}
        /\ UNCHANGED <<task, tasklet, busy, cardmem, raised, isr, interrupt, pending, firing,
                       mmaps, oops>>
    BY <1>4 DEF ProbePage, taskVars, irqVars, timeVars
  <2> QED
    BY <2>2, <2>3, <2>4
<1>5. CASE ProbeFail(d)
  BY <1>5 DEF ProbeFail, cardVars, irqVars, timeVars
<1>6. CASE ProbeTransfer(d)
  <2>1. busy' \in [Cards -> 0 .. 3]
    BY <1>6 DEF ProbeTransfer
  <2>3. \E label \in Probing : ctl' = [ctl EXCEPT ![d] = label]
    BY <1>6 DEF ProbeTransfer
  <2>4. ctl' \in [Cards -> {"new", "bound", "unbound"} \cup Probing \cup Removing]
    BY <2>3
  <2>2. UNCHANGED <<res, task, tasklet, dma_virt_addr, cardmem, raised, page, isr, interrupt,
                    pending, firing, mmaps, oops>>
    BY <1>6 DEF ProbeTransfer, taskVars, irqVars, timeVars
  <2> QED
    BY <2>1, <2>2, <2>4
<1>7. CASE ProbePoll(d) \/ ProbeEnableInterrupts(d)
  BY <1>7 DEF ProbePoll, ProbeEnableInterrupts, taskVars, cardVars, irqVars, timeVars
<1>8. CASE ProbeArm(d)
  BY <1>8 DEF ProbeArm, taskVars, cardVars, irqVars
<1>9. CASE RemoveKfree(d)
  <2>1. CASE task = NULL
    BY <1>9, <2>1 DEF RemoveKfree, cardVars, irqVars, timeVars
  <2>2. CASE task # NULL
    <3>1. task \in Cards /\ tasklet[task] \in Tasklets
      BY <2>2
    <3>2. [tasklet[task] EXCEPT !.mem = "freed"] \in Tasklets
      BY <3>1 DEF Tasklets
    <3>3. tasklet' = [tasklet EXCEPT ![task] = [tasklet[task] EXCEPT !.mem = "freed"]]
      BY <1>9, <2>2, <3>1 DEF RemoveKfree
    <3>4. tasklet' \in [Cards -> Tasklets]
      BY <3>1, <3>2, <3>3
    <3> QED
      BY <1>9, <3>4 DEF RemoveKfree, cardVars, irqVars, timeVars
  <2> QED
    BY <2>1, <2>2
<1>10. CASE RemoveKill(d) \/ RemoveNull(d)
  BY <1>10 DEF RemoveKill, RemoveNull, taskVars, cardVars, irqVars, timeVars
<1>11. CASE RemoveTimer(d)
  BY <1>11 DEF RemoveTimer, taskVars, cardVars, irqVars
<1>12. CASE RemoveIrq(d) \/ RemoveFree(d)
  BY <1>12 DEF RemoveIrq, RemoveFree, taskVars, cardVars, irqVars, timeVars
<1> QED
  BY <1>1, <1>2, <1>3, <1>4, <1>5, <1>6, <1>7, <1>8, <1>9, <1>10, <1>11, <1>12
     DEF ProbeStep, RemoveStep

\* So does a step of a handler, a tasklet, a timer or the card.
LEMMA CallbackTypes ==
  ASSUME TypeOK, NEW d \in Cards,
         IsrEnter(d) \/ IsrStep(d) \/ TaskletStep(d) \/ TimerStep(d) \/ CardDone(d)
  PROVE  TypeOK'
<1> USE DEF TypeOK, Causes
<1>1. CASE IsrEnter(d)
  BY <1>1 DEF IsrEnter, taskVars, cardVars, timeVars
<1>2. CASE IsrRead(d)
  BY <1>2 DEF IsrRead, taskVars, cardVars, timeVars
<1>3. CASE IsrAck(d)
  BY <1>3 DEF IsrAck, taskVars, timeVars
<1>4. CASE IsrInit(d)
  <2>1. tasklet' \in [Cards -> Tasklets]
    <3>1. CASE task = NULL
      BY <1>4, <3>1 DEF IsrInit
    <3>2. CASE task # NULL
      <4>1. task \in Cards /\ tasklet[task] \in Tasklets
        BY <3>2
      <4> DEFINE t == tasklet[task]
      <4> DEFINE new == [t EXCEPT !.mem = IF @ = "freed" THEN @ ELSE "ready",
                                !.sched = FALSE, !.run = FALSE, !.data = d]
      <4>2. new \in Tasklets
        BY <4>1, DmaAssumption DEF Tasklets
      <4>3. tasklet' = [tasklet EXCEPT ![task] = new]
        BY <1>4, <3>2, <4>1 DEF IsrInit
      <4> QED
        BY <4>1, <4>2, <4>3
    <3> QED
      BY <3>1, <3>2
  <2> QED
    BY <1>4, <2>1 DEF IsrInit, cardVars, timeVars
<1>5. CASE IsrSchedule(d)
  <2>1. tasklet' \in [Cards -> Tasklets]
    <3>1. CASE task = NULL
      BY <1>5, <3>1 DEF IsrSchedule
    <3>2. CASE task # NULL
      <4>1. task \in Cards /\ tasklet[task] \in Tasklets
        BY <3>2
      <4> DEFINE t == tasklet[task]
      <4> DEFINE new == [t EXCEPT !.sched = TRUE, !.queued = @ \/ ~t.sched]
      <4>2. new \in Tasklets
        BY <4>1, DmaAssumption DEF Tasklets
      <4>3. tasklet' = [tasklet EXCEPT ![task] = new]
        BY <1>5, <3>2, <4>1 DEF IsrSchedule
      <4> QED
        BY <4>1, <4>2, <4>3
    <3> QED
      BY <3>1, <3>2
  <2> QED
    BY <1>5, <2>1 DEF IsrSchedule, cardVars, timeVars
<1>6. CASE TaskletStep(d)
  <2>1. tasklet' \in [Cards -> Tasklets]
    <3> DEFINE t == tasklet[d]
    <3>1. t \in Tasklets
      OBVIOUS
    <3>2. [t EXCEPT !.queued = FALSE, !.sched = FALSE, !.run = TRUE] \in Tasklets
          /\ [t EXCEPT !.run = FALSE] \in Tasklets
      BY <3>1 DEF Tasklets
    <3>3. \/ tasklet' = [tasklet EXCEPT ![d] = [t EXCEPT !.queued = FALSE, !.sched = FALSE,
                                                        !.run = TRUE]]
          \/ tasklet' = [tasklet EXCEPT ![d] = [t EXCEPT !.run = FALSE]]
      BY <1>6 DEF TaskletStep, TaskletStart, TaskletEnd
    <3> QED
      BY <3>2, <3>3
  <2> QED
    BY <1>6, <2>1 DEF TaskletStep, TaskletStart, TaskletEnd, cardVars, irqVars, timeVars
<1>7. CASE TimerStep(d)
  <2>1. pending' \in [Cards -> BOOLEAN] /\ firing' \in [Cards -> {"off", "raise", "rearm"}]
    BY <1>7 DEF TimerStep, TimerFire, TimerRaise, TimerRearm
  <2>2. raised' \in [Cards -> SUBSET Causes]
    BY <1>7 DEF TimerStep, TimerFire, TimerRaise, TimerRearm, cardVars
  <2>3. UNCHANGED <<ctl, res, task, tasklet, dma_virt_addr, busy, cardmem, page, isr, interrupt,
                    mmaps, oops>>
    BY <1>7 DEF TimerStep, TimerFire, TimerRaise, TimerRearm, taskVars, cardVars, irqVars
  <2> QED
    BY <2>1, <2>2, <2>3
<1>8. CASE CardDone(d)
  <2>1. page' \in [Cards -> [Offsets -> BOOLEAN]]
    BY <1>8 DEF CardDone, Offsets
  <2>2. cardmem' \in [Cards -> BOOLEAN]
    BY <1>8 DEF CardDone, Offsets
  <2> QED
    BY <1>8, <2>1, <2>2 DEF CardDone, taskVars, irqVars, timeVars
<1> QED
  BY <1>1, <1>2, <1>3, <1>4, <1>5, <1>6, <1>7, <1>8 DEF IsrStep

\* The variables of the DMA driver keep their types, for any number of cards
\* and whatever fresh memory holds: the register has no cause the handler does
\* not know, and each global points to nothing or to what a probe allocated.
THEOREM TypeCorrect == Spec => []TypeOK
<1>1. Init => TypeOK
  <2> SUFFICES ASSUME Init PROVE TypeOK
    OBVIOUS
  <2>1. tasklet \in [Cards -> Tasklets]
    BY DEF Init, Tasklets
  <2>2. [o \in Offsets |-> FALSE] \in [Offsets -> BOOLEAN]
    OBVIOUS
  <2>3. page \in [Cards -> [Offsets -> BOOLEAN]]
    BY <2>2 DEF Init
  <2>4. /\ ctl \in [Cards -> {"new", "bound", "unbound"} \cup Probing \cup Removing]
        /\ res \in [Cards -> SUBSET Resources]
        /\ raised \in [Cards -> SUBSET Causes] /\ interrupt \in [Cards -> SUBSET Causes]
        /\ isr \in [Cards -> {"off", "read", "ack", "init", "sched"}]
        /\ firing \in [Cards -> {"off", "raise", "rearm"}] /\ mmaps \subseteq Cards
    BY DEF Init
  <2>5. /\ task \in Cards \cup {NULL} /\ dma_virt_addr \in Cards \cup {NULL}
        /\ busy \in [Cards -> 0 .. 3]
    BY DEF Init
  <2>6. cardmem \in [Cards -> BOOLEAN] /\ pending \in [Cards -> BOOLEAN] /\ oops \in BOOLEAN
    BY DEF Init
  <2> QED
    BY <2>1, <2>3, <2>4, <2>5, <2>6 DEF TypeOK
<1>2. TypeOK /\ [Next]_vars => TypeOK'
  <2> SUFFICES ASSUME TypeOK, [Next]_vars PROVE TypeOK'
    OBVIOUS
  <2>1. CASE User
    BY <2>1 DEF User, Mmap, Munmap, TypeOK, taskVars, cardVars, irqVars, timeVars
  <2>2. CASE UNCHANGED vars
    BY <2>2 DEF vars, TypeOK, taskVars, cardVars, irqVars, timeVars
  <2> QED
    BY <2>1, <2>2, ControlTypes, CallbackTypes DEF Next
<1> QED
  BY <1>1, <1>2, PTL DEF Spec
--------------------------------------------------------------------------------
(* The driver of 11/homework implements the driver of 09 *)

\* The substituted variables of TimerDriver.
OldCtlF    == [d \in Cards |-> OldLabel(ctl[d])]
OldResF    == [d \in Cards |-> OldRes(d)]
OldRaisedF == [d \in Cards |-> "T" \in raised[d]]
OldIsrF    == [d \in Cards |-> OldIsr(d)]

\* Where each step of my_probe and my_remove stands in the driver of 09.
LEMMA Labels ==
  /\ OldLabel("new") = "new" /\ OldLabel("bound") = "bound" /\ OldLabel("unbound") = "unbound"
  /\ OldLabel("p_task") = "p_enable" /\ OldLabel("p_enable") = "p_enable"
  /\ OldLabel("p_mask") = "p_region" /\ OldLabel("p_region") = "p_region"
  /\ OldLabel("p_bar") = "p_bar" /\ OldLabel("p_help") = "p_timer"
  /\ OldLabel("p_page") = "p_help" /\ OldLabel("p_x1") = "p_help"
  /\ OldLabel("p_poll1") = "p_help" /\ OldLabel("p_x2") = "p_help"
  /\ OldLabel("p_poll2") = "p_help" /\ OldLabel("p_setup") = "p_help"
  /\ OldLabel("p_irq") = "p_irq" /\ OldLabel("p_ints") = "p_arm"
  /\ OldLabel("p_x3") = "p_arm" /\ OldLabel("p_arm") = "p_arm"
  /\ OldLabel("r_kill") = "r_timer" /\ OldLabel("r_kfree") = "r_timer"
  /\ OldLabel("r_null") = "r_timer" /\ OldLabel("r_timer") = "r_timer"
  /\ OldLabel("r_irq") = "r_irq" /\ OldLabel("r_free") = "r_free"
  BY DEF OldLabel

\* The resources of 09 that a card at label with resources R holds.
OldHeld(label, R) ==
  (R \cap {"enabled", "region", "bar", "irq"})
    \cup {r \in {"timer"} : "help" \in R /\ label \notin {"r_irq", "r_free"}}
    \cup {r \in {"help"} : "fields" \in R}

\* What a step of card d leaves alone.
Only(d) ==
  \A c \in Cards : c # d => /\ ctl'[c] = ctl[c] /\ res'[c] = res[c] /\ raised'[c] = raised[c]
                            /\ isr'[c] = isr[c] /\ interrupt'[c] = interrupt[c]

\* A step of card d changes the abstract state of d alone.
LEMMA Frame ==
  ASSUME NEW d \in Cards, Only(d)
  PROVE  /\ OldCtlF' = [OldCtlF EXCEPT ![d] = OldLabel(ctl'[d])]
         /\ OldResF' = [OldResF EXCEPT ![d] = OldHeld(ctl'[d], res'[d])]
         /\ OldRaisedF' = [OldRaisedF EXCEPT ![d] = "T" \in raised'[d]]
         /\ OldIsrF' = [OldIsrF EXCEPT ![d] = OldIsr(d)']
<1>1. \A c \in Cards : c # d => OldRes(c)' = OldRes(c) /\ OldIsr(c)' = OldIsr(c)
  BY DEF OldRes, OldIsr, Only
<1>2. OldRes(d)' = OldHeld(ctl'[d], res'[d])
  BY DEF OldRes, OldHeld
<1>3. \A c \in Cards : c # d => ctl'[c] = ctl[c]
  BY DEF Only
<1>4. \A c \in Cards : c # d => OldLabel(ctl'[c]) = OldLabel(ctl[c])
  BY <1>3
<1>5. \A c \in Cards : c # d => raised'[c] = raised[c]
  BY DEF Only
<1>6. OldCtlF' = [OldCtlF EXCEPT ![d] = OldLabel(ctl'[d])]
  BY <1>4 DEF OldCtlF
<1>7. OldResF' = [OldResF EXCEPT ![d] = OldHeld(ctl'[d], res'[d])]
  BY <1>1, <1>2 DEF OldResF
<1>8. OldRaisedF' = [OldRaisedF EXCEPT ![d] = "T" \in raised'[d]]
  BY <1>5 DEF OldRaisedF
<1>9. OldIsrF' = [OldIsrF EXCEPT ![d] = OldIsr(d)']
  BY <1>1 DEF OldIsrF
<1> QED
  BY <1>6, <1>7, <1>8, <1>9

\* The abstract state of one card.
LEMMA Here ==
  ASSUME NEW d \in Cards
  PROVE  /\ OldCtlF[d] = OldLabel(ctl[d]) /\ OldResF[d] = OldHeld(ctl[d], res[d])
         /\ OldRaisedF[d] = ("T" \in raised[d]) /\ OldIsrF[d] = OldIsr(d)
  BY DEF OldCtlF, OldResF, OldRes, OldHeld, OldRaisedF, OldIsrF

\* If the label stands for the same step and nothing of 09 changes, the driver
\* of 09 has not moved.
LEMMA Stutter ==
  ASSUME NEW d \in Cards, Only(d), OldLabel(ctl'[d]) = OldLabel(ctl[d]),
         OldHeld(ctl'[d], res'[d]) = OldHeld(ctl[d], res[d]),
         ("T" \in raised'[d]) = ("T" \in raised[d]), OldIsr(d)' = OldIsr(d),
         pending' = pending, firing' = firing
  PROVE  UNCHANGED Old!vars
<1>1. OldCtlF' = OldCtlF
  BY Frame, Here DEF OldCtlF
<1>2. OldResF' = OldResF
  BY Frame, Here DEF OldResF
<1>3. OldRaisedF' = OldRaisedF
  BY Frame, Here DEF OldRaisedF
<1>4. OldIsrF' = OldIsrF
  BY Frame, Here DEF OldIsrF
<1> QED
  BY <1>1, <1>2, <1>3, <1>4 DEF Old!vars, OldCtlF, OldResF, OldRaisedF, OldIsrF

\* A control step leaves the handler and the timer alone.
Quiet == /\ raised' = raised /\ isr' = isr /\ interrupt' = interrupt
         /\ pending' = pending /\ firing' = firing

LEMMA QuietFrame ==
  ASSUME Quiet
  PROVE  OldRaisedF' = OldRaisedF /\ OldIsrF' = OldIsrF /\ pending' = pending /\ firing' = firing
         /\ \A d \in Cards : ("T" \in raised'[d]) = ("T" \in raised[d]) /\ OldIsr(d)' = OldIsr(d)
  BY DEF Quiet, OldRaisedF, OldIsrF, OldIsr

\* A step of my_probe is one of the driver of 09 or leaves it where it was.
LEMMA ProbeRefines ==
  ASSUME TypeOK, NEW d \in Cards, Probe(d) \/ ProbeStep(d)
  PROVE  Old!Next \/ UNCHANGED Old!vars
<1> USE DEF Goto, Gain
<1>1. CASE Probe(d)
  <2>1. Only(d) /\ Quiet /\ ctl'[d] = "p_task" /\ ctl[d] \in {"new", "unbound"} /\ res' = res
    BY <1>1 DEF Probe, Only, Quiet, TypeOK, cardVars, irqVars, timeVars
  <2>2. OldHeld(ctl'[d], res'[d]) = OldHeld(ctl[d], res[d])
    BY <2>1 DEF OldHeld
  <2>3. /\ OldCtlF[d] \in {"new", "unbound"} /\ OldCtlF' = [OldCtlF EXCEPT ![d] = "p_enable"]
        /\ OldResF' = [OldResF EXCEPT ![d] = OldResF[d]]
    BY <2>1, <2>2, Frame, Here, Labels
  <2>4. OldResF' = OldResF
    BY <2>3 DEF OldResF
  <2>5. Old!Probe(d)
    BY <2>1, <2>3, <2>4, QuietFrame DEF Old!Probe, Old!Move, OldCtlF, OldResF, OldRaisedF, OldIsrF
  <2> QED
    BY <2>5 DEF Old!Next
<1>2. CASE ProbeTask(d) \/ ProbePage(d) \/ ProbeTransfer(d) \/ ProbePoll(d)
           \/ ProbeEnableInterrupts(d)
  <2>1. Only(d)
    BY <1>2 DEF ProbeTask, ProbePage, ProbeTransfer, ProbePoll, ProbeEnableInterrupts,
         Only, TypeOK, cardVars, irqVars, timeVars
  <2>2. Quiet
    BY <1>2 DEF ProbeTask, ProbePage, ProbeTransfer, ProbePoll, ProbeEnableInterrupts,
         Quiet, cardVars, irqVars, timeVars
  <2>3. res'[d] = res[d] \/ res'[d] = res[d] \cup {"page"}
    BY <1>2 DEF ProbeTask, ProbePage, ProbeTransfer, ProbePoll, ProbeEnableInterrupts, TypeOK
  <2>4. <<ctl[d], ctl'[d]>> \in {<<"p_task", "p_enable">>, <<"p_page", "p_x1">>,
          <<"p_x1", "p_poll1">>, <<"p_poll1", "p_x2">>, <<"p_x2", "p_poll2">>,
          <<"p_poll2", "p_setup">>, <<"p_ints", "p_x3">>, <<"p_x3", "p_arm">>}
    BY <1>2 DEF ProbeTask, ProbePage, ProbeTransfer, ProbePoll, ProbeEnableInterrupts, TypeOK
  <2>5. OldLabel(ctl'[d]) = OldLabel(ctl[d])
    BY <2>4, Labels
  <2>6. OldHeld(ctl'[d], res'[d]) = OldHeld(ctl[d], res[d])
    BY <2>3, <2>4 DEF OldHeld
  <2> QED
    BY <2>1, <2>2, <2>5, <2>6, QuietFrame, Stutter
<1>3. CASE ProbeAcquire(d)
  <2>1. Only(d)
    BY <1>3 DEF ProbeAcquire, Only, TypeOK, cardVars, irqVars, timeVars
  <2>2. Quiet
    BY <1>3 DEF ProbeAcquire, Quiet, cardVars, irqVars, timeVars
  <2>3. CASE ctl[d] = "p_mask"
    <3>1. ctl'[d] = "p_region" /\ res' = res
      BY <1>3, <2>3 DEF ProbeAcquire, TypeOK
    <3>2. OldLabel(ctl'[d]) = OldLabel(ctl[d])
      BY <2>3, <3>1, Labels
    <3>3. OldHeld(ctl'[d], res'[d]) = OldHeld(ctl[d], res[d])
      BY <2>3, <3>1 DEF OldHeld
    <3> QED
      BY <2>1, <2>2, <3>2, <3>3, QuietFrame, Stutter
  <2>4. ASSUME NEW old, NEW new, NEW r,
               OldCtlF[d] = old, OldLabel(ctl'[d]) = new,
               OldHeld(ctl'[d], res'[d]) = OldResF[d] \cup {r},
               \/ old = "p_enable" /\ new = "p_region" /\ r = "enabled"
               \/ old = "p_region" /\ new = "p_bar" /\ r = "region" /\ "region" \notin OldResF[d]
               \/ old = "p_bar" /\ new = "p_timer" /\ r = "bar"
               \/ old = "p_timer" /\ new = "p_help" /\ r = "timer"
               \/ old = "p_help" /\ new = "p_irq" /\ r = "help"
               \/ old = "p_irq" /\ new = "p_arm" /\ r = "irq"
        PROVE  Old!ProbeAcquire(d)
    <3>1. OldCtlF' = [OldCtlF EXCEPT ![d] = new] /\ OldResF' = [OldResF EXCEPT ![d] = @ \cup {r}]
      BY <2>1, <2>4, Frame
    <3> QED
      BY <2>2, <2>4, <3>1, QuietFrame
         DEF Old!ProbeAcquire, Old!Move, Old!Gain, OldCtlF, OldResF, OldRaisedF, OldIsrF
  <2>5. CASE ctl[d] = "p_enable"
    <3>1. ctl'[d] = "p_mask" /\ res'[d] = res[d] \cup {"enabled"}
      BY <1>3, <2>5 DEF ProbeAcquire, TypeOK
    <3>2. OldHeld(ctl'[d], res'[d]) = OldResF[d] \cup {"enabled"}
      BY <2>5, <3>1, Here DEF OldHeld
    <3>3. OldCtlF[d] = "p_enable" /\ OldLabel(ctl'[d]) = "p_region"
      BY <2>5, <3>1, Here, Labels
    <3> QED
      BY <2>4, <3>2, <3>3 DEF Old!Next
  <2>6. CASE ctl[d] = "p_region"
    <3>1. ctl'[d] = "p_bar" /\ res'[d] = res[d] \cup {"region"} /\ "region" \notin res[d]
      BY <1>3, <2>6 DEF ProbeAcquire, TypeOK
    <3>2. OldHeld(ctl'[d], res'[d]) = OldResF[d] \cup {"region"} /\ "region" \notin OldResF[d]
      BY <2>6, <3>1, Here DEF OldHeld
    <3>3. OldCtlF[d] = "p_region" /\ OldLabel(ctl'[d]) = "p_bar"
      BY <2>6, <3>1, Here, Labels
    <3> QED
      BY <2>4, <3>2, <3>3 DEF Old!Next
  <2>7. CASE ctl[d] = "p_bar"
    <3>1. ctl'[d] = "p_help" /\ res'[d] = res[d] \cup {"bar"}
      BY <1>3, <2>7 DEF ProbeAcquire, TypeOK
    <3>2. OldHeld(ctl'[d], res'[d]) = OldResF[d] \cup {"bar"}
      BY <2>7, <3>1, Here DEF OldHeld
    <3>3. OldCtlF[d] = "p_bar" /\ OldLabel(ctl'[d]) = "p_timer"
      BY <2>7, <3>1, Here, Labels
    <3> QED
      BY <2>4, <3>2, <3>3 DEF Old!Next
  <2>8. CASE ctl[d] = "p_help"
    <3>1. ctl'[d] = "p_page" /\ res'[d] = res[d] \cup {"help"}
      BY <1>3, <2>8 DEF ProbeAcquire, TypeOK
    <3>2. OldHeld(ctl'[d], res'[d]) = OldResF[d] \cup {"timer"}
      BY <2>8, <3>1, Here DEF OldHeld
    <3>3. OldCtlF[d] = "p_timer" /\ OldLabel(ctl'[d]) = "p_help"
      BY <2>8, <3>1, Here, Labels
    <3> QED
      BY <2>4, <3>2, <3>3 DEF Old!Next
  <2>9. CASE ctl[d] = "p_setup"
    <3>1. ctl'[d] = "p_irq" /\ res'[d] = res[d] \cup {"fields"}
      BY <1>3, <2>9 DEF ProbeAcquire, TypeOK
    <3>2. OldHeld(ctl'[d], res'[d]) = OldResF[d] \cup {"help"}
      BY <2>9, <3>1, Here DEF OldHeld
    <3>3. OldCtlF[d] = "p_help" /\ OldLabel(ctl'[d]) = "p_irq"
      BY <2>9, <3>1, Here, Labels
    <3> QED
      BY <2>4, <3>2, <3>3 DEF Old!Next
  <2>10. CASE ctl[d] = "p_irq"
    <3>1. ctl'[d] = "p_ints" /\ res'[d] = res[d] \cup {"irq"}
      BY <1>3, <2>10 DEF ProbeAcquire, TypeOK
    <3>2. OldHeld(ctl'[d], res'[d]) = OldResF[d] \cup {"irq"}
      BY <2>10, <3>1, Here DEF OldHeld
    <3>3. OldCtlF[d] = "p_irq" /\ OldLabel(ctl'[d]) = "p_arm"
      BY <2>10, <3>1, Here, Labels
    <3> QED
      BY <2>4, <3>2, <3>3 DEF Old!Next
  <2> QED
    BY <1>3, <2>3, <2>5, <2>6, <2>7, <2>8, <2>9, <2>10 DEF ProbeAcquire
<1>4. CASE ProbeFail(d)
  <2>1. Only(d) /\ Quiet /\ ctl'[d] = "unbound" /\ ctl[d] \in Fallible /\ res' = res
    BY <1>4, DmaAssumption DEF ProbeFail, Only, Quiet, TypeOK, Fallible, cardVars, irqVars, timeVars
  <2>2. OldHeld(ctl'[d], res'[d]) = OldHeld(ctl[d], res[d])
    BY <2>1 DEF OldHeld, Fallible
  <2>3. OldCtlF[d] \in {"p_enable", "p_region", "p_bar", "p_timer", "p_help", "p_irq"}
    BY <2>1, Here, Labels DEF Fallible
  <2>4. /\ OldCtlF' = [OldCtlF EXCEPT ![d] = "unbound"]
        /\ OldResF' = [OldResF EXCEPT ![d] = OldResF[d]]
    BY <2>1, <2>2, Frame, Here, Labels
  <2>5. OldResF' = OldResF
    BY <2>4 DEF OldResF
  <2>6. Old!ProbeFail(d)
    BY <2>1, <2>3, <2>4, <2>5, QuietFrame
       DEF Old!ProbeFail, Old!Move, OldCtlF, OldResF, OldRaisedF, OldIsrF
  <2> QED
    BY <2>6 DEF Old!Next
<1>5. CASE ProbeArm(d)
  <2>1. /\ Only(d) /\ ctl'[d] = "bound" /\ ctl[d] = "p_arm" /\ res' = res
        /\ raised' = raised /\ isr' = isr /\ interrupt' = interrupt /\ firing' = firing
        /\ pending' = [pending EXCEPT ![d] = TRUE]
    BY <1>5 DEF ProbeArm, Only, TypeOK, cardVars, irqVars
  <2>2. OldHeld(ctl'[d], res'[d]) = OldHeld(ctl[d], res[d])
    BY <2>1 DEF OldHeld
  <2>3. /\ OldCtlF[d] = "p_arm" /\ OldCtlF' = [OldCtlF EXCEPT ![d] = "bound"]
        /\ OldResF' = [OldResF EXCEPT ![d] = OldResF[d]]
    BY <2>1, <2>2, Frame, Here, Labels
  <2>4. OldResF' = OldResF /\ OldRaisedF' = OldRaisedF /\ OldIsrF' = OldIsrF
    BY <2>1, <2>3 DEF OldResF, OldRaisedF, OldIsrF, OldIsr
  <2>5. Old!ProbeArm(d)
    BY <2>1, <2>3, <2>4 DEF Old!ProbeArm, Old!Move, OldCtlF, OldResF, OldRaisedF, OldIsrF
  <2> QED
    BY <2>5 DEF Old!Next
<1> QED
  BY <1>1, <1>2, <1>3, <1>4, <1>5 DEF ProbeStep

\* So is a step of my_remove.
LEMMA RemoveRefines ==
  ASSUME TypeOK, NEW d \in Cards, Remove(d) \/ RemoveStep(d)
  PROVE  Old!Next \/ UNCHANGED Old!vars
<1> USE DEF Goto
<1>1. CASE Remove(d)
  <2>1. /\ Only(d) /\ Quiet /\ ctl'[d] \in {"r_kill", "r_timer"} /\ ctl[d] = "bound"
        /\ res' = res
    BY <1>1 DEF Remove, Only, Quiet, TypeOK, cardVars, irqVars, timeVars
  <2>2. OldHeld(ctl'[d], res'[d]) = OldHeld(ctl[d], res[d])
    BY <2>1 DEF OldHeld
  <2>3. /\ OldCtlF[d] = "bound" /\ OldCtlF' = [OldCtlF EXCEPT ![d] = "r_timer"]
        /\ OldResF' = [OldResF EXCEPT ![d] = OldResF[d]]
    BY <2>1, <2>2, Frame, Here, Labels
  <2>4. OldResF' = OldResF
    BY <2>3 DEF OldResF
  <2>5. Old!Remove(d)
    BY <2>1, <2>3, <2>4, QuietFrame DEF Old!Remove, Old!Move, OldCtlF, OldResF, OldRaisedF, OldIsrF
  <2> QED
    BY <2>5 DEF Old!Next
<1>2. CASE RemoveKill(d) \/ RemoveKfree(d) \/ RemoveNull(d)
  <2>1. /\ Only(d) /\ Quiet /\ res' = res
        /\ ctl[d] \in {"r_kill", "r_kfree", "r_null"}
        /\ ctl'[d] \in {"r_kfree", "r_null", "r_timer"}
    BY <1>2 DEF RemoveKill, RemoveKfree, RemoveNull, Only, Quiet, TypeOK, cardVars, irqVars, timeVars
  <2>2. OldLabel(ctl'[d]) = OldLabel(ctl[d])
    BY <2>1, Labels
  <2>3. OldHeld(ctl'[d], res'[d]) = OldHeld(ctl[d], res[d])
    BY <2>1 DEF OldHeld
  <2> QED
    BY <2>1, <2>2, <2>3, QuietFrame, Stutter
<1>3. CASE RemoveTimer(d)
  <2>1. /\ Only(d) /\ ctl'[d] = "r_irq" /\ ctl[d] = "r_timer" /\ res' = res
        /\ raised' = raised /\ isr' = isr /\ interrupt' = interrupt /\ firing' = firing
        /\ firing[d] = "off" /\ pending' = [pending EXCEPT ![d] = FALSE]
    BY <1>3 DEF RemoveTimer, Only, TypeOK, cardVars, irqVars
  <2>2. OldHeld(ctl'[d], res'[d]) = OldHeld(ctl[d], res[d]) \ {"timer"}
    BY <2>1 DEF OldHeld
  <2>3. /\ OldCtlF[d] = "r_timer" /\ OldCtlF' = [OldCtlF EXCEPT ![d] = "r_irq"]
        /\ OldResF' = [OldResF EXCEPT ![d] = @ \ {"timer"}]
    BY <2>1, <2>2, Frame, Here, Labels
  <2>4. OldRaisedF' = OldRaisedF /\ OldIsrF' = OldIsrF
    BY <2>1 DEF OldRaisedF, OldIsrF, OldIsr
  <2>5. Old!RemoveTimer(d)
    BY <2>1, <2>3, <2>4
       DEF Old!RemoveTimer, Old!Move, Old!Lose, OldCtlF, OldResF, OldRaisedF, OldIsrF
  <2> QED
    BY <2>5 DEF Old!Next
<1>4. CASE RemoveIrq(d)
  <2>1. /\ Only(d) /\ Quiet /\ ctl'[d] = "r_free" /\ ctl[d] = "r_irq"
        /\ res'[d] = res[d] \ {"irq"} /\ isr[d] = "off"
    BY <1>4 DEF RemoveIrq, Only, Quiet, TypeOK, cardVars, irqVars, timeVars
  <2>2. OldHeld(ctl'[d], res'[d]) = OldHeld(ctl[d], res[d]) \ {"irq"}
    BY <2>1 DEF OldHeld
  <2>3. OldCtlF[d] = "r_irq" /\ OldCtlF' = [OldCtlF EXCEPT ![d] = "r_free"]
    BY <2>1, Frame, Here, Labels
  <2>6. OldResF' = [OldResF EXCEPT ![d] = @ \ {"irq"}]
    BY <2>1, <2>2, Frame, Here
  <2>4. OldIsrF[d] = "off"
    BY <2>1, Here DEF OldIsr
  <2>5. Old!RemoveIrq(d)
    BY <2>1, <2>3, <2>4, <2>6, QuietFrame
       DEF Old!RemoveIrq, Old!Move, Old!Lose, OldCtlF, OldResF, OldRaisedF, OldIsrF
  <2> QED
    BY <2>5 DEF Old!Next
<1>5. CASE RemoveFree(d)
  <2>1. /\ Only(d) /\ Quiet /\ ctl'[d] = "unbound" /\ ctl[d] = "r_free" /\ res'[d] = {}
    BY <1>5 DEF RemoveFree, Only, Quiet, TypeOK, cardVars, irqVars, timeVars
  <2>2. OldHeld(ctl'[d], res'[d]) = {}
    BY <2>1 DEF OldHeld
  <2>3. OldCtlF[d] = "r_free" /\ OldCtlF' = [OldCtlF EXCEPT ![d] = "unbound"]
    BY <2>1, Frame, Here, Labels
  <2>5. OldResF' = [OldResF EXCEPT ![d] = {}]
    BY <2>1, <2>2, Frame
  <2>4. Old!RemoveFree(d)
    BY <2>1, <2>3, <2>5, QuietFrame
       DEF Old!RemoveFree, Old!Move, OldCtlF, OldResF, OldRaisedF, OldIsrF
  <2> QED
    BY <2>4 DEF Old!Next
<1> QED
  BY <1>1, <1>2, <1>3, <1>4, <1>5 DEF RemoveStep

\* my_handler acknowledges the timer's cause only when it has read it; the DMA
\* cause and the steps it leads to do not show.
LEMMA HandlerRefines ==
  ASSUME TypeOK, NEW d \in Cards, IsrEnter(d) \/ IsrStep(d)
  PROVE  Old!Next \/ UNCHANGED Old!vars
<1>1. ctl' = ctl /\ res' = res /\ pending' = pending /\ firing' = firing
  BY DEF IsrEnter, IsrStep, IsrRead, IsrAck, IsrInit, IsrSchedule, timeVars
<1>2. Only(d)
  BY DEF IsrEnter, IsrStep, IsrRead, IsrAck, IsrInit, IsrSchedule, Only, TypeOK, cardVars
<1>3. OldCtlF' = OldCtlF /\ OldResF' = OldResF
  BY <1>1 DEF OldCtlF, OldResF, OldRes
<1> USE DEF OldCtlF, OldResF, OldRaisedF, OldIsrF
<1>4. CASE IsrEnter(d)
  <2>1. /\ isr[d] = "off" /\ isr'[d] = "read" /\ raised' = raised /\ "irq" \in res[d]
    BY <1>4 DEF IsrEnter, TypeOK, cardVars
  <2>2. OldIsr(d) = "off" /\ OldIsr(d)' = "read" /\ "irq" \in OldRes(d)
    BY <2>1 DEF OldIsr, OldRes
  <2>3. OldIsrF' = [OldIsrF EXCEPT ![d] = "read"] /\ OldIsrF[d] = "off" /\ OldRaisedF' = OldRaisedF
    BY <1>2, <2>1, <2>2, Frame
  <2>4. Old!IsrEnter(d)
    BY <1>1, <1>3, <2>2, <2>3 DEF Old!IsrEnter
  <2> QED
    BY <2>4 DEF Old!Next
<1>5. CASE IsrRead(d)
  <2>1. /\ isr[d] = "read" /\ raised' = raised /\ interrupt'[d] = raised[d]
        /\ isr'[d] = IF raised[d] = {} THEN "off" ELSE "ack"
    BY <1>5 DEF IsrRead, TypeOK, cardVars
  <2>2. OldIsr(d) = "read" /\ OldIsr(d)' = IF "T" \in raised[d] THEN "ack" ELSE "off"
    BY <2>1 DEF OldIsr
  <2>3. /\ OldIsrF' = [OldIsrF EXCEPT ![d] = IF "T" \in raised[d] THEN "ack" ELSE "off"]
        /\ OldIsrF[d] = "read" /\ OldRaisedF' = OldRaisedF
    BY <1>2, <2>1, <2>2, Frame
  <2>4. Old!IsrRead(d)
    BY <1>1, <1>3, <2>3 DEF Old!IsrRead
  <2> QED
    BY <2>4 DEF Old!Next
<1>6. CASE IsrAck(d)
  <2>1. /\ isr[d] = "ack" /\ raised'[d] = raised[d] \ interrupt[d]
        /\ isr'[d] \in {"init", "off"}
    BY <1>6 DEF IsrAck, TypeOK
  <2>2. OldIsr(d)' = "off"
    BY <2>1 DEF OldIsr
  <2>3. CASE "T" \in interrupt[d]
    <3>1. OldIsr(d) = "ack" /\ ~("T" \in raised'[d])
      BY <2>1, <2>3 DEF OldIsr
    <3>2. OldIsrF[d] = "ack" /\ OldIsrF' = [OldIsrF EXCEPT ![d] = "off"]
      BY <1>2, <2>2, <3>1, Frame
    <3>3. OldRaisedF' = [OldRaisedF EXCEPT ![d] = FALSE]
      <4>1. ("T" \in raised'[d]) = FALSE
        BY <3>1
      <4> HIDE DEF OldRaisedF
      <4> QED
        BY <1>2, <4>1, Frame
    <3>4. Old!IsrAck(d)
      BY <1>1, <1>3, <3>2, <3>3 DEF Old!IsrAck
    <3> QED
      BY <3>4 DEF Old!Next
  <2>4. CASE "T" \notin interrupt[d]
    <3>1. OldIsr(d) = "off" /\ ("T" \in raised'[d]) = ("T" \in raised[d])
      BY <2>1, <2>4 DEF OldIsr
    <3> QED
      BY <1>1, <1>2, <2>2, <3>1, Stutter
  <2> QED
    BY <2>3, <2>4
<1>7. CASE IsrInit(d) \/ IsrSchedule(d)
  <2>1. isr[d] \in {"init", "sched"} /\ isr'[d] \in {"sched", "off"} /\ raised' = raised
    BY <1>7 DEF IsrInit, IsrSchedule, TypeOK, cardVars
  <2>2. OldIsr(d) = "off" /\ OldIsr(d)' = "off"
    BY <2>1 DEF OldIsr
  <2> QED
    BY <1>1, <1>2, <2>1, <2>2, Stutter
<1> QED
  BY <1>4, <1>5, <1>6, <1>7 DEF IsrStep

\* raise_intr is unchanged; the tasklet and the card's transfers do not show.
LEMMA TimerRefines ==
  ASSUME TypeOK, NEW d \in Cards, TaskletStep(d) \/ TimerStep(d) \/ CardDone(d)
  PROVE  Old!Next \/ UNCHANGED Old!vars
<1>1. ctl' = ctl /\ res' = res /\ isr' = isr /\ interrupt' = interrupt
  BY DEF TaskletStep, TaskletStart, TaskletEnd, TimerStep, TimerFire, TimerRaise, TimerRearm,
         CardDone, irqVars
<1>2. Only(d)
  BY <1>1 DEF TaskletStep, TaskletStart, TaskletEnd, TimerStep, TimerFire, TimerRaise, TimerRearm,
         CardDone, Only, TypeOK, cardVars
<1>3. OldCtlF' = OldCtlF /\ OldResF' = OldResF /\ OldIsrF' = OldIsrF
  BY <1>1 DEF OldCtlF, OldResF, OldRes, OldIsrF, OldIsr
<1>4. CASE TaskletStep(d) \/ CardDone(d)
  <2>1. ("T" \in raised'[d]) = ("T" \in raised[d]) /\ pending' = pending /\ firing' = firing
    BY <1>4 DEF TaskletStep, TaskletStart, TaskletEnd, CardDone, TypeOK, cardVars, timeVars
  <2>2. OldIsr(d)' = OldIsr(d)
    BY <1>1 DEF OldIsr
  <2> QED
    BY <1>1, <1>2, <2>1, <2>2, Stutter
<1> USE DEF OldCtlF, OldResF, OldRaisedF, OldIsrF
<1>5. CASE TimerFire(d) \/ TimerRearm(d)
  <2>1. OldRaisedF' = OldRaisedF
    BY <1>5 DEF TimerFire, TimerRearm, cardVars
  <2>2. Old!TimerFire(d) \/ Old!TimerRearm(d)
    BY <1>3, <1>5, <2>1 DEF TimerFire, TimerRearm, Old!TimerFire, Old!TimerRearm
  <2> QED
    BY <2>2 DEF Old!Next
<1>6. CASE TimerRaise(d)
  <2>1. "T" \in raised'[d]
    BY <1>6 DEF TimerRaise, TypeOK
  <2>2. OldRaisedF' = [OldRaisedF EXCEPT ![d] = TRUE]
    BY <1>2, <2>1, Frame
  <2>3. Old!TimerRaise(d)
    BY <1>3, <1>6, <2>2 DEF TimerRaise, Old!TimerRaise
  <2> QED
    BY <2>3 DEF Old!Next
<1> QED
  BY <1>4, <1>5, <1>6 DEF TimerStep

\* The driver with DMA implements the driver of 09, for any number of cards and
\* whatever probe step fails: the resources, the timer and the acknowledgement of
\* the timer's interrupt keep to the order they had before.
THEOREM KeepsTimerDriver == Spec => ImplementsTimerDriver
<1>1. Init => Old!Init
  <2> SUFFICES ASSUME Init PROVE Old!Init
    OBVIOUS
  <2>1. OldCtlF = [d \in Cards |-> "new"]
    BY Labels DEF Init, OldCtlF
  <2>2. OldResF = [d \in Cards |-> {}]
    BY DEF Init, OldResF, OldRes
  <2>3. \A d \in Cards : ("T" \in raised[d]) = FALSE
    <3> TAKE d \in Cards
    <3>1. "T" \notin raised[d]
      BY DEF Init
    <3> QED
      BY <3>1
  <2>4. OldRaisedF = [d \in Cards |-> FALSE]
    BY <2>3 DEF OldRaisedF
  <2>5. OldIsrF = [d \in Cards |-> "off"]
    BY DEF Init, OldIsrF, OldIsr
  <2> QED
    BY <2>1, <2>2, <2>4, <2>5 DEF Init, Old!Init, OldCtlF, OldResF, OldRaisedF, OldIsrF
<1>2. TypeOK /\ [Next]_vars => [Old!Next]_(Old!vars)
  <2> SUFFICES ASSUME TypeOK, [Next]_vars PROVE Old!Next \/ UNCHANGED Old!vars
    OBVIOUS
  <2>1. CASE User \/ UNCHANGED vars
    <3>1. /\ ctl' = ctl /\ res' = res /\ raised' = raised /\ isr' = isr /\ interrupt' = interrupt
          /\ pending' = pending /\ firing' = firing
      BY <2>1 DEF User, Mmap, Munmap, vars, cardVars, irqVars, timeVars
    <3> QED
      BY <3>1 DEF Old!vars, OldRes, OldIsr
  <2> QED
    BY <2>1, ProbeRefines, RemoveRefines, HandlerRefines, TimerRefines DEF Next
<1> QED
  BY <1>1, <1>2, TypeCorrect, PTL DEF Spec, ImplementsTimerDriver, Old!Spec

--------------------------------------------------------------------------------
(* The greeting makes the round trip *)

\* Before the page is filled; from there to the end of the second transfer;
\* and the labels at which the first transfer is over.
Early  == {"new", "p_task", "p_enable", "p_mask", "p_region", "p_bar", "p_help", "p_page"}
Filled == {"p_x1", "p_poll1", "p_x2", "p_poll2", "p_setup"}
Sent   == {"p_x2", "p_poll2", "p_setup", "p_irq", "p_ints", "p_x3", "p_arm"}

\* Which transfer can be under way where, and what is known of the data then.
SentInv ==
  \A d \in Cards :
    /\ busy[d] = 1 => ctl[d] = "p_poll1"
    /\ busy[d] = 2 => ctl[d] = "p_poll2"
    /\ busy[d] # 0 => ctl[d] \notin Early \cup {"p_x1", "p_x2", "p_setup"}
    /\ busy[d] = 3 => ctl[d] \notin Filled
    /\ ctl[d] \in {"p_bar", "p_help", "p_page"} \cup Filled => "region" \in res[d]
    /\ ctl[d] \in Filled => page[d][0]
    /\ ctl[d] \in Sent \/ busy[d] = 3 \/ (ctl[d] = "p_poll1" /\ busy[d] = 0) => cardmem[d]
    /\ ctl[d] = "p_setup" \/ (ctl[d] = "p_poll2" /\ busy[d] = 0) => page[d][10]

\* A complete help struct keeps the page from being filled anew: its region is
\* still taken, so that no later probe gets past pci_request_region.
BackInv ==
  \A d \in Cards : "fields" \in res[d] =>
    /\ "region" \in res[d] /\ page[d][10]
    /\ ctl[d] \notin {"p_bar", "p_help", "p_page"} \cup Filled

\* On a card that is bound only once whatever leads to the print, the cause in
\* the register, the handler behind it and the tasklet's argument, comes after
\* the third transfer.
PrintInv ==
  \A d \in Cards :
    /\ page[d][20] => ctl[d] \notin Early
    /\ "D" \in raised[d] \cup interrupt[d] => page[d][20]
    /\ isr[d] \in {"init", "sched"} => page[d][20]
    /\ \A e \in Cards : tasklet[e].data = d => page[d][20]

GInv == TypeOK /\ SentInv /\ BackInv

\* Nothing is sent, filled or printed before the first probe.
LEMMA GInit == Init => SentInv /\ BackInv /\ PrintInv
BY DmaAssumption DEF Init, SentInv, BackInv, PrintInv, Early, Filled, Sent, Offsets

\* my_probe and my_remove keep the order of transfers and polls.
LEMMA ControlSends ==
  ASSUME GInv, NEW d \in Cards, Probe(d) \/ ProbeStep(d) \/ Remove(d) \/ RemoveStep(d)
  PROVE  SentInv' /\ BackInv'
<1> USE DEF GInv, TypeOK, SentInv, BackInv, Early, Filled, Sent, Goto, Gain
<1>1. CASE Probe(d) \/ Remove(d)
  BY <1>1 DEF Probe, Remove, cardVars
<1>2. CASE ProbeTask(d)
  BY <1>2 DEF ProbeTask, cardVars
<1>3. CASE ProbeAcquire(d)
  <2>1. UNCHANGED <<page, busy, cardmem>>
    BY <1>3 DEF ProbeAcquire, cardVars
  <2>2. CASE ctl[d] = "p_enable" /\ Gain(d, "enabled") /\ Goto(d, "p_mask")
    BY <2>1, <2>2
  <2>3. CASE ctl[d] = "p_mask" /\ Goto(d, "p_region") /\ UNCHANGED res
    BY <2>1, <2>3
  <2>4. CASE ctl[d] = "p_region" /\ "region" \notin res[d] /\ Gain(d, "region") /\ Goto(d, "p_bar")
    BY <2>1, <2>4
  <2>5. CASE ctl[d] = "p_bar" /\ Gain(d, "bar") /\ Goto(d, "p_help")
    BY <2>1, <2>5
  <2>6. CASE ctl[d] = "p_help" /\ Gain(d, "help") /\ Goto(d, "p_page")
    BY <2>1, <2>6
  <2>7. CASE ctl[d] = "p_setup" /\ Gain(d, "fields") /\ Goto(d, "p_irq")
    BY <2>1, <2>7
  <2>8. CASE ctl[d] = "p_irq" /\ Gain(d, "irq") /\ Goto(d, "p_ints")
    BY <2>1, <2>8
  <2> QED
    BY <1>3, <2>2, <2>3, <2>4, <2>5, <2>6, <2>7, <2>8 DEF ProbeAcquire
<1>4. CASE ProbePage(d)
  <2>1. /\ ctl[d] = "p_page" /\ ctl'[d] = "p_x1" /\ page'[d][0]
        /\ busy' = busy /\ cardmem' = cardmem /\ res'[d] = res[d] \cup {"page"}
        /\ \A e \in Cards \ {d} : ctl'[e] = ctl[e] /\ res'[e] = res[e] /\ page'[e] = page[e]
    BY <1>4 DEF ProbePage, Offsets
  <2> QED
    BY <2>1
<1>5. CASE ProbeFail(d)
  BY <1>5, DmaAssumption DEF ProbeFail, cardVars, Fallible
<1>6. CASE ProbeTransfer(d)
  BY <1>6 DEF ProbeTransfer
<1>7. CASE ProbePoll(d) \/ ProbeEnableInterrupts(d) \/ ProbeArm(d)
  BY <1>7 DEF ProbePoll, ProbeEnableInterrupts, ProbeArm, cardVars
<1>8. CASE RemoveStep(d)
  BY <1>8 DEF RemoveStep, RemoveKill, RemoveKfree, RemoveNull, RemoveTimer, RemoveIrq,
              RemoveFree, cardVars
<1> QED
  BY <1>1, <1>2, <1>3, <1>4, <1>5, <1>6, <1>7, <1>8 DEF ProbeStep

\* The card does what the labels promise; handlers, tasklets and timers do not
\* touch the page.
LEMMA CallbackSends ==
  ASSUME GInv, NEW d \in Cards,
         IsrEnter(d) \/ IsrStep(d) \/ TaskletStep(d) \/ TimerStep(d) \/ CardDone(d)
  PROVE  SentInv' /\ BackInv'
<1> USE DEF GInv, SentInv, BackInv
<1>1. CASE IsrEnter(d) \/ IsrStep(d)
  BY <1>1 DEF IsrEnter, IsrStep, IsrRead, IsrAck, IsrInit, IsrSchedule, cardVars
<1>2. CASE TaskletStep(d) \/ TimerStep(d)
  BY <1>2 DEF TaskletStep, TaskletStart, TaskletEnd, TimerStep, TimerFire, TimerRaise,
              TimerRearm, cardVars
<1>3. CASE CardDone(d)
  <2>1. /\ ctl' = ctl /\ res' = res
        /\ \A e \in Cards \ {d} : busy'[e] = busy[e] /\ cardmem'[e] = cardmem[e]
                                /\ page'[e] = page[e]
        /\ busy'[d] = 0 /\ page'[d][0] = page[d][0]
    BY <1>3 DEF CardDone, TypeOK, Offsets
  <2>2. CASE busy[d] = 1
    <3>1. cardmem'[d] = page[d][0] /\ page' = page
      BY <1>3, <2>2 DEF CardDone, TypeOK
    <3> QED
      BY <2>1, <2>2, <3>1 DEF Early, Filled, Sent
  <2>3. CASE busy[d] = 2
    <3>1. cardmem' = cardmem /\ page'[d][10] = cardmem[d]
      BY <1>3, <2>3 DEF CardDone, TypeOK, Offsets
    <3> QED
      BY <2>1, <2>3, <3>1 DEF Early, Filled, Sent
  <2>4. CASE busy[d] = 3
    <3>1. cardmem' = cardmem /\ page'[d][10] = page[d][10]
      BY <1>3, <2>4 DEF CardDone, TypeOK, Offsets
    <3> QED
      BY <2>1, <2>4, <3>1 DEF Early, Filled, Sent
  <2> QED
    BY <1>3, <2>2, <2>3, <2>4 DEF CardDone, TypeOK
<1> QED
  BY <1>1, <1>2, <1>3

\* Both are inductive with the types.
LEMMA GNext == GInv /\ [Next]_vars => SentInv' /\ BackInv'
<1> SUFFICES ASSUME GInv, [Next]_vars PROVE SentInv' /\ BackInv'
  OBVIOUS
<1>1. CASE User
  BY <1>1 DEF User, Mmap, Munmap, GInv, SentInv, BackInv, cardVars
<1>2. CASE UNCHANGED vars
  BY <1>2 DEF vars, GInv, SentInv, BackInv, cardVars
<1> QED
  BY <1>1, <1>2, ControlSends, CallbackSends DEF Next

\* The first half of the round trip, through the card and back to offset 10,
\* ends before my_probe completes the help struct, on any number of cards,
\* however often they are bound and whatever fails.
THEOREM GreetingIsBack == Spec => []GreetingBack
<1>1. BackInv => GreetingBack
  BY DEF BackInv, GreetingBack
<1> QED
  BY <1>1, GInit, GNext, TypeCorrect, PTL DEF Spec, GInv

--------------------------------------------------------------------------------
\* On a card that is bound once, a step of my_probe or my_remove neither fills
\* the page again nor lets a cause, a handler or a tasklet come too early.
LEMMA ControlPrints ==
  ASSUME GInv, PrintInv, ~Rebind, NEW d \in Cards,
         Probe(d) \/ ProbeStep(d) \/ Remove(d) \/ RemoveStep(d)
  PROVE  PrintInv'
<1> USE DmaAssumption DEF GInv, TypeOK, PrintInv, Early, Goto, Gain
<1>1. CASE Probe(d) \/ Remove(d)
  BY <1>1 DEF Probe, Remove, cardVars, irqVars, taskVars
<1>2. CASE ProbeTask(d)
  BY <1>2 DEF ProbeTask, cardVars, irqVars
<1>3. CASE ProbeAcquire(d)
  BY <1>3 DEF ProbeAcquire, cardVars, irqVars, taskVars
<1>4. CASE ProbePage(d)
  BY <1>4 DEF ProbePage, Offsets, irqVars, taskVars
<1>5. CASE ProbeFail(d)
  BY <1>5 DEF ProbeFail, cardVars, irqVars
<1>6. CASE ProbeTransfer(d)
  BY <1>6 DEF ProbeTransfer, irqVars, taskVars
<1>7. CASE ProbePoll(d) \/ ProbeEnableInterrupts(d) \/ ProbeArm(d)
  BY <1>7 DEF ProbePoll, ProbeEnableInterrupts, ProbeArm, cardVars, irqVars, taskVars
<1>8. CASE RemoveKfree(d)
  BY <1>8 DEF RemoveKfree, cardVars, irqVars, Tasklets
<1>9. CASE RemoveKill(d) \/ RemoveNull(d) \/ RemoveTimer(d) \/ RemoveIrq(d) \/ RemoveFree(d)
  BY <1>9 DEF RemoveKill, RemoveNull, RemoveTimer, RemoveIrq, RemoveFree, cardVars, irqVars,
              taskVars
<1> QED
  BY <1>1, <1>2, <1>3, <1>4, <1>5, <1>6, <1>7, <1>8, <1>9 DEF ProbeStep, RemoveStep

\* Cause, handler and argument of the tasklet follow each other.
LEMMA CallbackPrints ==
  ASSUME GInv, PrintInv, NEW d \in Cards,
         IsrEnter(d) \/ IsrStep(d) \/ TaskletStep(d) \/ TimerStep(d) \/ CardDone(d)
  PROVE  PrintInv'
<1> USE DmaAssumption DEF GInv, TypeOK, PrintInv
<1>1. CASE IsrEnter(d) \/ IsrRead(d) \/ IsrAck(d)
  BY <1>1 DEF IsrEnter, IsrRead, IsrAck, cardVars, taskVars
<1>2. CASE IsrInit(d)
  <2>1. \A e \in Cards : tasklet'[e].data \in {tasklet[e].data, d}
    BY <1>2 DEF IsrInit, Tasklets
  <2>2. page' = page /\ ctl' = ctl /\ raised' = raised /\ interrupt' = interrupt
    BY <1>2 DEF IsrInit, cardVars
  <2>3. page[d][20] /\ \A e \in Cards \ {d} : isr'[e] = isr[e]
    BY <1>2 DEF IsrInit
  <2> QED
    BY <2>1, <2>2, <2>3
<1>3. CASE IsrSchedule(d)
  <2>1. \A e \in Cards : tasklet'[e].data = tasklet[e].data
    BY <1>3 DEF IsrSchedule, Tasklets
  <2>2. page' = page /\ ctl' = ctl /\ raised' = raised /\ interrupt' = interrupt
    BY <1>3 DEF IsrSchedule, cardVars
  <2>3. page[d][20] /\ \A e \in Cards \ {d} : isr'[e] = isr[e]
    BY <1>3 DEF IsrSchedule
  <2> QED
    BY <2>1, <2>2, <2>3
<1>4. CASE TaskletStep(d)
  <2>1. \A e \in Cards : tasklet'[e].data = tasklet[e].data
    <3>1. CASE TaskletStart(d)
      BY <3>1 DEF TaskletStart, Tasklets
    <3>2. CASE TaskletEnd(d)
      BY <3>2 DEF TaskletEnd, Tasklets
    <3> QED
      BY <1>4, <3>1, <3>2 DEF TaskletStep
  <2>2. UNCHANGED <<page, ctl, raised, interrupt, isr>>
    BY <1>4 DEF TaskletStep, TaskletStart, TaskletEnd, cardVars, irqVars
  <2> QED
    BY <2>1, <2>2
<1>5. CASE TimerStep(d)
  <2>1. UNCHANGED <<page, ctl, interrupt, isr, tasklet>>
    BY <1>5 DEF TimerStep, TimerFire, TimerRaise, TimerRearm, cardVars, irqVars, taskVars
  <2>2. CASE TimerFire(d) \/ TimerRearm(d)
    <3>1. raised' = raised
      BY ONLY <2>2 DEF TimerFire, TimerRearm, cardVars
    <3> QED
      BY <2>1, <3>1
  <2>3. CASE TimerRaise(d)
    <3>1. raised' = [raised EXCEPT ![d] = @ \cup {"T"}]
      BY ONLY <2>3 DEF TimerRaise
    <3>2. raised \in [Cards -> SUBSET Causes]
      OBVIOUS
    <3>3. \A e \in Cards : raised'[e] \subseteq raised[e] \cup {"T"}
      BY ONLY <3>1, <3>2
    <3> QED
      BY <2>1, <3>3
  <2> QED
    BY <1>5, <2>2, <2>3 DEF TimerStep
<1>6. CASE CardDone(d)
  BY <1>6 DEF CardDone, irqVars, taskVars, SentInv, Offsets, Early
<1> QED
  BY <1>1, <1>2, <1>3, <1>4, <1>5, <1>6 DEF IsrStep

\* What the tasklet prints is the greeting that made the round trip twice, if
\* no card is bound a second time: for any number of cards that overwrite each
\* other's globals, any failures and whatever fresh memory holds.
THEOREM RoundTrip == ~Rebind => (Spec => []GreetingRoundTrip)
<1> SUFFICES ASSUME ~Rebind PROVE Spec => []GreetingRoundTrip
  OBVIOUS
<1>1. GInv /\ PrintInv /\ [Next]_vars => PrintInv'
  <2> SUFFICES ASSUME GInv, PrintInv, [Next]_vars PROVE PrintInv'
    OBVIOUS
  <2>1. CASE User
    BY <2>1 DEF User, Mmap, Munmap, PrintInv, cardVars, irqVars, taskVars
  <2>2. CASE UNCHANGED vars
    BY <2>2 DEF vars, PrintInv, cardVars, irqVars, taskVars
  <2> QED
    BY <2>1, <2>2, ControlPrints, CallbackPrints DEF Next
<1>2. GInv /\ PrintInv => GreetingRoundTrip
  BY DEF GInv, TypeOK, Tasklets, BackInv, PrintInv, GreetingRoundTrip, GreetingBack,
         GreetingPrinted
<1> QED
  BY <1>1, <1>2, GInit, GNext, TypeCorrect, PTL DEF Spec, GInv
================================================================================
