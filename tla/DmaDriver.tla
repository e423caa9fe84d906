-------------------------------- MODULE DmaDriver --------------------------------
(***************************************************************************)
(* The PCI driver of 11/homework/pb173.c: probe, remove, the interrupt     *)
(* handler, the tasklet, the self-rearming timer and mmap of the DMA page, *)
(* run against the COMBO cards they drive.                                 *)
(*                                                                         *)
(* Each card has one pdev_help_struct, one timer and one handler, but the  *)
(* driver keeps "task" and "dma_virt_addr" in globals that all cards       *)
(* share.  A pointer is modelled by the card whose probe allocated what it *)
(* points to, or NULL.                                                     *)
(*                                                                         *)
(* Outside src/ and modelled from how the driver uses it: the PCI core     *)
(* (probe and remove of one card never overlap), the interrupt core (the   *)
(* line is shared, so a registered handler may run at any time; free_irq   *)
(* waits for it), timers (del_timer_sync waits for the callback), tasklets *)
(* and the card (a bus transfer takes time, then may raise an interrupt).  *)
(* REG_ENABLE is abstracted: both causes are enabled before either arises. *)
(***************************************************************************)
EXTENDS Integers

CONSTANTS Cards,     \* the PCI cards bound to the driver
          Failing,   \* bound: the probe steps that may fail
          Garbage,   \* what a bit of fresh kmalloc memory may hold
          Rebind,    \* bound: may a removed card be probed again
          Protections, \* bound: the vm_flags mmap is called with
          NULL       \* the null pointer

Resources == {"enabled", "region", "bar", "help", "page", "fields", "irq"}
Fallible  == {"p_task", "p_enable", "p_mask", "p_region", "p_bar", "p_help",
              "p_page", "p_irq"}
Probing   == Fallible \cup {"p_x1", "p_poll1", "p_x2", "p_poll2", "p_setup",
                            "p_ints", "p_x3", "p_arm"}
Removing  == {"r_kill", "r_kfree", "r_null", "r_timer", "r_irq", "r_free"}
Offsets   == {0, 10, 20}       \* where the greeting may stand in the DMA page

ASSUME DmaAssumption ==
  /\ NULL \notin Cards
  /\ Failing \subseteq Fallible
  /\ Garbage \subseteq BOOLEAN /\ Garbage # {}
  /\ Rebind \in BOOLEAN
  /\ Protections \subseteq SUBSET {"read", "write"}

VARIABLES
  ctl,            \* ctl[d]: where probe or remove of card d is
  res,            \* res[d]: the resources held for card d
  task,           \* the global tasklet pointer
  tasklet,        \* tasklet[d]: the tasklet_struct the probe of d allocated
  dma_virt_addr,  \* the global pointer to the DMA page
  page,           \* page[d][o]: the DMA page of d has the greeting at offset o
  busy,           \* busy[d]: the transfer card d is doing, 0 if none
  cardmem,        \* cardmem[d]: card memory at 0x40000 holds the greeting
  raised,         \* raised[d]: register 0x0040, "T" for 0x1000, "D" for 0x100
  isr,            \* isr[d]: where my_handler for d is
  interrupt,      \* interrupt[d]: the register value that handler read
  pending,        \* pending[d]: the timer of d is armed
  firing,         \* firing[d]: where raise_intr for d is
  mmaps,          \* cards whose DMA page user space has mapped
  oops           \* the kernel has dereferenced NULL in interrupt context

irqVars  == <<isr, interrupt>>
timeVars == <<pending, firing>>
cardVars == <<busy, cardmem, raised, page>>
taskVars == <<task, tasklet>>
vars == <<ctl, res, taskVars, dma_virt_addr, cardVars, irqVars, timeVars, mmaps, oops>>

Init ==
  /\ ctl = [d \in Cards |-> "new"] /\ res = [d \in Cards |-> {}]
  /\ task = NULL /\ dma_virt_addr = NULL
  /\ tasklet = [d \in Cards |-> [mem |-> "none", sched |-> FALSE, queued |-> FALSE,
                                 run |-> FALSE, data |-> NULL]]
  /\ page = [d \in Cards |-> [o \in Offsets |-> FALSE]]
  /\ busy = [d \in Cards |-> 0] /\ cardmem = [d \in Cards |-> FALSE]
  /\ raised = [d \in Cards |-> {}]
  /\ isr = [d \in Cards |-> "off"] /\ interrupt = [d \in Cards |-> {}]
  /\ pending = [d \in Cards |-> FALSE] /\ firing = [d \in Cards |-> "off"]
  /\ mmaps = {} /\ oops = FALSE

Goto(d, label) == ctl' = [ctl EXCEPT ![d] = label]
Gain(d, r)     == res' = [res EXCEPT ![d] = @ \cup {r}]

--------------------------------------------------------------------------------
(* my_probe *)
Probe(d) ==
  /\ ctl[d] = "new" \/ (Rebind /\ ctl[d] = "unbound")
  \* bound: what an earlier binding left running has finished
  /\ busy[d] = 0 /\ ~tasklet[d].queued /\ ~tasklet[d].run
  /\ Goto(d, "p_task")
  /\ UNCHANGED <<res, taskVars, dma_virt_addr, cardVars, irqVars, timeVars, mmaps, oops>>

\* kmalloc does not clear the tasklet_struct and probe does not initialise it.
ProbeTask(d) ==
  /\ ctl[d] = "p_task"
  /\ task' = d
  /\ \E s, r \in Garbage :
       tasklet' = [tasklet EXCEPT ![d] = [mem |-> "raw", sched |-> s, queued |-> FALSE,
                                          run |-> r, data |-> NULL]]
  /\ Goto(d, "p_enable")
  /\ UNCHANGED <<res, dma_virt_addr, cardVars, irqVars, timeVars, mmaps, oops>>

\* The acquisitions that only take a resource, in their order.
ProbeAcquire(d) ==
  /\ \/ ctl[d] = "p_enable" /\ Gain(d, "enabled") /\ Goto(d, "p_mask")
     \/ ctl[d] = "p_mask" /\ Goto(d, "p_region") /\ UNCHANGED res
     \/ ctl[d] = "p_region" /\ "region" \notin res[d] /\ Gain(d, "region") /\ Goto(d, "p_bar")
     \/ ctl[d] = "p_bar" /\ Gain(d, "bar") /\ Goto(d, "p_help")
     \/ ctl[d] = "p_help" /\ Gain(d, "help") /\ Goto(d, "p_page")
     \/ ctl[d] = "p_setup" /\ Gain(d, "fields") /\ Goto(d, "p_irq")
     \/ ctl[d] = "p_irq" /\ Gain(d, "irq") /\ Goto(d, "p_ints")
  /\ UNCHANGED <<taskVars, dma_virt_addr, cardVars, irqVars, timeVars, mmaps, oops>>

\* A fresh page; strcpy puts the greeting at its start.
ProbePage(d) ==
  /\ ctl[d] = "p_page"
  /\ Gain(d, "page")
  /\ dma_virt_addr' = d
  /\ page' = [page EXCEPT ![d] = [o \in Offsets |-> o = 0]]
  /\ Goto(d, "p_x1")
  /\ UNCHANGED <<taskVars, busy, cardmem, raised, irqVars, timeVars, mmaps, oops>>

\* Every failure returns at once and gives nothing back; the two globals are
\* overwritten by the NULL the failed allocation returned.
ProbeFail(d) ==
  /\ ctl[d] \in Failing \/ (ctl[d] = "p_region" /\ "region" \in res[d])
  /\ task' = IF ctl[d] = "p_task" THEN NULL ELSE task
  /\ dma_virt_addr' = IF ctl[d] = "p_page" THEN NULL ELSE dma_virt_addr
  /\ Goto(d, "unbound")
  /\ UNCHANGED <<res, tasklet, cardVars, irqVars, timeVars, mmaps, oops>>

\* The three writes to SRC, DST, COUNT and the write to CMD that starts it.
ProbeTransfer(d) ==
  /\ \/ ctl[d] = "p_x1" /\ busy' = [busy EXCEPT ![d] = 1] /\ Goto(d, "p_poll1")
     \/ ctl[d] = "p_x2" /\ busy' = [busy EXCEPT ![d] = 2] /\ Goto(d, "p_poll2")
     \/ ctl[d] = "p_x3" /\ busy' = [busy EXCEPT ![d] = 3] /\ Goto(d, "p_arm")
  /\ UNCHANGED <<res, taskVars, dma_virt_addr, cardmem, raised, page, irqVars, timeVars,
                 mmaps, oops>>

\* Mutant of ProbePoll: the next transfer does not wait for the last one.
ProbePollOnce(d) ==
  /\ \/ ctl[d] = "p_poll1" /\ Goto(d, "p_x2")
     \/ ctl[d] = "p_poll2" /\ Goto(d, "p_setup")
  /\ UNCHANGED <<res, taskVars, dma_virt_addr, cardVars, irqVars, timeVars, mmaps, oops>>

\* Mutant of ProbePoll: the loop's condition is inverted.
ProbePollInverted(d) ==
  /\ busy[d] # 0
  /\ \/ ctl[d] = "p_poll1" /\ Goto(d, "p_x2")
     \/ ctl[d] = "p_poll2" /\ Goto(d, "p_setup")
  /\ UNCHANGED <<res, taskVars, dma_virt_addr, cardVars, irqVars, timeVars, mmaps, oops>>

\* while (cmd & 1) cmd = readl(REG_CMD(virt));
ProbePoll(d) ==
  /\ busy[d] = 0
  /\ \/ ctl[d] = "p_poll1" /\ Goto(d, "p_x2")
     \/ ctl[d] = "p_poll2" /\ Goto(d, "p_setup")
  /\ UNCHANGED <<res, taskVars, dma_virt_addr, cardVars, irqVars, timeVars, mmaps, oops>>

ProbeEnableInterrupts(d) ==
  /\ ctl[d] = "p_ints" /\ Goto(d, "p_x3")
  /\ UNCHANGED <<res, taskVars, dma_virt_addr, cardVars, irqVars, timeVars, mmaps, oops>>

ProbeArm(d) ==
  /\ ctl[d] = "p_arm"
  /\ pending' = [pending EXCEPT ![d] = TRUE]
  /\ Goto(d, "bound")
  /\ UNCHANGED <<res, taskVars, dma_virt_addr, cardVars, irqVars, firing, mmaps, oops>>

--------------------------------------------------------------------------------
(* my_remove *)
Remove(d) ==
  /\ ctl[d] = "bound"
  /\ Goto(d, IF task # NULL THEN "r_kill" ELSE "r_timer")
  /\ UNCHANGED <<res, taskVars, dma_virt_addr, cardVars, irqVars, timeVars, mmaps, oops>>

\* tasklet_kill waits until the tasklet is neither scheduled nor running.
RemoveKill(d) ==
  /\ ctl[d] = "r_kill"
  /\ task # NULL => ~tasklet[task].sched /\ ~tasklet[task].run
  /\ oops' = (task = NULL)    \* another card's remove was faster
  /\ Goto(d, "r_kfree")
  /\ UNCHANGED <<res, taskVars, dma_virt_addr, cardVars, irqVars, timeVars, mmaps>>

RemoveKfree(d) ==
  /\ ctl[d] = "r_kfree"
  /\ tasklet' = IF task = NULL THEN tasklet ELSE [tasklet EXCEPT ![task].mem = "freed"]
  /\ Goto(d, "r_null")
  /\ UNCHANGED <<res, task, dma_virt_addr, cardVars, irqVars, timeVars, mmaps, oops>>

RemoveNull(d) ==
  /\ ctl[d] = "r_null"
  /\ task' = NULL
  /\ Goto(d, "r_timer")
  /\ UNCHANGED <<res, tasklet, dma_virt_addr, cardVars, irqVars, timeVars, mmaps, oops>>

\* Mutant of RemoveTimer: free_irq is forgotten.
RemoveTimerKeepIrq(d) ==
  /\ ctl[d] = "r_timer" /\ firing[d] = "off"
  /\ pending' = [pending EXCEPT ![d] = FALSE]
  /\ Goto(d, "r_free")
  /\ UNCHANGED <<res, taskVars, dma_virt_addr, cardVars, irqVars, firing, mmaps, oops>>

\* del_timer_sync disarms the timer once its callback is not running.
RemoveTimer(d) ==
  /\ ctl[d] = "r_timer" /\ firing[d] = "off"
  /\ pending' = [pending EXCEPT ![d] = FALSE]
  /\ Goto(d, "r_irq")
  /\ UNCHANGED <<res, taskVars, dma_virt_addr, cardVars, irqVars, firing, mmaps, oops>>

\* free_irq waits for a handler that is running.
RemoveIrq(d) ==
  /\ ctl[d] = "r_irq" /\ isr[d] = "off"
  /\ res' = [res EXCEPT ![d] = @ \ {"irq"}]
  /\ Goto(d, "r_free")
  /\ UNCHANGED <<taskVars, dma_virt_addr, cardVars, irqVars, timeVars, mmaps, oops>>

\* Nobody else can reach what is freed here, so the five calls are one step.
RemoveFree(d) ==
  /\ ctl[d] = "r_free"
  /\ res' = [res EXCEPT ![d] = {}]
  /\ Goto(d, "unbound")
  /\ UNCHANGED <<taskVars, dma_virt_addr, cardVars, irqVars, timeVars, mmaps, oops>>

--------------------------------------------------------------------------------
(* my_handler *)
IsrEnter(d) ==
  /\ isr[d] = "off" /\ "irq" \in res[d]
  /\ isr' = [isr EXCEPT ![d] = "read"]
  /\ UNCHANGED <<ctl, res, taskVars, dma_virt_addr, cardVars, interrupt, timeVars, mmaps, oops>>

IsrRead(d) ==
  /\ isr[d] = "read"
  /\ interrupt' = [interrupt EXCEPT ![d] = raised[d]]
  /\ isr' = [isr EXCEPT ![d] = IF raised[d] = {} THEN "off" ELSE "ack"]
  /\ UNCHANGED <<ctl, res, taskVars, dma_virt_addr, cardVars, timeVars, mmaps, oops>>

\* Mutant of IsrAck: every cause is acknowledged, not only those that were read.
IsrAckAll(d) ==
  /\ isr[d] = "ack"
  /\ raised' = [raised EXCEPT ![d] = {}]
  /\ isr' = [isr EXCEPT ![d] = IF interrupt[d] = {"D"} THEN "init" ELSE "off"]
  /\ interrupt' = [interrupt EXCEPT ![d] = {}]
  /\ UNCHANGED <<ctl, res, taskVars, dma_virt_addr, busy, cardmem, page, timeVars, mmaps, oops>>

\* Acknowledges what was read; only the lone DMA cause (== 0x100) goes on.
IsrAck(d) ==
  /\ isr[d] = "ack"
  /\ raised' = [raised EXCEPT ![d] = @ \ interrupt[d]]
  /\ isr' = [isr EXCEPT ![d] = IF interrupt[d] = {"D"} THEN "init" ELSE "off"]
  /\ interrupt' = [interrupt EXCEPT ![d] = {}]
  /\ UNCHANGED <<ctl, res, taskVars, dma_virt_addr, busy, cardmem, page, timeVars, mmaps, oops>>

\* ACKINT, then tasklet_init through whatever "task" points to now.
IsrInit(d) ==
  /\ isr[d] = "init"
  /\ oops' = (task = NULL)
  /\ tasklet' = IF task = NULL THEN tasklet
                ELSE [tasklet EXCEPT ![task].mem = IF @ = "freed" THEN @ ELSE "ready",
                                     ![task].sched = FALSE, ![task].run = FALSE,
                                     ![task].data = d]
  /\ isr' = [isr EXCEPT ![d] = "sched"]
  /\ UNCHANGED <<ctl, res, task, dma_virt_addr, cardVars, interrupt, timeVars, mmaps>>

IsrSchedule(d) ==
  /\ isr[d] = "sched"
  /\ oops' = (task = NULL)
  /\ tasklet' = IF task = NULL THEN tasklet
                ELSE [tasklet EXCEPT ![task].sched = TRUE,
                                     ![task].queued = @ \/ ~tasklet[task].sched]
  /\ isr' = [isr EXCEPT ![d] = "off"]
  /\ UNCHANGED <<ctl, res, task, dma_virt_addr, cardVars, interrupt, timeVars, mmaps>>

--------------------------------------------------------------------------------
(* tasklet_fn, run by the softirq; d is the card whose probe allocated it. *)
TaskletStart(d) ==
  /\ tasklet[d].queued /\ ~tasklet[d].run
  /\ tasklet' = [tasklet EXCEPT ![d].queued = FALSE, ![d].sched = FALSE, ![d].run = TRUE]
  /\ UNCHANGED <<ctl, res, task, dma_virt_addr, cardVars, irqVars, timeVars, mmaps, oops>>

TaskletEnd(d) ==
  /\ tasklet[d].mem # "raw" /\ tasklet[d].run
  /\ tasklet' = [tasklet EXCEPT ![d].run = FALSE]
  /\ UNCHANGED <<ctl, res, task, dma_virt_addr, cardVars, irqVars, timeVars, mmaps, oops>>

--------------------------------------------------------------------------------
(* raise_intr, the timer callback *)
TimerFire(d) ==
  /\ pending[d] /\ firing[d] = "off"
  /\ pending' = [pending EXCEPT ![d] = FALSE]
  /\ firing' = [firing EXCEPT ![d] = "raise"]
  /\ UNCHANGED <<ctl, res, taskVars, dma_virt_addr, cardVars, irqVars, mmaps, oops>>

\* Mutant of TimerRaise: a cause the handler does not know.
TimerRaiseUnknown(d) ==
  /\ firing[d] = "raise"
  /\ raised' = [raised EXCEPT ![d] = @ \cup {"0x10000"}]
  /\ firing' = [firing EXCEPT ![d] = "rearm"]
  /\ UNCHANGED <<ctl, res, taskVars, dma_virt_addr, busy, cardmem, page, irqVars, pending,
                 mmaps, oops>>

TimerRaise(d) ==
  /\ firing[d] = "raise"
  /\ raised' = [raised EXCEPT ![d] = @ \cup {"T"}]
  /\ firing' = [firing EXCEPT ![d] = "rearm"]
  /\ UNCHANGED <<ctl, res, taskVars, dma_virt_addr, busy, cardmem, page, irqVars, pending,
                 mmaps, oops>>

\* Mutant of TimerRearm: mod_timer is forgotten.
TimerStops(d) ==
  /\ firing[d] = "rearm"
  /\ firing' = [firing EXCEPT ![d] = "off"]
  /\ UNCHANGED <<ctl, res, taskVars, dma_virt_addr, cardVars, irqVars, pending, mmaps, oops>>

\* Mutant of TimerRearm: the callback loops instead of re-arming the timer.
TimerSpins(d) ==
  /\ firing[d] = "rearm"
  /\ firing' = [firing EXCEPT ![d] = "raise"]
  /\ UNCHANGED <<ctl, res, taskVars, dma_virt_addr, cardVars, irqVars, pending, mmaps, oops>>

TimerRearm(d) ==
  /\ firing[d] = "rearm"
  /\ pending' = [pending EXCEPT ![d] = TRUE]
  /\ firing' = [firing EXCEPT ![d] = "off"]
  /\ UNCHANGED <<ctl, res, taskVars, dma_virt_addr, cardVars, irqVars, mmaps, oops>>

--------------------------------------------------------------------------------
(* The card finishes a transfer; bit 7 of the command, set for the first two, *)
(* says whether it then raises an interrupt.                                  *)
CardDone(d) ==
  /\ busy[d] # 0
  /\ busy' = [busy EXCEPT ![d] = 0]
  /\ cardmem' = IF busy[d] = 1 THEN [cardmem EXCEPT ![d] = page[d][0]] ELSE cardmem
  /\ page' = IF busy[d] = 1 THEN page
             ELSE [page EXCEPT ![d][IF busy[d] = 2 THEN 10 ELSE 20] = cardmem[d]]
  /\ raised' = IF busy[d] = 3 THEN [raised EXCEPT ![d] = @ \cup {"D"}] ELSE raised
  /\ UNCHANGED <<ctl, res, taskVars, dma_virt_addr, irqVars, timeVars, mmaps, oops>>

(* my_mmap: one page, read-only, and only if the DMA page exists. *)
Mmap(pages, flags) ==
  /\ pages <= 1 /\ flags = {"read"}
  /\ dma_virt_addr # NULL
  /\ mmaps' = mmaps \cup {dma_virt_addr}
  /\ UNCHANGED <<ctl, res, taskVars, dma_virt_addr, cardVars, irqVars, timeVars, oops>>

Munmap(d) ==
  /\ d \in mmaps
  /\ mmaps' = mmaps \ {d}
  /\ UNCHANGED <<ctl, res, taskVars, dma_virt_addr, cardVars, irqVars, timeVars, oops>>

--------------------------------------------------------------------------------
ProbeStep(d) == \/ ProbeTask(d) \/ ProbeAcquire(d) \/ ProbePage(d) \/ ProbeFail(d)
                \/ ProbeTransfer(d) \/ ProbePoll(d) \/ ProbeEnableInterrupts(d)
                \/ ProbeArm(d)
RemoveStep(d) == \/ RemoveKill(d) \/ RemoveKfree(d) \/ RemoveNull(d)
                 \/ RemoveTimer(d) \/ RemoveIrq(d) \/ RemoveFree(d)
IsrStep(d) == IsrRead(d) \/ IsrAck(d) \/ IsrInit(d) \/ IsrSchedule(d)
TaskletStep(d) == TaskletStart(d) \/ TaskletEnd(d)
TimerStep(d) == TimerFire(d) \/ TimerRaise(d) \/ TimerRearm(d)

User == \/ \E pages \in 1 .. 2, flags \in Protections : Mmap(pages, flags)
        \/ \E d \in Cards : Munmap(d)

\* An oops stops the machine.
Next == /\ ~oops
        /\ \/ \E d \in Cards : \/ Probe(d) \/ ProbeStep(d) \/ Remove(d) \/ RemoveStep(d)
                               \/ IsrEnter(d) \/ IsrStep(d) \/ TaskletStep(d)
                               \/ TimerStep(d) \/ CardDone(d)
           \/ User

Spec == Init /\ [][Next]_vars

\* Threads, handlers, softirqs and the card make progress, and a card that
\* asks for attention gets it.  The waits of my_remove are strongly fair: a
\* timer that fires every 100 ms leaves del_timer_sync a gap, free_irq takes
\* the handler off the line before it waits, and one binding schedules the
\* tasklet once.  Nobody has to plug a card or call remove.
Running(A) == ~oops /\ A
Fairness ==
  \A d \in Cards :
    /\ WF_vars(Running(ProbeStep(d))) /\ SF_vars(Running(RemoveStep(d)))
    /\ WF_vars(Running(raised[d] # {} /\ IsrEnter(d))) /\ WF_vars(Running(IsrStep(d)))
    /\ WF_vars(Running(TaskletStep(d))) /\ WF_vars(Running(TimerStep(d)))
    /\ WF_vars(Running(CardDone(d)))

FairSpec == Spec /\ Fairness

--------------------------------------------------------------------------------
Tasklets == [mem : {"none", "raw", "ready", "freed"}, sched : BOOLEAN,
             queued : BOOLEAN, run : BOOLEAN, data : Cards \cup {NULL}]
Causes == {"T", "D"}

TypeOK ==
  /\ ctl \in [Cards -> {"new", "bound", "unbound"} \cup Probing \cup Removing]
  /\ res \in [Cards -> SUBSET Resources]
  /\ task \in Cards \cup {NULL} /\ tasklet \in [Cards -> Tasklets]
  /\ dma_virt_addr \in Cards \cup {NULL}
  /\ page \in [Cards -> [Offsets -> BOOLEAN]]
  /\ busy \in [Cards -> 0 .. 3] /\ cardmem \in [Cards -> BOOLEAN]
  /\ raised \in [Cards -> SUBSET Causes] /\ interrupt \in [Cards -> SUBSET Causes]
  /\ isr \in [Cards -> {"off", "read", "ack", "init", "sched"}]
  /\ pending \in [Cards -> BOOLEAN] /\ firing \in [Cards -> {"off", "raise", "rearm"}]
  /\ mmaps \subseteq Cards /\ oops \in BOOLEAN

\* The timer of d may still run its callback, or is running it.
TimerLive(d) == pending[d] \/ firing[d] # "off"

\* Whenever my_handler or raise_intr runs, or the timer can still fire, the
\* card's BAR is mapped and the help struct they reach it through is there
\* with its fields set.  It holds because probe fills the struct before
\* request_irq and mod_timer, and remove stops both before iounmap and kfree.
BarMappedWhileUsed ==
  \A d \in Cards : isr[d] # "off" \/ TimerLive(d) => {"bar", "help", "fields"} \subseteq res[d]

GreetingBack    == \A d \in Cards : "fields" \in res[d] => page[d][10]
GreetingPrinted == \A d \in Cards : tasklet[d].run /\ tasklet[d].data # NULL
                                     => page[tasklet[d].data][20]

\* The greeting makes the round trip: it is back at offset 10 once the second
\* poll of my_probe has ended, and at offset 20 whenever the tasklet prints
\* that address.  It needs the polls between transfers, and that nothing but
\* the third transfer's interrupt schedules the tasklet; the latter fails on a
\* card that is bound again with an interrupt of its former life still raised.
GreetingRoundTrip == GreetingBack /\ GreetingPrinted

\* The DMA driver seen as the driver of 09: the steps that are new stand still,
\* the timer is part of the help struct, which is complete with its fields, and
\* of the causes in the register only the timer's counts.
OldLabel(label) ==
  CASE label \in {"p_task", "p_enable"} -> "p_enable"
    [] label \in {"p_mask", "p_region"} -> "p_region"
    [] label = "p_help" -> "p_timer"
    [] label \in {"p_page", "p_x1", "p_poll1", "p_x2", "p_poll2", "p_setup"} -> "p_help"
    [] label \in {"p_ints", "p_x3", "p_arm"} -> "p_arm"
    [] label \in {"r_kill", "r_kfree", "r_null", "r_timer"} -> "r_timer"
    [] OTHER -> label

OldRes(d) ==
  (res[d] \cap {"enabled", "region", "bar", "irq"})
    \cup {r \in {"timer"} : "help" \in res[d] /\ ctl[d] \notin {"r_irq", "r_free"}}
    \cup {r \in {"help"} : "fields" \in res[d]}

OldIsr(d) == IF isr[d] = "read" \/ (isr[d] = "ack" /\ "T" \in interrupt[d]) THEN isr[d] ELSE "off"

Old == INSTANCE TimerDriver
         WITH ctl    <- [d \in Cards |-> OldLabel(ctl[d])],
              res    <- [d \in Cards |-> OldRes(d)],
              raised <- [d \in Cards |-> "T" \in raised[d]],
              isr    <- [d \in Cards |-> OldIsr(d)]

\* What was added for DMA leaves the driver of 09 as it was: the order in which
\* probe takes and remove stops and frees things, the timer that re-arms itself,
\* and a handler that acknowledges the timer's interrupt only after it has read
\* it, although the register now has a second cause.
ImplementsTimerDriver == Old!Spec

\* my_probe ends whatever fails, and whether the card is slow or quick.
ProbeReturns == \A d \in Cards : ctl[d] \in Probing ~> ctl[d] \notin Probing \/ oops

\* my_remove ends although a timer re-arms itself, a handler may be running
\* and a tasklet may be scheduled, unless the handler has oopsed.
RemoveReturns == \A d \in Cards : ctl[d] \in Removing ~> ctl[d] = "unbound" \/ oops

\* "set timer to raise interrupts periodicaly": as long as the card is bound
\* the callback runs again and again.
TimerKeepsFiring ==
  \A d \in Cards : []<>(ctl[d] = "bound" => firing[d] # "off" \/ oops)

\* my_remove has the comment "stop tasklet" at its start, so the handler should
\* never again touch the tasklet that was stopped, freed and set to NULL.
NoTaskletAfterStop ==
  \A d \in Cards : isr[d] \in {"init", "sched"} => task # NULL /\ tasklet[task].mem # "freed"

\* my_handler has the comments "0x100 - DMA transfer interrupt" and "schedule
\* tasklet": an acknowledged DMA interrupt should schedule the tasklet.
NoLostDmaInterrupt ==
  [][\A d \in Cards : IsrAck(d) /\ "D" \in interrupt[d] => isr'[d] = "init"]_vars

\* my_mmap has the comment "return error if DMA has not been allocated yet": a
\* page it maps should be one that is allocated.
MmapsAllocatedPage ==
  [][\A d \in Cards : d \in mmaps' \ mmaps => "page" \in res[d]]_vars
================================================================================
