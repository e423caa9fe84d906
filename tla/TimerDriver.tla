------------------------------- MODULE TimerDriver -------------------------------
(***************************************************************************)
(* The PCI driver of 09/pb173.c, from which 11/homework/pb173.c was made:  *)
(* each card has a timer that raises an interrupt every 100 ms and a       *)
(* handler that acknowledges it.  DmaDriver is shown to implement it.      *)
(*                                                                         *)
(* The PCI, interrupt and timer cores are modelled as in DmaDriver.        *)
(* raised[d] is register 0x0040, of which 09 knows one cause, 0x1000.      *)
(***************************************************************************)

CONSTANT Cards       \* the PCI cards bound to the driver

VARIABLES ctl,       \* ctl[d]: where probe or remove of card d is
          res,       \* res[d]: what is held for card d
          raised,    \* raised[d]: the card's interrupt is raised
          isr,       \* isr[d]: where my_handler for d is
          pending,   \* pending[d]: the timer of d is armed
          firing     \* firing[d]: where raise_intr for d is

vars == <<ctl, res, raised, isr, pending, firing>>

Init == /\ ctl = [d \in Cards |-> "new"] /\ res = [d \in Cards |-> {}]
        /\ raised = [d \in Cards |-> FALSE] /\ isr = [d \in Cards |-> "off"]
        /\ pending = [d \in Cards |-> FALSE] /\ firing = [d \in Cards |-> "off"]

Move(d, from, to) == ctl[d] = from /\ ctl' = [ctl EXCEPT ![d] = to]
Gain(d, r)        == res' = [res EXCEPT ![d] = @ \cup {r}]
Lose(d, r)        == res' = [res EXCEPT ![d] = @ \ {r}]

--------------------------------------------------------------------------------
(* my_probe: nothing is given back when a step fails. *)
Probe(d) ==
  /\ Move(d, "new", "p_enable") \/ Move(d, "unbound", "p_enable")
  /\ UNCHANGED <<res, raised, isr, pending, firing>>

ProbeAcquire(d) ==
  /\ \/ Move(d, "p_enable", "p_region") /\ Gain(d, "enabled")
     \/ Move(d, "p_region", "p_bar") /\ "region" \notin res[d] /\ Gain(d, "region")
     \/ Move(d, "p_bar", "p_timer") /\ Gain(d, "bar")
     \/ Move(d, "p_timer", "p_help") /\ Gain(d, "timer")
     \/ Move(d, "p_help", "p_irq") /\ Gain(d, "help")
     \/ Move(d, "p_irq", "p_arm") /\ Gain(d, "irq")
  /\ UNCHANGED <<raised, isr, pending, firing>>

ProbeFail(d) ==
  /\ \E step \in {"p_enable", "p_region", "p_bar", "p_timer", "p_help", "p_irq"} :
       Move(d, step, "unbound")
  /\ UNCHANGED <<res, raised, isr, pending, firing>>

ProbeArm(d) ==
  /\ Move(d, "p_arm", "bound") /\ pending' = [pending EXCEPT ![d] = TRUE]
  /\ UNCHANGED <<res, raised, isr, firing>>

--------------------------------------------------------------------------------
(* my_remove: timer, interrupt, then everything else. *)
Remove(d) ==
  /\ Move(d, "bound", "r_timer")
  /\ UNCHANGED <<res, raised, isr, pending, firing>>

RemoveTimer(d) ==
  /\ firing[d] = "off" /\ pending' = [pending EXCEPT ![d] = FALSE]
  /\ Move(d, "r_timer", "r_irq") /\ Lose(d, "timer")
  /\ UNCHANGED <<raised, isr, firing>>

RemoveIrq(d) ==
  /\ isr[d] = "off" /\ Move(d, "r_irq", "r_free") /\ Lose(d, "irq")
  /\ UNCHANGED <<raised, isr, pending, firing>>

RemoveFree(d) ==
  /\ Move(d, "r_free", "unbound") /\ res' = [res EXCEPT ![d] = {}]
  /\ UNCHANGED <<raised, isr, pending, firing>>

--------------------------------------------------------------------------------
(* my_handler and raise_intr *)
IsrEnter(d) ==
  /\ "irq" \in res[d] /\ isr[d] = "off" /\ isr' = [isr EXCEPT ![d] = "read"]
  /\ UNCHANGED <<ctl, res, raised, pending, firing>>

IsrRead(d) ==
  /\ isr[d] = "read" /\ isr' = [isr EXCEPT ![d] = IF raised[d] THEN "ack" ELSE "off"]
  /\ UNCHANGED <<ctl, res, raised, pending, firing>>

IsrAck(d) ==
  /\ isr[d] = "ack" /\ isr' = [isr EXCEPT ![d] = "off"]
  /\ raised' = [raised EXCEPT ![d] = FALSE]
  /\ UNCHANGED <<ctl, res, pending, firing>>

TimerFire(d) ==
  /\ pending[d] /\ pending' = [pending EXCEPT ![d] = FALSE]
  /\ firing[d] = "off" /\ firing' = [firing EXCEPT ![d] = "raise"]
  /\ UNCHANGED <<ctl, res, raised, isr>>

TimerRaise(d) ==
  /\ firing[d] = "raise" /\ firing' = [firing EXCEPT ![d] = "rearm"]
  /\ raised' = [raised EXCEPT ![d] = TRUE]
  /\ UNCHANGED <<ctl, res, isr, pending>>

TimerRearm(d) ==
  /\ firing[d] = "rearm" /\ firing' = [firing EXCEPT ![d] = "off"]
  /\ pending' = [pending EXCEPT ![d] = TRUE]
  /\ UNCHANGED <<ctl, res, raised, isr>>

--------------------------------------------------------------------------------
Next == \E d \in Cards :
          \/ Probe(d) \/ ProbeAcquire(d) \/ ProbeFail(d) \/ ProbeArm(d)
          \/ Remove(d) \/ RemoveTimer(d) \/ RemoveIrq(d) \/ RemoveFree(d)
          \/ IsrEnter(d) \/ IsrRead(d) \/ IsrAck(d)
          \/ TimerFire(d) \/ TimerRaise(d) \/ TimerRearm(d)

Spec == Init /\ [][Next]_vars
================================================================================
