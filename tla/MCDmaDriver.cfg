SPECIFICATION FairSpec
CONSTANTS
  Cards = {c1}
  Failing = {"p_task", "p_enable", "p_mask", "p_region", "p_bar", "p_help", "p_page", "p_irq"}
  Garbage = {FALSE}
  Rebind = TRUE
  Protections = {{"read"}, {"read", "write"}}
  NULL = NULL
\* A removed card may never be plugged in again, and an oops stops the machine.
CHECK_DEADLOCK FALSE
INVARIANTS TypeOK BarMappedWhileUsed
PROPERTIES ImplementsTimerDriver ProbeReturns  TimerKeepsFiring
