SPECIFICATION Spec
CONSTANTS
  Cards = {c1}
  Failing = {}
  Garbage = {TRUE, FALSE}
  Rebind = FALSE
  Protections = {}
  NULL = NULL
\* A removed card may never be plugged in again, and an oops stops the machine.
CHECK_DEADLOCK FALSE
INVARIANT NoTaskletAfterStop
