SPECIFICATION Spec
CONSTANTS
  Cards = {c1}
  Failing = {}
  Garbage = {FALSE}
  Rebind = FALSE
  Protections = {{"read"}, {"read", "write"}}
  NULL = NULL
\* A removed card may never be plugged in again, and an oops stops the machine.
CHECK_DEADLOCK FALSE
PROPERTY MmapsAllocatedPage
