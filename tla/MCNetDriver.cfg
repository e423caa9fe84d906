SPECIFICATION FairSpec
CONSTANTS
  Readers = {r1}
  Writers = {w1}
  Packets <- MCPackets
  Size = 2
  Wrap = 4
  Failing = {"i_alloc", "i_register", "w_alloc"}
INVARIANTS TypeOK DeviceWhileUsed TimerStopped
PROPERTIES ImplementsFifo StopReturns
CHECK_DEADLOCK FALSE
