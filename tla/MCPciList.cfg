SPECIFICATION FairSpec
CONSTANTS
  MaxDevs = 4
  Addrs = {a1, a2, a3}
  NoAddr = NoAddr
\* After a failed my_init and the last plug nothing more happens.
CHECK_DEADLOCK FALSE
INVARIANTS TypeOK ReferencesBalanced PluggedInReported
PROPERTY WalksEnd
