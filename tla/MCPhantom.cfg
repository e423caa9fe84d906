SPECIFICATION FairSpec
CONSTANTS
  Cards = {d1, d2, d3}
  Tasks = {t1, t2}
  Files = {f1, f2}
  MaxMinors = 1
  Failing = {"p_enable", "p_regions", "p_alloc", "p_caddr", "p_iaddr", "p_irq", "p_cdev"}
  NoTask = NoTask
  NoFile = NoFile
  NoCard = NoCard
INVARIANTS TypeOK  OneOpener MinorsUnique NothingLeaked
PROPERTIES CallsReturn ControlReturns
