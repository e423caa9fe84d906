SPECIFICATION FairSpec
CONSTANTS
  Tasks = {t1, t2}
  Files = {f1, f2}
  Bytes = {0, 1}
  BufLen = 3
  Chunk = 2
  Offsets = {0, 2, 3}
  Counts = {2}
  NoTask = NoTask
  NoFile = NoFile
INVARIANTS TypeOK OneWriter StoresBelowLastByte
PROPERTY ImplementsAtomicBuffer CallsReturn
