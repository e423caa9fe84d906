SPECIFICATION ModSpec
CONSTANTS
  Tasks = {t1, t2}
  Files = {f1, f2}
  Args = {0, 2, 5}
  NoTask = NoTask
  NoFile = NoFile
  Users = {u1}
  NPages = 2
  MayFail = TRUE
SYMMETRY Symmetry
\* After a failed my_init nothing is defined.
CHECK_DEADLOCK FALSE
INVARIANTS ModTypeOK  UnloadsClean PagesLabelled
PROPERTY ImplementsDeviceState
