SPECIFICATION Spec
CONSTANTS
  Tasks = {t1, t2}
  Files = {f1, f2}
  Args = {1, 2}
  NoFile = NoFile
INVARIANT CountsInstances
