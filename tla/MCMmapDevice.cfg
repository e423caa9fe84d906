SPECIFICATION Spec
CONSTANTS
  Files = {f1, f2}
  Vmas = {v1, v2}
  Pgoffs = {0, 1, 2, 3, 4, 5}
  MaxLen = 3
  MayFail = TRUE
SYMMETRY Symmetry
INVARIANTS TypeOK ReferencesBalanced MappedIsOwned WritableLastTwo
PROPERTY FaultsAgree
