SPECIFICATION Spec
CONSTANTS
  x1 = x1
  x2 = x2
  a = a
  b = b
  r1 = r1
  r2 = r2
  Ext = {x1, x2}
  Content = {a, b}
  Run = {r1, r2}
  MaxChanges = 2
  MaxFaults = 1
  Absent = Absent
  NoExt = NoExt
SYMMETRY MCSymmetry
INVARIANTS StoresAgree
PROPERTIES SuccessMirrorsSnapshot
