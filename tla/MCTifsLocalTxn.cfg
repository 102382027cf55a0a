\* Two requests in flight on the memory build.
CONSTANTS
  MaxIno = 4
  Names <- MCNames
  BlockSize = 16
  WriteOffsets = {0}
  WriteLens = {1}
  NewSizes = {0}
  LinkLens = {2}
  MaxFh = 1
  NoMeta = NoMeta
  Absent = Absent
  NoIno = NoIno
  NoDir = NoDir
  Clients = {c1, c2}
  Ops <- OpsAll
  c1 = c1
  c2 = c2
  a = a
  b = b
SYMMETRY LocalSymmetry
SPECIFICATION Spec
CHECK_DEADLOCK FALSE
INVARIANT
  SerialConsistency
