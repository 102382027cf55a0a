CONSTANTS
  MaxIno = 3
  Names <- MCNames
  BlockSize = 16
  WriteOffsets <- MCWriteOffsets
  WriteLens = {1}
  NewSizes = {0}
  LinkLens = {2}
  MaxFh = 1
  NoMeta = NoMeta
  Absent = Absent
  NoIno = NoIno
  NoDir = NoDir
  Clients <- MCClients
  RenameMutex = TRUE
  Ops <- OpsNamespace
  c1 = c1
  c2 = c2
  a = a
  b = b
SPECIFICATION Spec
SYMMETRY KvSymmetry
PROPERTIES
  CommitSerializable
