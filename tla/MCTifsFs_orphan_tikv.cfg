CONSTANTS
  MaxIno = 4
  Names = {a, b}
  Backend = "tikv"
  BlockSize = 16
  WriteOffsets <- DataWriteOffsets
  WriteLens <- DataWriteLens
  NewSizes <- DataNewSizes
  LinkLens <- MCLinkLens
  MaxFh = 1
  NoMeta = NoMeta
  Absent = Absent
  NoIno = NoIno
  NoDir = NoDir
SYMMETRY NameSymmetry
INIT Init
NEXT Next
INVARIANTS
  NoOrphanFileBlocks
