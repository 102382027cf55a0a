\* The namespace properties under both builds.
CONSTANTS
  MaxIno = 4
  Names = {a, b}
  BlockSize = 16
  MaxFh = 1
  NoMeta = NoMeta
  Absent = Absent
  NoIno = NoIno
  NoDir = NoDir
SYMMETRY NameSymmetry
INIT Init
NEXT Next
INVARIANTS
  TypeOK
  IndexDirCoherent
  NlinkCountsNames
  HandlesMatchOpenCount
  NamespaceIsTree
