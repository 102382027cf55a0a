CONSTANTS
  Owners = {o1, o2, o3}
  MemOwners = {o1, o2}
SYMMETRY OwnerSymmetry
INIT Init
NEXT Next
\* Every owner may close its file; the system then has nothing to serve.
CHECK_DEADLOCK FALSE
INVARIANTS
  MutualExclusion
  LockStateConsistent
  HoldersAreOwners
