--------------------------- MODULE MCTifsLocalTxn ---------------------------
(* TifsLocalTxn for TLC: requests in flight on a root, a directory and   *)
(* files, two names, one handle per inode.                                *)
EXTENDS TifsLocalTxn, TLC

CONSTANTS c1, c2, a, b

MCNames == {a, b}

\* Namespace and open-file requests.
OpsAll == {"mknod", "mkdir", "unlink", "rmdir", "open", "release"}

\* Creates and removals only: inode allocation across directories.
OpsNamespace == {"mknod", "mkdir", "unlink", "rmdir"}

\* unlink racing open and release of the same file.
OpsUnlinkOpen == {"mknod", "unlink", "open", "release"}

\* Every handler of the model.
OpsFull == OpsAll \cup {"create", "link", "setattr", "setlk", "write", "read",
                      "symlink", "rename", "readlink", "fallocate"}

\* The handlers that read an open file's inode and save it back, against
\* the write whose size and inline data they may carry.
OpsData == {"create", "open", "write", "read", "release"}

\* setlk, whose read_inode ... save_inode carries the lock state, against
\* a write of the same file.
OpsLock == {"create", "open", "write", "setlk"}

\* readlink, whose read_inline_data saves the symlink back, against a link
\* of the same symlink.
OpsReadlink == {"symlink", "link", "readlink"}

\* rename of a file out of a directory against an open of it.
OpsRenameOpen == {"mknod", "mkdir", "rename", "open"}

LocalSymmetry == Permutations(MCNames)
\* At most one open (or create) in flight, so that the race TLC reports
\* first is not the one of two opens (MCTifsLocalTxn_unlink_open.cfg).
OneOpen == Cardinality({c \in Clients : req[c].op \in {"open", "create"}}) <= 1

\* open, create and release run alone, so that the races TLC reports are
\* those of the data path (MCTifsLocalTxn_data.cfg).
HandleOpsAlone ==
  (\E c \in Clients : req[c].op \in {"open", "create", "release"}) =>
    Cardinality({c \in Clients : pc[c] # 0}) <= 1
====
