---------------------------- MODULE MCTifsKvTxn -----------------------------
(* TifsKvTxn for TLC: two requests in flight, a root and two more inodes,  *)
(* two names, one handle per inode, writes at block 1.         *)
EXTENDS TifsKvTxn, TLC

CONSTANTS c1, c2, a, b

MCClients == {c1, c2}
MCNames == {a, b}
MCWriteOffsets == {16}

\* Namespace requests racing each other.
OpsNamespace == {"mknod", "mkdir", "unlink", "rmdir", "link", "rename", "getattr"}

\* Requests on files and their handles racing each other and unlink.
OpsFiles == {"mknod", "unlink", "open", "release", "write", "setattr", "read", "getattr"}

\* A mix small enough for the liveness check without symmetry, in which
\* rounds conflict on meta, on a directory's keys and on a file's inode.
OpsLive == {"mknod", "mkdir", "unlink", "rmdir", "open", "release", "write", "getattr"}

\* Names and clients are interchangeable: nothing compares two of them.
KvSymmetry == Permutations(MCNames) \cup Permutations(MCClients)
====
