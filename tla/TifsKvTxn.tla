----------------------------- MODULE TifsKvTxn -----------------------------
(***************************************************************************)
(* The TiKV build of tifs with requests in flight concurrently.  Every     *)
(* handler runs its body in TiFs::spin: with_optimistic begins an          *)
(* optimistic TiKV transaction, the body reads from the snapshot of its    *)
(* start timestamp and buffers its puts and deletes, process_txn commits,  *)
(* and a KeyError (the write conflict TiKV reports at commit) makes spin   *)
(* run the whole body again in a fresh transaction.  Any other error       *)
(* rolls back and is returned.                                             *)
(*                                                                         *)
(* TiKV gives snapshot isolation: a commit fails only when another         *)
(* transaction committed one of the keys it writes after its start.        *)
(* Reads are not validated.  What a request writes is therefore part of    *)
(* its correctness, and each request's write set is written out here from  *)
(* the puts and deletes of its Txn methods, key family by key family.      *)
(*                                                                         *)
(* The store and the request bodies are those of TifsFs (the tikv build),  *)
(* and the atomic TifsFs specification is checked as a property of this    *)
(* one under the refinement mapping fs <- store.                           *)
(***************************************************************************)
EXTENDS Naturals, FiniteSets

CONSTANTS
  MaxIno, Names, BlockSize, WriteOffsets, WriteLens, NewSizes, LinkLens,
  MaxFh, NoMeta, Absent, NoIno, NoDir,
  Clients,       \* requests the FUSE session has in flight at once
  RenameMutex,   \* TRUE: one mount, whose VFS runs one cross-directory
                 \* rename at a time (s_vfs_rename_mutex)
  Ops            \* the handlers the kernel calls in this model

ASSUME RenameMutex \in BOOLEAN

VARIABLES
  store,   \* the committed TiKV key space, as a TifsFs store
  pc,      \* per client: "idle", "active" (body done, commit pending), "retry"
  req,     \* the request the client is serving
  res,     \* the store as the body left it in its transaction buffer
  ws,      \* the keys the body put or deleted
  missed   \* keys other transactions committed since this one started

vars == <<store, pc, req, res, ws, missed>>

Fs == INSTANCE TifsFs WITH fs <- store, Backend <- "tikv"

Ino == Fs!Ino
NoReq == [op |-> "none"]
NoTxn == [none |-> TRUE]   \* no transaction buffer

-----------------------------------------------------------------------------
(* ScopedKey: the key families a body writes.                              *)

KMeta == <<"meta">>
KInode(i) == <<"inode", i>>
KIndex(p, n) == <<"index", p, n>>
KBlock(i, b) == <<"block", i, b>>
KFh(i, f) == <<"fh", i, f>>

\* Mutant: save_dir that puts block 0 but does not re-save the inode.
WSaveDirBlockOnly(d) == {KBlock(d, 0)}

\* save_dir: save_inode of the directory, then put block 0.
WSaveDir(d) == {KInode(d), KBlock(d, 0)}

\* make_inode: put meta, set_index and save_dir of the parent, save_inode.
WMakeInode(st, p, n) ==
  {KMeta, KIndex(p, n), KInode(Fs!NextIno(st))} \cup WSaveDir(p)

\* unlink and rmdir: remove_index, save_dir of the parent, and save_inode
\* (unlink) or remove_inode (rmdir) of the target: the same keys.
WUnlink(st, p, n) ==
  {KIndex(p, n), KInode(st.index[<<p, n>>])} \cup WSaveDir(p)

\* link: what replacing an existing newname writes, set_index, save_dir of
\* newparent, save_inode of ino.
WLink(st, ino, np, nn) ==
  (IF st.index[<<np, nn>>] = NoIno THEN {} ELSE WUnlink(st, np, nn))
  \cup {KIndex(np, nn), KInode(ino)} \cup WSaveDir(np)

\* Mutant: write_data that skips save_inode when the size does not grow.
WWriteDataNoInode(st, ino, start, len) ==
  IF start + len <= st.inode[ino].size /\ ~st.inode[ino].inline
  THEN {KBlock(ino, b) : b \in Fs!WrittenBlocks(start, len)}
  ELSE {KInode(ino)} \cup {KBlock(ino, b) : b \in Fs!WrittenBlocks(start, len)}

\* write_data: the blocks the loop puts, block 0 when inline data is moved
\* out, and the inode.
WWriteData(st, ino, start, len) ==
  LET rec == st.inode[ino]
      inlinePath == (rec.inline \/ rec.size = 0) /\ start + len <= BlockSize
  IN  {KInode(ino)}
        \cup (IF rec.inline /\ start + len > BlockSize THEN {KBlock(ino, 0)} ELSE {})
        \cup (IF inlinePath THEN {} ELSE {KBlock(ino, b) : b \in Fs!WrittenBlocks(start, len)})

-----------------------------------------------------------------------------
(* Requests: the inputs of the handlers, each a record tagged by op.       *)

Fhs == 0..(MaxFh - 1)

AllRequests ==
  [op : {"mknod", "mkdir", "unlink", "rmdir"}, parent : Ino, name : Names]
    \cup [op : {"symlink"}, parent : Ino, name : Names, len : LinkLens]
    \cup [op : {"link"}, ino : Ino, parent : Ino, name : Names]
    \cup [op : {"rename"}, parent : Ino, name : Names, newparent : Ino, newname : Names]
    \cup [op : {"open"}, ino : Ino]
    \cup [op : {"getattr"}, ino : {Fs!ROOT_INODE}]
    \cup [op : {"release", "read"}, ino : Ino, fh : Fhs]
    \cup [op : {"write"}, ino : Ino, fh : Fhs, start : WriteOffsets, len : WriteLens]
    \cup [op : {"setattr"}, ino : Ino, size : NewSizes]

Requests == {r \in AllRequests : r.op \in Ops}

\* The body reaches its writes (no early return, VFS screening passed),
\* judged on the snapshot st.
BodyOk(st, r) ==
  CASE r.op \in {"mknod", "mkdir", "symlink"} -> Fs!CreateOk(st, r.parent, r.name)
    [] r.op = "link"    -> Fs!LinkOk(st, r.ino, r.parent, r.name)
    [] r.op = "unlink"  -> Fs!UnlinkOk(st, r.parent, r.name)
    [] r.op = "rmdir"   -> Fs!RmdirOk(st, r.parent, r.name)
    [] r.op = "rename"  -> Fs!RenameOk(st, r.parent, r.name, r.newparent, r.newname)
    [] r.op = "open"    -> Fs!OpenOk(st, r.ino)
    [] r.op \in {"release", "read", "write"} -> Fs!HandleOpen(st, r.ino, r.fh)
    [] r.op = "setattr" -> Fs!SetattrOk(st, r.ino)
    [] r.op = "getattr" -> Fs!Live(st, r.ino)

\* The transaction buffer after the body: the TifsFs store operations.
Body(st, r) ==
  CASE r.op = "mknod"   -> Fs!MakeInode(st, r.parent, r.name, "file")
    [] r.op = "mkdir"   -> Fs!Mkdir(st, r.parent, r.name)
    [] r.op = "symlink" -> Fs!Symlink(st, r.parent, r.name, r.len)
    [] r.op = "link"    -> Fs!Link(st, r.ino, r.parent, r.name)
    [] r.op = "unlink"  -> Fs!Unlink(st, r.parent, r.name)
    [] r.op = "rmdir"   -> Fs!Rmdir(st, r.parent, r.name)
    [] r.op = "rename"  -> Fs!Rename(st, r.parent, r.name, r.newparent, r.newname)
    [] r.op = "open"    -> Fs!Open(st, r.ino)
    [] r.op = "release" -> Fs!Close(st, r.ino, r.fh)
    [] r.op = "write"   -> Fs!WriteData(st, r.ino, r.start, r.len)
    [] r.op = "setattr" -> Fs!SetSize(st, r.ino, r.size)
    [] r.op \in {"read", "getattr"} -> st

\* The keys the body puts or deletes, per handler.
WriteSet(st, r) ==
  CASE r.op = "mknod"   -> WMakeInode(st, r.parent, r.name)
    [] r.op = "mkdir"   -> WMakeInode(st, r.parent, r.name) \cup WSaveDir(Fs!NextIno(st))
    [] r.op = "symlink" -> WMakeInode(st, r.parent, r.name)
    [] r.op = "link"    -> WLink(st, r.ino, r.parent, r.name)
    [] r.op \in {"unlink", "rmdir"} -> WUnlink(st, r.parent, r.name)
    [] r.op = "rename"  ->
         WLink(st, st.index[<<r.parent, r.name>>], r.newparent, r.newname)
           \cup WUnlink(st, r.parent, r.name)
    [] r.op = "open"    -> {KFh(r.ino, st.inode[r.ino].nextFh), KInode(r.ino)}
    [] r.op = "release" -> {KFh(r.ino, r.fh), KInode(r.ino)}
    [] r.op = "write"   -> WWriteData(st, r.ino, r.start, r.len)
    [] r.op \in {"setattr", "read"} -> {KInode(r.ino)}
    [] r.op = "getattr" -> {}

\* Commit: the keys of W take their buffered value from b; every other key
\* keeps its committed value in st.
Apply(st, b, W) ==
  [meta    |-> IF KMeta \in W THEN b.meta ELSE st.meta,
   inode   |-> [i \in Ino |-> IF KInode(i) \in W THEN b.inode[i] ELSE st.inode[i]],
   index   |-> [pn \in DOMAIN st.index |->
                  IF KIndex(pn[1], pn[2]) \in W THEN b.index[pn] ELSE st.index[pn]],
   dir     |-> [i \in Ino |-> IF KBlock(i, 0) \in W THEN b.dir[i] ELSE st.dir[i]],
   blocks  |-> [i \in Ino |->
                  {k \in b.blocks[i] \cup st.blocks[i] :
                     IF KBlock(i, k) \in W THEN k \in b.blocks[i] ELSE k \in st.blocks[i]}],
   handles |-> {h \in b.handles \cup st.handles :
                  IF KFh(h[1], h[2]) \in W THEN h \in b.handles ELSE h \in st.handles}]

-----------------------------------------------------------------------------
(* Actions.                                                                *)

CrossRename(r) == r.op = "rename" /\ r.parent # r.newparent

\* The VFS admits a cross-directory rename only while no other one is in
\* flight on the mount (lock_rename holds s_vfs_rename_mutex across the
\* whole FUSE request, retries included).
VfsAdmits(c, r) ==
  RenameMutex /\ CrossRename(r) =>
    \A d \in Clients \ {c} : pc[d] # "idle" => ~CrossRename(req[d])

\* The transaction is dropped: its buffer, write set and conflicts go.
Discard(c) ==
  /\ res' = [res EXCEPT ![c] = NoTxn]
  /\ ws' = [ws EXCEPT ![c] = {}]
  /\ missed' = [missed EXCEPT ![c] = {}]

\* Mutant: spin that runs the body again after any error, not only KeyError.
ExecuteRetryAll(c, r) ==
  IF BodyOk(store, r)
  THEN /\ pc' = [pc EXCEPT ![c] = "active"]
       /\ req' = [req EXCEPT ![c] = r]
       /\ res' = [res EXCEPT ![c] = Body(store, r)]
       /\ ws' = [ws EXCEPT ![c] = WriteSet(store, r)]
       /\ missed' = [missed EXCEPT ![c] = {}]
  ELSE /\ pc' = [pc EXCEPT ![c] = "retry"]
       /\ req' = [req EXCEPT ![c] = r]
       /\ Discard(c)

\* with_optimistic and the body: begin at the committed state, run the body
\* on that snapshot.  Past an early return the transaction is rolled back
\* and the error returned (the client is idle again); otherwise its buffer
\* and write set wait for commit.
Execute(c, r) ==
  IF BodyOk(store, r)
  THEN /\ pc' = [pc EXCEPT ![c] = "active"]
       /\ req' = [req EXCEPT ![c] = r]
       /\ res' = [res EXCEPT ![c] = Body(store, r)]
       /\ ws' = [ws EXCEPT ![c] = WriteSet(store, r)]
       /\ missed' = [missed EXCEPT ![c] = {}]
  ELSE /\ pc' = [pc EXCEPT ![c] = "idle"]
       /\ req' = [req EXCEPT ![c] = NoReq]
       /\ Discard(c)

\* init: the root directory is made in one transaction before the session
\* serves requests.
Mount ==
  /\ Fs!FsInit
  /\ UNCHANGED <<pc, req, res, ws, missed>>

\* A request arrives from the kernel for an idle slot of the session.
Begin(c, r) ==
  /\ Fs!Mounted /\ pc[c] = "idle"
  /\ BodyOk(store, r) /\ VfsAdmits(c, r)
  /\ Execute(c, r)
  /\ UNCHANGED store

\* process_txn: txn.commit() succeeds when no key of the write set was
\* committed by another transaction since this one started.  The others
\* in flight have now missed these keys.
Commit(c) ==
  /\ pc[c] = "active"
  /\ ws[c] \cap missed[c] = {}
  /\ store' = Apply(store, res[c], ws[c])
  /\ missed' = [d \in Clients |->
                  IF d # c /\ pc[d] = "active" THEN missed[d] \cup ws[c] ELSE {}]
  /\ pc' = [pc EXCEPT ![c] = "idle"]
  /\ req' = [req EXCEPT ![c] = NoReq]
  /\ res' = [res EXCEPT ![c] = NoTxn]
  /\ ws' = [ws EXCEPT ![c] = {}]

\* txn.commit() fails with a write conflict: a KeyError, which spin
\* catches (no delay) to run the body again.
Conflict(c) ==
  /\ pc[c] = "active"
  /\ ws[c] \cap missed[c] # {}
  /\ pc' = [pc EXCEPT ![c] = "retry"]
  /\ Discard(c)
  /\ UNCHANGED <<store, req>>

\* spin: the next round, a fresh transaction running the same request.
Retry(c) ==
  /\ pc[c] = "retry"
  /\ Execute(c, req[c])
  /\ UNCHANGED store

Next ==
  \/ Mount
  \/ \E c \in Clients, r \in Requests : Begin(c, r)
  \/ \E c \in Clients : Commit(c) \/ Conflict(c) \/ Retry(c)

Init ==
  /\ Fs!Init
  /\ pc = [c \in Clients |-> "idle"]
  /\ req = [c \in Clients |-> NoReq]
  /\ res = [c \in Clients |-> NoTxn]
  /\ ws = [c \in Clients |-> {}]
  /\ missed = [c \in Clients |-> {}]

\* A request in flight keeps running: spin loops without giving up, and the
\* commit and the next round are steps of that task alone.  Arrivals are
\* not fair: the kernel may stop sending.
Fairness == \A c \in Clients : WF_vars(Commit(c)) /\ WF_vars(Conflict(c)) /\ WF_vars(Retry(c))

Spec == Init /\ [][Next]_vars /\ Fairness

-----------------------------------------------------------------------------
(* Properties.                                                             *)

\* Each commit of a request that writes is the request's own body run on
\* the store it commits to: the request was admissible there and its
\* effect is the same as if no other request had committed since its
\* snapshot, so every commit is one atomic TifsFs step on the committed
\* key space.  (A body that writes nothing serializes at its snapshot.)
\* This holds only because every body writes a key of each inode and
\* directory whose state it depends on (save_dir re-saves its inode).
CommitSerializable ==
  [][\A c \in Clients :
       pc[c] = "active" /\ pc'[c] = "idle" /\ ws[c] # {} =>
         /\ BodyOk(store, req[c])
         /\ store' = Body(store, req[c])]_vars

\* A round ends: a request in flight commits or returns its error.
Finish == \E c \in Clients : pc[c] # "idle" /\ pc'[c] = "idle"

\* spin has no bound and no delay, and TiKV's first committer wins: while
\* a request is in flight, some request eventually finishes, because a
\* round that fails at commit always fails to a commit that succeeded and
\* the next round starts from a fresh snapshot.  (A single request can
\* still lose every round to new arrivals; see the README.)  Either rounds
\* end forever, or the session eventually has nothing in flight for good.
SomeRequestFinishes ==
  []<><<Finish>>_vars \/ <>[](\A c \in Clients : pc[c] = "idle")
====
