---------------------------- MODULE TifsLocalTxn ----------------------------
(***************************************************************************)
(* The memory build of tifs (feature mem_store) with requests in flight    *)
(* concurrently.  A handler runs its body in TiFs::spin_local: a LocalTxn  *)
(* is only a handle on the shared entry_map, and each of its methods takes *)
(* the map's mutex for its own get, insert or remove and drops it before   *)
(* returning.  process_txn_local commits and rolls back nothing.  So a     *)
(* request is a sequence of steps, one per map access, in the order of the *)
(* LocalTxn code, and the steps of requests in flight interleave.          *)
(*                                                                         *)
(* What orders requests is the kernel: the VFS holds the inode lock of the *)
(* parent directory across mknod, mkdir, create, link, unlink and rmdir,  *)
(* that of the victim across unlink and rmdir and of the source of link,   *)
(* and that of the file across setattr and write.  open, release, read     *)
(* (the files are opened FOPEN_DIRECT_IO) and setlk take no inode lock.    *)
(*                                                                         *)
(* The store is that of TifsFs (the mem build): its helpers give the       *)
(* effect of each map access, and its invariants are what a request that   *)
(* ran alone would keep.                                                   *)
(***************************************************************************)
EXTENDS Naturals, Sequences, FiniteSets

CONSTANTS
  MaxIno, Names, BlockSize, WriteOffsets, WriteLens, NewSizes, LinkLens,
  MaxFh, NoMeta, Absent, NoIno, NoDir,
  Clients,       \* requests the FUSE session has in flight at once
  Ops            \* the handlers the kernel calls in this model

VARIABLES
  store,   \* entry_map, as a TifsFs store
  pc,      \* per client: 0 when idle, else the position in its program
  req,     \* the request the client is serving
  loc,     \* the body's local variables (the values it has read)
  vfs,     \* the inodes whose VFS inode lock the request holds
  files,   \* per client: the <<ino, fh>> the process holds from open
  acked    \* history: per inode, the size and inline data that the writes
           \* and setattrs acknowledged so far give it, applied in turn

vars == <<store, pc, req, loc, vfs, files, acked>>

Fs == INSTANCE TifsFs WITH fs <- store, Backend <- "mem"

Ino == Fs!Ino
NoReq == [op |-> "none"]
NoLoc == [ino |-> NoIno, src |-> NoIno, rec |-> Absent, drec |-> Absent, put |-> <<>>]

\* The part of an inode record that write and setattr change.
DataOf(rec) == [size |-> rec.size, inline |-> rec.inline, ilen |-> rec.ilen]

-----------------------------------------------------------------------------
(* The map accesses of each body, in code order.  save_dir is three:       *)
(* read_inode and save_inode of the directory, then the insert of block 0. *)

SaveDirSteps == <<"sd_read", "sd_save", "sd_put">>

MakeInodeSteps ==
  <<"read_meta", "save_meta", "get_index", "set_index", "read_dir">>
    \o SaveDirSteps \o <<"save_inode">>

UnlinkSteps ==
  <<"get_index", "remove_index", "read_dir">> \o SaveDirSteps \o <<"read_inode", "save_inode">>

RmdirSteps ==
  <<"get_index", "read_target", "remove_index", "remove_inode", "read_dir">> \o SaveDirSteps

\* open's body, also the second transaction of create.
OpenSteps == <<"read_inode", "save_fh", "save_inode">>

\* link: get_index of the new name, set_index, read_inode of the source,
\* read_dir and save_dir of newparent, save_inode.
LinkSteps ==
  <<"get_index", "set_index", "read_inode", "read_dir">> \o SaveDirSteps \o <<"save_inode">>

\* setattr and setlk: read_inode, change the record, save_inode.
SetattrSteps == <<"read_inode", "save_inode">>

\* read_link: read_inode, then read_inline_data, which sets atime and
\* saves the record it was given.
ReadlinkSteps == <<"read_inode", "save_inode">>

\* write: read_fh, then write_data: read_inode, the block puts, save_inode.
WriteSteps == <<"read_fh", "read_inode", "put_blocks", "save_inode">>

\* read: read_fh, then read_data: read_inode, the block range read (one
\* locked access that changes nothing, so no step of its own), save_inode.
ReadSteps == <<"read_fh", "read_inode", "save_inode">>

\* fallocate: read_inode, then Txn::fallocate: the transfer of inline data
\* to block 0, save_inode.
FallocateSteps == <<"read_inode", "put_blocks", "save_inode">>

\* A body called on one of the request's two directory entries: "name"
\* (parent, name) or "newname" (newparent, newname, rename only).
Call(op, at, steps) == [k \in 1..Len(steps) |-> [op |-> op, at |-> at, step |-> steps[k]]]

\* rename: lookup of the old name; link to the new name, which first reads
\* a target it finds and unlinks or rmdirs it; unlink of the old name.
RenameProg(r) ==
  Call("lookup", "name", <<"get_index">>)
    \o Call("link", "newname", <<"get_index">>)
    \o (CASE r.over = "none" -> <<>>
          [] r.over = "file" -> Call("probe", "newname", <<"read_inode">>)
                                  \o Call("unlink", "newname", UnlinkSteps)
          [] r.over = "dir"  -> Call("probe", "newname", <<"read_inode">>)
                                  \o Call("rmdir", "newname", RmdirSteps))
    \o Call("link", "newname", Tail(LinkSteps))
    \o Call("unlink", "name", UnlinkSteps)

Prog(r) ==
  CASE r.op \in {"mknod", "unlink", "rmdir", "link", "open", "setattr", "setlk",
                 "readlink", "write", "read", "fallocate", "release"} ->
         Call(r.op, "name",
              CASE r.op = "mknod"   -> MakeInodeSteps
                [] r.op = "unlink"  -> UnlinkSteps
                [] r.op = "rmdir"   -> RmdirSteps
                [] r.op = "link"    -> LinkSteps
                [] r.op = "open"    -> OpenSteps
                [] r.op = "release" -> <<"read_fh", "remove_fh", "read_inode", "save_inode">>
                [] r.op \in {"setattr", "setlk"} -> SetattrSteps
                [] r.op = "readlink" -> ReadlinkSteps
                [] r.op = "write"   -> WriteSteps
                [] r.op = "read"    -> ReadSteps
                [] r.op = "fallocate" -> FallocateSteps)
    [] r.op = "create"  -> Call("create", "name", MakeInodeSteps) \o Call("open", "name", OpenSteps)
    [] r.op = "mkdir"   -> Call("mkdir", "name", MakeInodeSteps)
                             \o Call("newdir", "name", <<"mk_save">> \o SaveDirSteps)
    [] r.op = "symlink" -> Call("symlink", "name", MakeInodeSteps)
                             \o Call("write_link", "name", <<"save_inode">>)
    [] r.op = "rename"  -> RenameProg(r)

\* The frame of client c's current step, the body it belongs to, and the
\* directory entry that body is about.
Frame(c) == Prog(req[c])[pc[c]]
Op(c) == Frame(c).op
Dirent(c) ==
  IF Frame(c).at = "newname" THEN <<req[c].newparent, req[c].newname>>
  ELSE <<req[c].parent, req[c].name>>

At(c, l) == pc[c] # 0 /\ Frame(c).step = l

\* The directory a save_dir step is about: the entry's parent, except for
\* the second save_dir of mkdir, which is of the new directory.
SdDir(c) == IF Op(c) = "newdir" THEN loc[c].ino ELSE Dirent(c)[1]

Creates == {"mknod", "mkdir", "create", "symlink"}

\* The inode the body's read_inode and save_inode are about: the source
\* of a link, else the one the request names or make_inode or get_index
\* found.
Target(c) == IF Op(c) = "link" THEN loc[c].src ELSE loc[c].ino

Kind(op) == CASE op = "mkdir" -> "dir" [] op = "symlink" -> "symlink" [] OTHER -> "file"

\* The record make_inode saves, up to its save_inode.
MakingInode(c) == Op(c) \in Creates

\* The kind of the inode a rename replaces.
Over(c) == IF req[c].op = "rename" THEN req[c].over ELSE "none"

-----------------------------------------------------------------------------
(* Requests.                                                               *)

Fhs == 0..(MaxFh - 1)

AllRequests ==
  [op : {"mknod", "mkdir", "create", "unlink", "rmdir"}, parent : Ino, name : Names]
    \cup [op : {"symlink"}, parent : Ino, name : Names, len : LinkLens]
    \cup [op : {"link"}, ino : Ino, parent : Ino, name : Names]
    \cup [op : {"rename"}, parent : Ino, name : Names, newparent : Ino, newname : Names,
           over : {"none", "file", "dir"}]
    \cup [op : {"open", "setlk", "readlink"}, ino : Ino]
    \cup [op : {"release"}, ino : Ino, fh : Fhs]
    \cup [op : {"setattr"}, ino : Ino, size : NewSizes]
    \cup [op : {"write"}, ino : Ino, fh : Fhs, start : WriteOffsets, len : WriteLens]
    \cup [op : {"read"}, ino : Ino, fh : Fhs, start : WriteOffsets]
    \cup [op : {"fallocate"}, ino : Ino, fh : Fhs, start : WriteOffsets, len : WriteLens]

Requests == {r \in AllRequests : r.op \in Ops}

\* The inodes of creates in flight: the kernel instantiates the new dentry
\* only from the reply, so no request names them yet.
Unpublished ==
  {loc[d].ino : d \in {e \in Clients : pc[e] # 0 /\ req[e].op \in Creates}}

\* The kernel reaches an inode by a name, or by a file the process holds.
Named(i) == \E pn \in Ino \X Names : store.index[pn] = i
Holds(c, i) == \E h \in files[c] : h[1] = i

\* What the kernel checks before it calls the handler, under the locks it
\* takes: the parent is a directory, the name is free (create, link) or
\* names a file or directory (unlink, rmdir); link of a file it resolved;
\* rename of a name to another inode's name or a free one, with the kinds
\* matching and a directory kept out of its own subtree (the VFS answers
\* the rest itself); open by a name; setattr by a name or a file; readlink
\* of a symlink; setlk, release, write, read and fallocate of a file the
\* process holds.
Admissible(c, r) ==
  CASE r.op \in Creates ->
         /\ Fs!IsDir(store, r.parent) /\ r.parent \notin Unpublished
         /\ store.index[<<r.parent, r.name>>] = NoIno
    [] r.op \in {"unlink", "rmdir"} ->
         LET i == store.index[<<r.parent, r.name>>]
         IN  /\ Fs!IsDir(store, r.parent) /\ r.parent \notin Unpublished
             /\ i # NoIno /\ i \notin Unpublished /\ Fs!Live(store, i)
             /\ (store.inode[i].kind = "dir") = (r.op = "rmdir")
    [] r.op = "link" ->
         /\ Fs!LinkOk(store, r.ino, r.parent, r.name)
         /\ {r.ino, r.parent} \cap Unpublished = {} /\ Named(r.ino)
    [] r.op = "rename" ->
         LET src == store.index[<<r.parent, r.name>>]
             tgt == store.index[<<r.newparent, r.newname>>]
         IN  /\ Fs!IsDir(store, r.parent) /\ Fs!IsDir(store, r.newparent)
             /\ {r.parent, r.newparent, src, tgt} \cap Unpublished = {}
             /\ src # NoIno /\ Fs!Live(store, src)
             /\ Fs!RenameAllowed(store, src, tgt, r.newparent)
             /\ r.over = CASE tgt = NoIno -> "none"
                            [] store.inode[tgt].kind = "dir" -> "dir"
                            [] OTHER -> "file"
    [] r.op = "readlink" ->
         /\ Fs!Live(store, r.ino) /\ store.inode[r.ino].kind = "symlink"
         /\ r.ino \notin Unpublished /\ Named(r.ino)
    [] r.op = "open" ->
         /\ Fs!OpenOk(store, r.ino) /\ r.ino \notin Unpublished /\ Named(r.ino)
    [] r.op = "setattr" ->
         /\ Fs!SetattrOk(store, r.ino) /\ r.ino \notin Unpublished
         /\ Named(r.ino) \/ Holds(c, r.ino)
    [] r.op = "setlk" -> Holds(c, r.ino)
    [] r.op \in {"release", "write", "read", "fallocate"} -> <<r.ino, r.fh>> \in files[c]

\* s_vfs_rename_mutex, which a rename between two directories holds; 0 is
\* no inode number.
RenameLock == 0

\* The inode locks the VFS takes: the parent, the victim of a removal, the
\* source of a link, both parents, the source and the target of a rename,
\* the file of a truncate, a fallocate or a (direct) write.
VfsLocks(r) ==
  CASE r.op \in Creates -> {r.parent}
    [] r.op \in {"unlink", "rmdir"} -> {r.parent, store.index[<<r.parent, r.name>>]}
    [] r.op = "link" -> {r.parent, r.ino}
    [] r.op = "rename" ->
         {r.parent, r.newparent, store.index[<<r.parent, r.name>>]}
           \cup ({store.index[<<r.newparent, r.newname>>]} \ {NoIno})
           \cup (IF r.parent # r.newparent THEN {RenameLock} ELSE {})
    [] r.op \in {"setattr", "write", "fallocate"} -> {r.ino}
    [] r.op \in {"open", "release", "setlk", "read", "readlink"} -> {}

\* Bound on inode numbers: creates in flight each take one number.
InFlightCreates == Cardinality({c \in Clients : pc[c] # 0 /\ req[c].op \in Creates})

WithinBound(r) == r.op \in Creates => Fs!NextIno(store) + InFlightCreates <= MaxIno

-----------------------------------------------------------------------------
(* Actions.                                                                *)

\* init: the root directory is made before the session serves requests.
Mount ==
  /\ Fs!FsInit
  /\ UNCHANGED <<pc, req, loc, vfs, files, acked>>

\* The kernel calls a handler for an idle slot: it takes the inode locks,
\* which no request in flight holds, then looks the names up.  release gives up the kernel's file.
Begin(c, r) ==
  /\ Fs!Mounted /\ pc[c] = 0
  /\ \A d \in Clients \ {c} : VfsLocks(r) \cap vfs[d] = {}
  /\ Admissible(c, r) /\ WithinBound(r)
  /\ pc' = [pc EXCEPT ![c] = 1]
  /\ req' = [req EXCEPT ![c] = r]
  /\ vfs' = [vfs EXCEPT ![c] = VfsLocks(r)]
  /\ files' = IF r.op = "release"
              THEN [files EXCEPT ![c] = @ \ {<<r.ino, r.fh>>}]
              ELSE files
  /\ loc' = [loc EXCEPT ![c] = IF "ino" \in DOMAIN r
                               THEN [NoLoc EXCEPT !.ino = r.ino, !.src = r.ino]
                               ELSE NoLoc]
  /\ UNCHANGED <<store, acked>>

\* The record write_data saves: write_inline_data when the file is inline
\* or empty and the write ends within one block; otherwise the inline
\* buffer is gone (transferred, or never there) and size := max(size, end).
InlinePath(rec, start, len) == (rec.inline \/ rec.size = 0) /\ start + len <= BlockSize

WrittenRec(rec, start, len) ==
  IF InlinePath(rec, start, len) THEN Fs!WriteInline(rec, start, len)
  ELSE [rec EXCEPT !.inline = FALSE, !.size = Fs!Max2(rec.size, start + len)]

\* The record Txn::fallocate leaves to offset + length = target: nothing
\* when the file is that long; inline data grown by write_inline_data up
\* to the inline threshold; else the inline data transferred to block 0
\* and set_size(target).
FallocRec(rec, start, len) ==
  LET target == start + len
  IN  CASE target <= rec.size -> rec
        [] rec.inline /\ target <= Fs!InlineThreshold ->
             Fs!WriteInline(rec, rec.size, target - rec.size)
        [] OTHER -> [rec EXCEPT !.inline = FALSE, !.size = target]

\* The handler returns: the VFS locks are dropped; an open (or create) that
\* succeeded hands its fh to the process.  History: an acknowledged write
\* or setattr is applied to the file's data as if it ran alone.
Finish(c, ok) ==
  LET r == req[c]
  IN  /\ pc' = [pc EXCEPT ![c] = 0]
      /\ req' = [req EXCEPT ![c] = NoReq]
      /\ loc' = [loc EXCEPT ![c] = NoLoc]
      /\ vfs' = [vfs EXCEPT ![c] = {}]
      /\ files' = IF ok /\ r.op \in {"open", "create"}
                  THEN [files EXCEPT ![c] = @ \cup {<<loc[c].ino, loc[c].rec.nextFh>>}]
                  ELSE files
      /\ acked' = CASE ok /\ r.op = "write" ->
                          [acked EXCEPT ![r.ino] = WrittenRec(@, r.start, r.len)]
                     [] ok /\ r.op = "fallocate" ->
                          [acked EXCEPT ![r.ino] = FallocRec(@, r.start, r.len)]
                     [] ok /\ r.op = "setattr" -> [acked EXCEPT ![r.ino].size = r.size]
                     [] OTHER -> acked

\* One map access that succeeds: the map becomes st, the locals l; the
\* last access of the body returns Ok.
Step(c, st, l) ==
  /\ store' = st
  /\ IF pc[c] = Len(Prog(req[c]))
     THEN Finish(c, TRUE)
     ELSE /\ pc' = [pc EXCEPT ![c] = @ + 1]
          /\ loc' = [loc EXCEPT ![c] = l]
          /\ UNCHANGED <<req, vfs, files, acked>>

\* An early return with an error: spin_local returns it (it is not a
\* KeyError), and process_txn_local undoes nothing.
Fail(c) ==
  /\ Finish(c, FALSE)
  /\ UNCHANGED store

\* make_inode: read_meta; inode_next, or the root's number before Meta.
ReadMeta(c) ==
  /\ At(c, "read_meta")
  /\ Step(c, store, [loc[c] EXCEPT !.ino = Fs!NextIno(store)])

\* make_inode: save_meta of the value read, plus one.
SaveMeta(c) ==
  /\ At(c, "save_meta")
  /\ Step(c, [store EXCEPT !.meta = loc[c].ino + 1], loc[c])

\* get_index of the body's entry: make_inode returns FileExist on a taken
\* name; lookup, unlink and rmdir return FileNotFound on a free one, else
\* remember the inode (lookup: rename's source).  link goes on either way,
\* remembering what it found; only rename's link finds a name (the VFS
\* answers EEXIST to link), the target the kernel resolved under its lock.
GetIndex(c) ==
  LET i == store.index[Dirent(c)]
  IN  /\ At(c, "get_index")
      /\ CASE Op(c) \in Creates ->
               IF i = NoIno THEN Step(c, store, loc[c]) ELSE Fail(c)
            [] Op(c) = "link" ->
               /\ (i = NoIno) = (Over(c) = "none")
               /\ Step(c, store, IF i = NoIno THEN loc[c] ELSE [loc[c] EXCEPT !.ino = i])
            [] Op(c) = "lookup" ->
               IF i = NoIno THEN Fail(c) ELSE Step(c, store, [loc[c] EXCEPT !.src = i])
            [] OTHER ->
               IF i = NoIno THEN Fail(c) ELSE Step(c, store, [loc[c] EXCEPT !.ino = i])

SetIndex(c) ==
  /\ At(c, "set_index")
  /\ Step(c, [store EXCEPT !.index[Dirent(c)] = Target(c)], loc[c])

RemoveIndex(c) ==
  /\ At(c, "remove_index")
  /\ Step(c, [store EXCEPT !.index[Dirent(c)] = NoIno], loc[c])

\* read_dir of the parent (BlockNotFound when block 0 is missing); the
\* body then pushes its entry (make_inode, link) or filters its name out.
ReadDir(c) ==
  LET d == store.dir[Dirent(c)[1]]
      n == Dirent(c)[2]
  IN  /\ At(c, "read_dir")
      /\ IF d = NoDir THEN Fail(c)
         ELSE Step(c, store,
                [loc[c] EXCEPT !.put =
                   IF Op(c) \in Creates \cup {"link"} THEN Append(d, Fs!Entry(Target(c), n))
                   ELSE Fs!WithoutName(d, n)])

\* rmdir: read_dir of the target; DirNotEmpty (or BlockNotFound) unless it
\* is an empty directory.
ReadTarget(c) ==
  /\ At(c, "read_target")
  /\ IF store.dir[loc[c].ino] = <<>> THEN Step(c, store, loc[c]) ELSE Fail(c)

RemoveInode(c) ==
  /\ At(c, "remove_inode")
  /\ Step(c, [store EXCEPT !.inode[loc[c].ino] = Absent], loc[c])

\* save_dir: read_inode of the directory (InodeNotFound if it is gone),
\* save_inode of the record read, insert of the encoded block 0.
SaveDirRead(c) ==
  /\ At(c, "sd_read")
  /\ IF Fs!Live(store, SdDir(c))
     THEN Step(c, store, [loc[c] EXCEPT !.drec = store.inode[SdDir(c)]])
     ELSE Fail(c)

SaveDirSave(c) ==
  /\ At(c, "sd_save")
  /\ Step(c, Fs!SaveInode(store, SdDir(c), loc[c].drec), loc[c])

SaveDirPut(c) ==
  /\ At(c, "sd_put")
  /\ Step(c, Fs!SaveDir(store, SdDir(c), loc[c].put), loc[c])

\* read_inode (InodeNotFound if the key is gone).  read_data returns
\* nothing, and saves nothing, when it starts at or past the size;
\* fallocate returns when the file already reaches offset + length.
ReadInode(c) ==
  LET i == Target(c)
      q == req[c]
  IN  /\ At(c, "read_inode")
      /\ CASE ~Fs!Live(store, i) -> Fail(c)
            [] \/ Op(c) = "read" /\ q.start >= store.inode[i].size
               \/ Op(c) = "fallocate" /\ q.start + q.len <= store.inode[i].size ->
                 Finish(c, TRUE) /\ UNCHANGED store
            [] OTHER -> Step(c, store, [loc[c] EXCEPT !.rec = store.inode[i]])

\* write_data after read_inode: transfer_inline_data_to_block puts block 0
\* when inline data must grow past one block; the block path reads and
\* puts the blocks the data covers.  Only this file's block keys are
\* touched, under the inode lock the VFS holds for the write, so the puts
\* are one step here.  fallocate puts block 0 only, when it transfers
\* inline data that must grow past the inline threshold.
PutBlocks(c) ==
  LET r == loc[c].rec
      w == req[c]
      end == w.start + w.len
  IN  /\ At(c, "put_blocks")
      /\ Step(c, [store EXCEPT !.blocks[w.ino] =
                    @ \cup (IF Op(c) = "write"
                            THEN (IF r.inline /\ end > BlockSize THEN {0} ELSE {})
                                   \cup (IF InlinePath(r, w.start, w.len) THEN {}
                                         ELSE Fs!WrittenBlocks(w.start, w.len))
                            ELSE IF r.inline /\ end > Fs!InlineThreshold THEN {0} ELSE {})],
              loc[c])

\* The record the body saves: make_inode's new inode, write_link's target
\* written inline into it, or the record it read with nlink - 1 (unlink),
\* nlink + 1 (link), next_fh and opened_fh + 1 (open), opened_fh - 1
\* (close), the new size (setattr), the written data (write), the grown
\* data (fallocate), or unchanged but for times and the lock state, which
\* this model leaves to TifsLock (read, setlk, readlink).  A setlk that
\* conflicts saves nothing and is left out.
Saved(c) ==
  LET r == loc[c].rec
      q == req[c]
  IN  CASE MakingInode(c)  -> Fs!NewInode(Kind(Op(c)))
        [] Op(c) = "write_link" -> Fs!WriteLink(Fs!NewInode("symlink"), q.len)
        [] Op(c) = "unlink"  -> [r EXCEPT !.nlink = @ - 1]
        [] Op(c) = "link"    -> [r EXCEPT !.nlink = @ + 1]
        [] Op(c) = "open"    -> [r EXCEPT !.nextFh = @ + 1, !.openedFh = @ + 1]
        [] Op(c) = "release" -> [r EXCEPT !.openedFh = @ - 1]
        [] Op(c) = "setattr" -> [r EXCEPT !.size = q.size]
        [] Op(c) = "write"   -> WrittenRec(r, q.start, q.len)
        [] Op(c) = "fallocate" -> FallocRec(r, q.start, q.len)
        [] Op(c) \in {"read", "setlk", "readlink"} -> r

\* save_inode (LocalTxn: a garbage record loses its key and blocks).
SaveInode(c) ==
  /\ At(c, "save_inode")
  /\ Step(c, Fs!SaveInode(store, Target(c), Saved(c)), loc[c])

\* mkdir: save_inode of the inode make_inode returned (its perm set),
\* before save_dir of an empty directory.
MkdirSave(c) ==
  /\ At(c, "mk_save")
  /\ Step(c, Fs!SaveInode(store, loc[c].ino, Fs!NewInode("dir")),
          [loc[c] EXCEPT !.put = <<>>])

\* open: save_fh of a default handler at fh = the next_fh read.
SaveFh(c) ==
  /\ At(c, "save_fh")
  /\ Step(c, [store EXCEPT !.handles = @ \cup {<<loc[c].ino, loc[c].rec.nextFh>>}],
          loc[c])

\* close: read_fh (FhNotFound if the key is gone), then its remove.
ReadFh(c) ==
  /\ At(c, "read_fh")
  /\ IF <<req[c].ino, req[c].fh>> \in store.handles THEN Step(c, store, loc[c])
     ELSE Fail(c)

RemoveFh(c) ==
  /\ At(c, "remove_fh")
  /\ Step(c, [store EXCEPT !.handles = @ \ {<<req[c].ino, req[c].fh>>}], loc[c])

Next ==
  \/ Mount
  \/ \E c \in Clients, r \in Requests : Begin(c, r)
  \/ \E c \in Clients :
       \/ ReadMeta(c) \/ SaveMeta(c) \/ GetIndex(c) \/ SetIndex(c)
       \/ RemoveIndex(c) \/ ReadDir(c) \/ ReadTarget(c) \/ RemoveInode(c)
       \/ SaveDirRead(c) \/ SaveDirSave(c) \/ SaveDirPut(c)
       \/ ReadInode(c) \/ SaveInode(c) \/ MkdirSave(c)
       \/ SaveFh(c) \/ ReadFh(c) \/ RemoveFh(c) \/ PutBlocks(c)

Init ==
  /\ Fs!Init
  /\ pc = [c \in Clients |-> 0]
  /\ req = [c \in Clients |-> NoReq]
  /\ loc = [c \in Clients |-> NoLoc]
  /\ vfs = [c \in Clients |-> {}]
  /\ files = [c \in Clients |-> {}]
  /\ acked = [i \in Ino |-> DataOf(Fs!NewInode("file"))]

Spec == Init /\ [][Next]_vars

-----------------------------------------------------------------------------
(* Properties.                                                             *)

TypeOK ==
  /\ Fs!TypeOK
  /\ pc \in [Clients -> Nat]
  /\ req \in [Clients -> Requests \cup {NoReq}]
  /\ vfs \in [Clients -> SUBSET (Ino \cup {RenameLock})]
  /\ files \in [Clients -> SUBSET (Ino \X Nat)]
  /\ acked \in [Ino -> [size : Nat, inline : BOOLEAN, ilen : Nat]]
  /\ \A c \in Clients : pc[c] = 0 <=> req[c] = NoReq

Quiescent == \A c \in Clients : pc[c] = 0

\* The files the processes hold open, one pair per process and file.
Held(i) == UNION {{<<c, h>> : h \in {g \in files[c] : g[1] = i}} : c \in Clients}

\* Spec section 5 says the memory backend serializes all requests through
\* one mutex.  Then whenever no request is in flight the map satisfies what
\* the atomic handlers keep (TifsFs), every file a process holds has its
\* handle key and is counted in opened_fh, and every file's size and inline
\* data are what its acknowledged writes and truncates made them.  The code
\* takes entry_map's mutex per get, insert and remove only (make_inode,
\* open, close, unlink, and the read_inode ... save_inode of every handler).
SerialConsistency ==
  Quiescent =>
    /\ Fs!IndexDirCoherent
    /\ Fs!NlinkCountsNames
    /\ Fs!HandlesMatchOpenCount
    /\ Fs!NamespaceIsTree
    /\ \A i \in Ino :
         Fs!Live(store, i) => store.inode[i].openedFh = Cardinality(Held(i))
    /\ \A c \in Clients : files[c] \subseteq store.handles
    /\ \A i \in Ino :
         Fs!Live(store, i) /\ store.inode[i].kind = "file" =>
           DataOf(store.inode[i]) = acked[i]
====
