-------------------------------- MODULE TifsFs --------------------------------
(***************************************************************************)
(* The metadata-and-block transaction layer of tifs (src/fs/transaction.rs *)
(* and the handlers of src/fs/tikv_fs.rs that drive it), with every FUSE   *)
(* request executed as ONE atomic step.                                    *)
(*                                                                         *)
(* The single variable fs is the key-value store, one field per key        *)
(* family of the key schema:                                               *)
(*   meta     the Meta record (inode_next) or NoMeta;                      *)
(*   inode    inode number -> inode record, or Absent;                     *)
(*   index    <<parent, name>> -> child inode number, or NoIno;            *)
(*   dir      the directory encoded in block 0 of an inode, or NoDir;      *)
(*   blocks   inode number -> the block indices whose key is present;      *)
(*   handles  the <<ino, fh>> pairs whose file handle key is present.      *)
(*                                                                         *)
(* Byte contents are abstracted away: this module is about which keys      *)
(* exist and what the inode records say, not about the bytes in a block.   *)
(*                                                                         *)
(* The two builds of the code differ in two places, selected by Backend:   *)
(* "tikv" (Txn): a failed request is rolled back, and save_inode deletes   *)
(* only the inode key of a garbage inode; "mem" (LocalTxn): there is no    *)
(* rollback, and save_inode also deletes the blocks below the inode size.  *)
(***************************************************************************)
EXTENDS Integers, Sequences, FiniteSets, Graphs

CONSTANTS
  MaxIno,        \* inode numbers are 1..MaxIno (bounds make_inode)
  Names,         \* file names (model values)
  Backend,       \* "tikv" or "mem"
  BlockSize,     \* the configured block size in bytes
  WriteOffsets,  \* offsets a write request carries
  WriteLens,     \* lengths of the data a write request carries
  NewSizes,      \* sizes a setattr asks for
  LinkLens,      \* lengths of symlink targets
  MaxFh,         \* bound on next_fh of an inode
  NoMeta, Absent, NoIno, NoDir   \* sentinels (model values)

ASSUME Backend \in {"tikv", "mem"}
ASSUME BlockSize \in Nat \ {0}
ASSUME MaxIno \in Nat \ {0}

VARIABLE fs

vars == <<fs>>

ROOT_INODE == 1
Ino == 1..MaxIno
Kinds == {"dir", "file", "symlink"}

\* Txn::inline_data_threshold: block_size / INLINE_DATA_THRESHOLD_BASE (16)
InlineThreshold == BlockSize \div 16

\* (size + block_size - 1) / block_size, the end_block of the code
BlockCount(size) == (size + BlockSize - 1) \div BlockSize

Max2(a, b) == IF a >= b THEN a ELSE b

Live(st, i) == st.inode[i] # Absent
IsDir(st, i) == Live(st, i) /\ st.inode[i].kind = "dir"

\* Meta::new(block_size) starts inode_next at ROOT_INODE
NextIno(st) == IF st.meta = NoMeta THEN ROOT_INODE ELSE st.meta

\* The inode record make_inode composes: nlink 1, size 0, no inline data.
NewInode(kind) ==
  [kind |-> kind, nlink |-> 1, openedFh |-> 0, nextFh |-> 0,
   size |-> 0, inline |-> FALSE, ilen |-> 0]

Entry(ino, name) == [ino |-> ino, name |-> name]

-----------------------------------------------------------------------------
(* Txn helper methods, as functions from store to store.                   *)

Garbage(rec) == rec.nlink = 0 /\ rec.openedFh = 0

\* Txn::save_inode: a garbage inode loses its inode key only.
SaveInodeTikv(st, ino, rec) ==
  [st EXCEPT !.inode[ino] = IF Garbage(rec) THEN Absent ELSE rec]

\* LocalTxn::save_inode: a garbage inode also loses blocks 0..end_block.
SaveInodeMem(st, ino, rec) ==
  IF Garbage(rec)
  THEN [st EXCEPT !.inode[ino] = Absent,
                  !.blocks[ino] = @ \ (0..(BlockCount(rec.size) - 1))]
  ELSE [st EXCEPT !.inode[ino] = rec]

SaveInode(st, ino, rec) ==
  IF Backend = "tikv" THEN SaveInodeTikv(st, ino, rec)
                      ELSE SaveInodeMem(st, ino, rec)

\* save_dir: re-save the directory inode, then put block 0 (the encoding).
\* The inode's size becomes the encoded length, which no property reads.
SaveDir(st, d, entries) ==
  [st EXCEPT !.dir[d] = entries, !.blocks[d] = @ \cup {0}]

WithoutName(entries, name) == SelectSeq(entries, LAMBDA e : e.name # name)

\* make_inode: allocate meta.inode_next, bump and save meta; unless the
\* parent is 0 (the root itself), set the index and append to the parent.
MakeInode(st, parent, name, kind) ==
  LET ino == NextIno(st)
      st1 == [st EXCEPT !.meta = ino + 1]
      st2 == IF parent >= ROOT_INODE
             THEN SaveDir([st1 EXCEPT !.index[<<parent, name>>] = ino],
                          parent, Append(st1.dir[parent], Entry(ino, name)))
             ELSE st1
  IN  SaveInode(st2, ino, NewInode(kind))

\* The FileExist early return of make_inode, taken after meta was saved.
MakeInodeExists(st, parent, name) ==
  parent >= ROOT_INODE /\ st.index[<<parent, name>>] # NoIno

\* Mutant: unlink that forgets to remove the entry from the directory.
UnlinkKeepEntry(st, parent, name) ==
  LET ino == st.index[<<parent, name>>]
      st1 == [st EXCEPT !.index[<<parent, name>>] = NoIno]
  IN  SaveInode(st1, ino, [st1.inode[ino] EXCEPT !.nlink = @ - 1])

\* unlink: remove index and entry, decrement nlink, save (may reclaim).
Unlink(st, parent, name) ==
  LET ino == st.index[<<parent, name>>]
      st1 == SaveDir([st EXCEPT !.index[<<parent, name>>] = NoIno],
                     parent, WithoutName(st.dir[parent], name))
  IN  SaveInode(st1, ino, [st1.inode[ino] EXCEPT !.nlink = @ - 1])

\* rmdir (past its DirNotEmpty check): remove index, delete the inode key
\* (remove_inode; block 0 is left alone), remove the entry from the parent.
Rmdir(st, parent, name) ==
  LET ino == st.index[<<parent, name>>]
  IN  SaveDir([st EXCEPT !.index[<<parent, name>>] = NoIno,
                         !.inode[ino] = Absent],
              parent, WithoutName(st.dir[parent], name))

RmdirEmptyOk(st, parent, name) ==
  st.dir[st.index[<<parent, name>>]] = <<>>

\* Mutant: link that saves the inode without incrementing nlink.
LinkNoInc(st, ino, newparent, newname) ==
  LET st2 == [st EXCEPT !.index[<<newparent, newname>>] = ino]
  IN  SaveDir(st2, newparent, Append(st2.dir[newparent], Entry(ino, newname)))

\* link: replace an existing newname (rmdir or unlink), set the index,
\* read the inode, append the entry, then nlink + 1 and save.
Link(st, ino, newparent, newname) ==
  LET old == st.index[<<newparent, newname>>]
      st1 == IF old = NoIno THEN st
             ELSE IF st.inode[old].kind = "dir"
                  THEN Rmdir(st, newparent, newname)
                  ELSE Unlink(st, newparent, newname)
      st2 == [st1 EXCEPT !.index[<<newparent, newname>>] = ino]
      rec == st2.inode[ino]
      st3 == SaveDir(st2, newparent,
                     Append(st2.dir[newparent], Entry(ino, newname)))
  IN  SaveInode(st3, ino, [rec EXCEPT !.nlink = @ + 1])

\* write_inline_data: grow the inline buffer to cover [start, start+len),
\* size := its length, inline data present.
WriteInline(rec, start, len) ==
  LET cur == IF rec.inline THEN rec.ilen ELSE 0
      newLen == Max2(cur, start + len)
  IN  [rec EXCEPT !.inline = TRUE, !.ilen = newLen, !.size = newLen]

\* The block indices the block path of write_data puts: the first block,
\* then one per further block_size bytes of the data.
WrittenBlocks(start, len) ==
  {start \div BlockSize} \cup ((start \div BlockSize)..((start + len - 1) \div BlockSize))

\* write_data: promote inline data to block 0 when the write ends past one
\* block; write inline when (inline or empty) and it ends within one block;
\* otherwise put the covered blocks and size := max(size, end).
WriteData(st, ino, start, len) ==
  LET rec == st.inode[ino]
      target == start + len
      promote == rec.inline /\ target > BlockSize
      r1 == IF promote THEN [rec EXCEPT !.inline = FALSE] ELSE rec
      st1 == IF promote THEN [st EXCEPT !.blocks[ino] = @ \cup {0}] ELSE st
  IN  IF (r1.inline \/ r1.size = 0) /\ target <= BlockSize
      THEN SaveInode(st1, ino, WriteInline(r1, start, len))
      ELSE SaveInode([st1 EXCEPT !.blocks[ino] = @ \cup WrittenBlocks(start, len)],
                     ino, [r1 EXCEPT !.size = Max2(r1.size, target)])

\* mkdir: make_inode of a directory, then save_dir of an empty directory.
Mkdir(st, parent, name) ==
  SaveDir(MakeInode(st, parent, name, "dir"), NextIno(st), <<>>)

\* write_link on the inode make_inode returned: drop inline data, size 0,
\* write the target inline (never promoted, whatever its length).
WriteLink(rec, len) ==
  WriteInline([rec EXCEPT !.inline = FALSE, !.size = 0], 0, len)

\* symlink: make_inode of a symlink, then write_link of the target.
Symlink(st, parent, name, len) ==
  LET st1 == MakeInode(st, parent, name, "symlink")
      ino == NextIno(st)
  IN  SaveInode(st1, ino, WriteLink(st1.inode[ino], len))

\* Mutant: open that bumps next_fh but not opened_fh.
OpenNoCount(st, ino) ==
  LET rec == st.inode[ino]
  IN  SaveInode([st EXCEPT !.handles = @ \cup {<<ino, rec.nextFh>>}], ino,
                [rec EXCEPT !.nextFh = @ + 1])

\* open: fh := next_fh, save a handle with cursor 0, bump next_fh and
\* opened_fh, save the inode.
Open(st, ino) ==
  LET rec == st.inode[ino]
  IN  SaveInode([st EXCEPT !.handles = @ \cup {<<ino, rec.nextFh>>}], ino,
                [rec EXCEPT !.nextFh = @ + 1, !.openedFh = @ + 1])

\* Mutant: close that decrements opened_fh twice.
CloseTwice(st, ino, fh) ==
  LET st1 == [st EXCEPT !.handles = @ \ {<<ino, fh>>}]
  IN  SaveInode(st1, ino, [st1.inode[ino] EXCEPT !.openedFh = @ - 2])

\* close: delete the handle key, opened_fh - 1, save (may reclaim).
Close(st, ino, fh) ==
  LET st1 == [st EXCEPT !.handles = @ \ {<<ino, fh>>}]
  IN  SaveInode(st1, ino, [st1.inode[ino] EXCEPT !.openedFh = @ - 1])

-----------------------------------------------------------------------------
(* What the kernel sends: a request names inodes it has looked up, and the *)
(* VFS rejects some requests before they reach the filesystem (EEXIST on   *)
(* link, EISDIR/ENOTDIR on rename, a rename into the moved directory, a    *)
(* rename onto the same inode, which the VFS answers itself).              *)

Mounted == Live(fs, ROOT_INODE)

\* The directory graph: an edge from each subdirectory to its parent.
DirGraph(st) ==
  [node |-> {d \in Ino : IsDir(st, d)},
   edge |-> {<<st.index[pn], pn[1]>> :
               pn \in {q \in Ino \X Names : st.index[q] # NoIno /\ IsDir(st, st.index[q])}}]

\* The directories below d (d included), through index entries.
Subtree(st, d) == {d} \cup Ancestors(DirGraph(st), d)

RenameAllowed(st, src, tgt, newparent) ==
  /\ tgt # src
  /\ tgt # NoIno => (st.inode[src].kind = "dir") = (st.inode[tgt].kind = "dir")
  /\ st.inode[src].kind = "dir" => newparent \notin Subtree(st, src)

-----------------------------------------------------------------------------
(* The handlers of tikv_fs.rs: one action per request, the whole           *)
(* transaction body.  An error returned before the first write leaves the  *)
(* store as it was on both backends and is not listed (a stuttering step). *)

\* init: when the root inode is missing, mkdir(0, "", 0777) creates it.
FsInit ==
  /\ ~Mounted
  /\ fs' = Mkdir(fs, 0, "")

\* The conditions under which a request reaches its writes: the VFS's
\* screening and the code's early returns, over a store st.
CreateOk(st, parent, name) ==
  /\ IsDir(st, parent) /\ NextIno(st) <= MaxIno
  /\ ~MakeInodeExists(st, parent, name)

LinkOk(st, ino, newparent, newname) ==
  /\ Live(st, ino) /\ st.inode[ino].kind # "dir" /\ IsDir(st, newparent)
  /\ st.index[<<newparent, newname>>] = NoIno

UnlinkOk(st, parent, name) ==
  /\ IsDir(st, parent) /\ st.index[<<parent, name>>] # NoIno
  /\ st.inode[st.index[<<parent, name>>]].kind # "dir"

RmdirOk(st, parent, name) ==
  /\ IsDir(st, parent) /\ st.index[<<parent, name>>] # NoIno
  /\ st.inode[st.index[<<parent, name>>]].kind = "dir"
  /\ RmdirEmptyOk(st, parent, name)

RenameOk(st, parent, name, newparent, newname) ==
  LET src == st.index[<<parent, name>>]
      tgt == st.index[<<newparent, newname>>]
  IN  /\ IsDir(st, parent) /\ IsDir(st, newparent) /\ src # NoIno
      /\ RenameAllowed(st, src, tgt, newparent)
      /\ tgt # NoIno /\ st.inode[tgt].kind = "dir" => st.dir[tgt] = <<>>

OpenOk(st, ino) ==
  /\ Live(st, ino) /\ st.inode[ino].kind = "file"
  /\ st.inode[ino].nextFh < MaxFh

HandleOpen(st, ino, fh) == <<ino, fh>> \in st.handles

SetattrOk(st, ino) == Live(st, ino) /\ st.inode[ino].kind = "file"

\* setattr with a size: set_size only; no stored block is touched.
SetSize(st, ino, size) == SaveInode(st, ino, [st.inode[ino] EXCEPT !.size = size])

\* mknod, and the first transaction of create.
Mknod(parent, name) ==
  /\ CreateOk(fs, parent, name)
  /\ fs' = MakeInode(fs, parent, name, "file")

MkdirOp(parent, name) ==
  /\ CreateOk(fs, parent, name)
  /\ fs' = Mkdir(fs, parent, name)

SymlinkOp(parent, name, len) ==
  /\ CreateOk(fs, parent, name)
  /\ fs' = Symlink(fs, parent, name, len)

\* mknod / mkdir / symlink onto a taken name: make_inode returns FileExist
\* after saving meta.  Txn rolls it back; LocalTxn keeps the bumped meta.
CreateNameTaken(parent, name) ==
  /\ IsDir(fs, parent) /\ NextIno(fs) <= MaxIno
  /\ MakeInodeExists(fs, parent, name)
  /\ Backend = "mem"
  /\ fs' = [fs EXCEPT !.meta = NextIno(fs) + 1]

LinkOp(ino, newparent, newname) ==
  /\ LinkOk(fs, ino, newparent, newname)
  /\ fs' = Link(fs, ino, newparent, newname)

UnlinkOp(parent, name) ==
  /\ UnlinkOk(fs, parent, name)
  /\ fs' = Unlink(fs, parent, name)

RmdirOp(parent, name) ==
  /\ RmdirOk(fs, parent, name)
  /\ fs' = Rmdir(fs, parent, name)

\* Mutant: rename that links the new name and never unlinks the old one.
RenameKeepOld(st, parent, name, newparent, newname) ==
  Link(st, st.index[<<parent, name>>], newparent, newname)

\* rename: lookup, link to the new name (replacing what is there), unlink
\* the old name, in one transaction.  Onto a non-empty directory the inner
\* rmdir fails before writing anything.
Rename(st, parent, name, newparent, newname) ==
  Unlink(Link(st, st.index[<<parent, name>>], newparent, newname), parent, name)

RenameOp(parent, name, newparent, newname) ==
  /\ RenameOk(fs, parent, name, newparent, newname)
  /\ fs' = Rename(fs, parent, name, newparent, newname)

OpenOp(ino) ==
  /\ OpenOk(fs, ino)
  /\ fs' = Open(fs, ino)

Release(ino, fh) ==
  /\ HandleOpen(fs, ino, fh)
  /\ fs' = Close(fs, ino, fh)

\* write: start := cursor + offset, then write_data.  The cursor is always
\* 0 (see TifsData), so start ranges over the absolute offsets WriteOffsets.
WriteOp(ino, fh, start, len) ==
  /\ HandleOpen(fs, ino, fh)
  /\ fs' = WriteData(fs, ino, start, len)

Setattr(ino, size) ==
  /\ SetattrOk(fs, ino)
  /\ fs' = SetSize(fs, ino, size)

\* getattr (and lookup, readdir, readlink, getlk, statfs, access, and read,
\* whose save_inode only refreshes atime): no modelled key changes.
ReadOnly(ino) ==
  /\ Live(fs, ino)
  /\ UNCHANGED fs

Next ==
  \/ FsInit
  \/ \E p \in Ino, n \in Names : Mknod(p, n)
  \/ \E p \in Ino, n \in Names : MkdirOp(p, n)
  \/ \E p \in Ino, n \in Names, len \in LinkLens : SymlinkOp(p, n, len)
  \/ \E p \in Ino, n \in Names : CreateNameTaken(p, n)
  \/ \E i, p \in Ino, n \in Names : LinkOp(i, p, n)
  \/ \E p \in Ino, n \in Names : UnlinkOp(p, n)
  \/ \E p \in Ino, n \in Names : RmdirOp(p, n)
  \/ \E p, q \in Ino, n, m \in Names : RenameOp(p, n, q, m)
  \/ \E i \in Ino : OpenOp(i)
  \/ \E i \in Ino, f \in 0..(MaxFh - 1) : Release(i, f)
  \/ \E i \in Ino, f \in 0..(MaxFh - 1), off \in WriteOffsets, len \in WriteLens :
        WriteOp(i, f, off, len)
  \/ \E i \in Ino, s \in NewSizes : Setattr(i, s)
  \/ \E i \in Ino : ReadOnly(i)

Init ==
  fs = [meta    |-> NoMeta,
        inode   |-> [i \in Ino |-> Absent],
        index   |-> [pn \in Ino \X Names |-> NoIno],
        dir     |-> [i \in Ino |-> NoDir],
        blocks  |-> [i \in Ino |-> {}],
        handles |-> {}]

Spec == Init /\ [][Next]_vars

-----------------------------------------------------------------------------
(* Properties.                                                             *)

InodeRec ==
  [kind : Kinds, nlink : Nat, openedFh : Nat, nextFh : Nat,
   size : Nat, inline : BOOLEAN, ilen : Nat]

TypeOK ==
  /\ fs.meta \in {NoMeta} \cup Nat
  /\ fs.inode \in [Ino -> InodeRec \cup {Absent}]
  /\ fs.index \in [Ino \X Names -> Ino \cup {NoIno}]
  /\ \A i \in Ino : fs.dir[i] = NoDir \/ fs.dir[i] \in Seq([ino : Ino, name : Names])
  /\ fs.blocks \in [Ino -> SUBSET Nat]
  /\ fs.handles \subseteq Ino \X Nat

NamesIn(st, p) == {n \in Names : st.index[<<p, n>>] # NoIno}

\* Spec invariant 1, kept by make_inode, link, unlink and rmdir writing the
\* index key and the directory block of the parent together: in every live
\* directory each name occurs once, and (ino, name) is an entry exactly when
\* the index maps (parent, name) to ino.
IndexDirCoherent ==
  \A p \in Ino :
    /\ NamesIn(fs, p) # {} => IsDir(fs, p)
    /\ IsDir(fs, p) =>
         LET d == fs.dir[p]
         IN  /\ IsInjective([k \in DOMAIN d |-> d[k].name])
             /\ Range(d) = {Entry(fs.index[<<p, n>>], n) : n \in NamesIn(fs, p)}

\* nlink, counted up by link and down by unlink (through rename too), is the
\* number of names that reach a live inode; the root has no name.
NlinkCountsNames ==
  \A i \in Ino \ {ROOT_INODE} :
    Live(fs, i) =>
      fs.inode[i].nlink = Cardinality({pn \in Ino \X Names : fs.index[pn] = i})

\* Spec invariant 6: every handle key belongs to a live inode whose
\* opened_fh counts its handles, and its id was handed out by next_fh.
HandlesMatchOpenCount ==
  /\ \A h \in fs.handles : Live(fs, h[1]) /\ h[2] < fs.inode[h[1]].nextFh
  /\ \A i \in Ino :
       Live(fs, i) =>
         fs.inode[i].openedFh = Cardinality({h \in fs.handles : h[1] = i})

\* The directories form a tree under the root through the index (rename of
\* a directory is link + unlink and must leave it exactly one name), and no
\* live inode is unreachable: a file without a name survives only while a
\* handle holds it open (save_inode reclaims it at the last release).
NamespaceIsTree ==
  Mounted =>
    /\ LET G == DirGraph(fs)
       IN  /\ IsDirectedGraph(G)
           /\ \A e \in G.edge : e[1] # ROOT_INODE /\ \A f \in G.edge : e[1] = f[1] => e = f
           /\ \A d \in G.node \ {ROOT_INODE} : ROOT_INODE \in Descendants(G, d)
    /\ \A i \in Ino :
         Live(fs, i) /\ ~IsDir(fs, i) =>
           \/ \E pn \in Ino \X Names : fs.index[pn] = i /\ IsDir(fs, pn[1])
           \/ fs.inode[i].openedFh > 0

\* Spec invariant 4 for regular files: once an inode is gone no block key
\* of it is left.  Txn::save_inode deletes only the inode key, and
\* LocalTxn::save_inode deletes only the blocks below the current size.
NoOrphanFileBlocks ==
  \A i \in Ino : ~Live(fs, i) /\ fs.dir[i] = NoDir => fs.blocks[i] = {}

\* Spec invariant 4 for directories: rmdir deletes the inode key, and the
\* block 0 that holds the directory must go with it.
NoOrphanDirBlock ==
  \A i \in Ino : ~Live(fs, i) => fs.dir[i] = NoDir

\* The debug_assert of read_inline_data: an inode with inline data has
\* size equal to the inline length.
InlineSizeMatches ==
  \A i \in Ino : Live(fs, i) /\ fs.inode[i].inline => fs.inode[i].size = fs.inode[i].ilen

\* Spec invariant 3: inline data is kept only while size <= block_size/16
\* (symlink targets are the sanctioned exception).
InlineWithinThreshold ==
  \A i \in Ino :
    Live(fs, i) /\ fs.inode[i].inline /\ fs.inode[i].kind # "symlink" =>
      fs.inode[i].size <= InlineThreshold

==============================================================================
