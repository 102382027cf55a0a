# TLA+ models of tifs

tifs is a FUSE filesystem stored in a key-value store. This directory holds
TLA+ models of its metadata-and-block transaction layer and the TLC
configurations that check them. All source paths below are relative to the
repository root, and the Rust code is under `src/src/`.

## 1. The system

### Parts and how they interact

| Id | Part | Code | State it owns |
|----|------|------|---------------|
| C1 | FUSE request handlers | `fs/tikv_fs.rs` `impl AsyncFileSystem for TiFs` | none: each handler runs one transaction closure |
| C2 | Retry loop | `tikv_fs.rs` `process_txn`, `spin`, `*_local`, `spin_no_delay_local` | none: it commits or rolls back, and retries on `KeyError` |
| C3 | Txn (TiKV build, feature `kv_store`) | `fs/transaction.rs` `impl Txn` | a TiKV optimistic transaction (snapshot isolation) |
| C4 | LocalTxn (in-memory build, feature `mem_store`) | `transaction.rs` `impl LocalTxn` | a shared `BTreeMap` behind a mutex that is held for one map operation at a time; no commit, no rollback |
| C5 | Inode engine | `make_inode`, `save_inode`, `remove_inode`, `read_inode`, meta | Meta key (`inode_next`), Inode keys |
| C6 | Directory engine | `set_index`, `remove_index`, `read_dir`, `save_dir`, `link`, `unlink`, `rmdir`, `mkdir`, rename | Index keys `(parent,name)`, block 0 of each directory |
| C7 | Block store and inline data | `write_data`, `write_inline_data`, `transfer_inline_data_to_block`, `read_data`, `read_inline_data`, `fallocate`, `write_link` | Block keys `(ino,i)`, `inline_data` and `size` of the inode |
| C8 | File handle table | `open`, `close`, `read_fh`, `save_fh`, lseek | FileHandle keys `(ino,fh)` with a cursor; `next_fh`/`opened_fh` of the inode |
| C9 | Advisory lock state machine | `tikv_fs.rs` `setlk`, `setlkw`, `getlk` | `lock_state {lk_type, owner_set}` inside the inode |
| C10 | Mount binary and CLI | `bin/mount.rs`, `main.rs`, `TiFs::construct` | configuration only |

A FUSE request reaches a C1 handler. The handler passes a closure to C2. C2
opens a C3 or C4 transaction (the choice is made at compile time), runs the
closure, which calls C5 to C8 helpers, and then commits it, or rolls it back
on error. On `KeyError` (a TiKV write conflict) C2 runs the closure again from
the start. Requests run concurrently: the FUSE session is asynchronous.

- Under TiKV (C3), each request is a snapshot-isolated transaction.
- Under LocalTxn (C4), a request is a sequence of separately locked map
  operations, and other requests' operations interleave with it.

### What is hard in this code

- **Reclamation.** The inode and its blocks are deleted at the `save_inode`
  where `nlink = 0` and `opened_fh = 0`. The two backends reclaim different
  keys: Txn deletes the inode key only, and LocalTxn deletes the blocks below
  `size`. `rmdir` bypasses `save_inode` altogether.
- **Index and directory coherence.** Each name lives in two keys, the index
  key and the directory block. `link`, `unlink`, `rmdir` and `make_inode`
  each rewrite both.
- **Multi-step requests.** `rename` is link + unlink, and the link may first
  remove the target. `symlink` is make_inode + write_link. `create` is mknod
  followed by open in a second transaction.
- **Inline data.** Data is kept inline, promoted to block 0, and its size is
  changed by `setattr` without touching the data.
- **Lock requests.** Blocking lock requests busy-loop in `setlkw`.
- **Concurrency.** TiKV is snapshot isolation, not serializability. LocalTxn
  has no isolation at all.

## 2. Modules

### TifsFs.tla: requests as atomic transactions (C3 to C8)

`fs` is the whole store as one record:

- `meta`: `inode_next`, or `NoMeta` before the first mount;
- `inode`: number → record, or `Absent`;
- `index`: `(parent,name)` → ino, or `NoIno`;
- `dir`: the entries encoded in block 0 of a directory, or `NoDir`;
- `blocks`: ino → the set of present block indices;
- `handles`: the present `(ino,fh)` keys.

The inode record keeps `kind`, `nlink`, `openedFh`, `nextFh`, `size`,
`inline` and `ilen`, the length of the inline data. Byte contents, times,
permissions and the lock state are abstracted away.

Each helper method of `Txn` is an operator from a store to a store. The
operators compose the way the code calls them, in the same order:
`MakeInode`, `SaveInode`, `SaveDir`, `Link`, `Unlink`, `Rmdir`, `WriteData`,
`WriteInline`, `WriteLink`, `Mkdir`, `Open` and `Close`. For example, `Link`
does the following in order:

1. removes the existing target,
2. sets the index,
3. reads the inode,
4. appends the entry with `SaveDir`,
5. increments `nlink` and calls `SaveInode`.

`SaveInode` dispatches on the constant `Backend` to `SaveInodeTikv`
(`transaction.rs:225-235`) or `SaveInodeMem` (`:862-885`).

There is one action per handler: `FsInit` (init), `Mknod`, `MkdirOp`,
`SymlinkOp`, `LinkOp`, `UnlinkOp`, `RmdirOp`, `RenameOp`, `OpenOp`,
`Release`, `WriteOp` and `Setattr`. `ReadOnly` stands for getattr, lookup,
readdir, readlink, read, access, statfs and getlk, which change no modelled
key. (readlink's and read's `save_inode` of the record they read only
matters when requests interleave; TifsLocalTxn models it.)

**Errors.** A request that fails before its first write changes nothing and
is a stuttering step. On TiKV a request that fails after writing is rolled
back, which is also a stutter. Under LocalTxn such a request keeps its
writes. The one reachable case is `make_inode` returning `FileExist` after it
has saved meta, which is the action `CreateNameTaken` (mem only).

**Kernel guards.** The kernel's VFS screens requests before tifs sees them,
and the model states these screens as guards:

- no hard link to a directory;
- EEXIST on link;
- rename: EISDIR/ENOTDIR, no rename into the moved directory's own subtree,
  no rename onto the same inode, and ENOTEMPTY for a target directory;
- a write or release names a handle that is open.

**Bounds.** `MaxIno` caps `make_inode` (guard `NextIno(fs) <= MaxIno`) and
`MaxFh` caps `next_fh`.

### MCTifsFs.tla, MCTifsFsBuilds.tla and their configs

- Inode numbers 1..4: the root plus three. That is enough for a directory
  with a file inside, a hard link, and a rename over an existing target.
- Two names as model values, with name symmetry. No property names a
  particular name.
- `BlockSize = 16`, so the spec's inline threshold `block_size/16` is 1 byte.
- Write offsets 0 and `BlockSize` and lengths 1 and `BlockSize`. These reach
  every branch of `write_data`:
  - an inline write;
  - promotion (an inline file written past one block);
  - the block path over one and over two blocks.
- One file handle per inode.

The namespace runs use smaller data inputs (`Ns*`). `MCTifsFsBuilds`
instantiates TifsFs once per build, `Tikv` and `Mem`, with these inputs. Its
variable `build` is fixed in `Init`, and each step is a step of that build's
`Next`. The run takes about 80 seconds.

### TifsLock.tla: the advisory lock of one inode (C9)

The lock state of the inode is `lock = [type, owners]` (`lk_type`,
`owner_set`). Each lock owner `o` has:

- `pc[o]`: `idle`, `setlk` (a request sent), `setlkw` (inside the blocking
  loop), or `exited` (the owner closed its file);
- `req[o]`: the request's type and `sleep` flag;
- `snap[o]`: the lock state read by the owner's current step (LocalTxn only);
- `held[o]`: the lock the owner believes it holds after its last `Ok`;
- `ret[o]`: the result of its last request (`ok`, `InvalidLock`).

Operators translate the code. `SetlkRd`, `SetlkWr` and `Unlock` are the three
arms of `setlk` (`tikv_fs.rs:765-820`), and `Conflict` is its `sleep` test
(`Ok(false)` or `InvalidLock`). `Setlkw` is one iteration of the `setlkw` loop
body (`:209-246`), whose results are `again`, a new lock state, or an error.

Actions:

- `Request`: the kernel sends F_SETLK or F_SETLKW.
- Under TiKV each transaction is one step: `SetlkTxn` and `SetlkwTxn`.
- Under LocalTxn the `read_inode` and the `save_inode` of the same transaction
  are two steps (`SetlkRead`/`SetlkSave`, `SetlkwRead`/`SetlkwSave`), because
  the map's mutex is released between them and nothing else isolates them.
- `Next` takes `TikvSteps` or `MemSteps` by `Backend`. These are the two
  `spin_no_delay_local` functions that the `kv_store` and `mem_store` features
  select at build time, so a run holds the steps of one build only. The
  memory-build steps fire in `lock_builds` (its build-choosing `Next` is one
  action for TLC) and in the unlisted `MCTifsLock_mem_race.cfg`.
- `SetlkDone` and `SetlkwDone` return to the caller, or enter or repeat the
  `setlkw` loop.
- `Release`: the owner closes its file. `release` ignores `_lock_owner` and
  `_flags`, so the lock is left as it is.

The constant `Env` says what the applications do:

- `convert`: an owner may ask for a lock while it holds one;
- `exit_holding`: an owner may close its file while it holds a lock.

Without either, each owner unlocks before it locks again or exits, which is
what the kernel's lock-owner bookkeeping gives a careful program.

**Fairness** (`LiveSpec`):

- `WF` on `SetlkTxn`: a sent request is served.
- `SF` on `SetlkwTxn`: the loop polls without delay. It must not starve an
  owner whose step is enabled only while the lock is momentarily free.
- `WF` on a holder's unlock request: the application eventually unlocks. This
  is an assumption about the environment, not about tifs.

Bounds in `MCTifsLock`: three owners on TiKV, with owner symmetry. Under mem
the split steps give 17.8M states for three owners. `MCTifsLockBuilds` checks
both builds in one state space, like `MCTifsFsBuilds`: `build` is fixed in
`Init`, TiKV has three owners and mem two (`MemOwners`, substituted for
`Owners` in the `Mem` instance). The race needs only two owners, and the mem
violation config uses three.

### TifsData.tla: the bytes of one file (C7, and the cursor of C8)

`file = [size, inline, idata, blocks]` is the inode's size and `inline_data`
with the block keys `0..MaxBlocks-1`. A block is a sequence of `BlockSize`
bytes, and `<<>>` stands for a missing key. The ghost variables `content` and
`csize` are the file a POSIX reader expects after the same requests. No code
reads them.

The operators follow the code:

- `TransferInline`, `WriteInline`, `Chunk`, `WrittenBlock`, `WriteBlocks` and
  `WriteData` are `transfer_inline_data_to_block`, `write_inline_data` and
  `write_data`. The first block and a short last chunk are spliced into the
  stored block (or into `empty_block`), and a full middle chunk is put as is.
- `Fallocate` is `Txn::fallocate`.
- `ReadInline`, `ReadBlocks` and `ReadData` are `read_inline_data` and
  `read_data`. This includes the hole filling that puts empty blocks for the
  indices `start_block + i .. key` before the `i`-th scanned block.
- `TxnRead` and `TxnWrite` start at `Cursor + offset`. `Cursor` is 0: the
  kernel serves `SEEK_SET`, `SEEK_CUR` and `SEEK_END` itself and sends FUSE
  `lseek` only for `SEEK_DATA` and `SEEK_HOLE`, which `lseek` rejects with
  `UnknownWhence` (`tikv_fs.rs:544`) before it saves the handle.

The actions are `WriteOp` (one write of `len` copies of a byte value) and
`FallocateOp`, whose `mode` only the reference uses: the handler drops
`_mode`. Each request is one transaction, so it is one step. Reads change no
modelled state (only atime), so `ReadMatchesReference` quantifies over all
read requests in a state instead of taking a step.

`MCTifsData`:

- `BlockSize = 2`, so the inline threshold `block_size/16` is 0. fallocate's
  zero-extend-inline branch needs an inline file below a threshold of at least
  2, so `block_size >= 32`. That branch is modelled but unreachable in these
  instances.
- 4 block keys, write lengths 1 to 3 and byte values {1, 2}. These reach:
  - inline writes and promotion;
  - writes spanning a full middle block;
  - unaligned first and last chunks;
  - holes before and between blocks.

### TifsTruncate.tla: setattr's size change

`TifsTruncate` extends `TifsData` with `SetattrOp`. TiFs::setattr calls
`set_size` and saves the inode. The reference drops the bytes past the new
size, as a POSIX truncate does. `TifsTruncate` has only a violation run,
because every size decrease followed by an extension shows the stale bytes.

### TifsKvTxn.tla: concurrent requests under TiKV snapshot isolation (C2, C3)

Every handler runs its body inside `TiFs::spin`:

- `with_optimistic` begins an optimistic TiKV transaction;
- the body reads the snapshot of the start timestamp and buffers its writes;
- `process_txn` commits;
- a `KeyError` makes `spin` run the body again, with no delay and no bound.

TiKV checks only write-write conflicts. A commit fails when another
transaction committed one of its keys after its start. Reads are never
validated, although §5 of the spec says they are.

State, per client (a request slot of the FUSE session):

- `pc`: idle, active (body done, commit pending) or retry;
- `req`: the request;
- `res`: the transaction buffer, as a TifsFs store;
- `ws`: the keys the body wrote;
- `missed`: the keys others committed since its start.

The committed key space is `store`.

Actions:

- `Begin` runs the body on the current store; `Execute` is shared with `Retry`.
- `Commit` applies the buffer on the write set only (`Apply`) and adds that
  write set to every other active client's `missed`.
- `Conflict` is a commit that fails on a key in `missed`. The transaction is
  dropped (`Discard`).
- `Retry` is spin's next round. A body whose early return now fires rolls
  back and returns its error.

The bodies and their guards are TifsFs's own operators, evaluated on the
snapshot. TifsFs's actions are written as these guards (`CreateOk`, `LinkOk`,
`RmdirOk` and the others) plus a store operation.

The write sets are written per Txn method from its `put` and `delete` calls
(`WSaveDir`, `WMakeInode`, `WUnlink`, `WLink`, `WWriteData`). They are not
derived from the buffer. Some of these writes change no modelled field, for
example save_dir re-saving the directory inode, and they still matter for
conflicts.

`Fs == INSTANCE TifsFs WITH fs <- store` gives the refinement mapping, and
`CommitSerializable` checks that each commit is the request's own TifsFs
handler applied to the committed store. That implies `Fs!Spec` (every
commit is a TifsFs step), which is therefore not checked separately.

The kernel's `s_vfs_rename_mutex` admits one cross-directory rename at a
time (`RenameMutex`). No other VFS locking is modelled: the parent
directories' `i_rwsem` is left out. So clients interleave more freely than
one mount allows.

`RenameMutex = FALSE` finds nothing more with three inodes. A rename cycle
without a shared written key needs two renames whose directories and parents
are all distinct, which takes seven inodes.

**Fairness.** `WF` on each client's `Commit`, `Conflict` and `Retry`: a
request in flight is a task that keeps running. Arrivals (`Begin`) are not
fair. One request can therefore lose every round to new arrivals, so only
the session's progress is claimed.

**Bounds** (`MCTifsKvTxn`):

- two clients and three inodes (a directory and a file under the root);
- two names, one handle per inode;
- writes of one byte at offset 16, so the body takes the block path;
- `getattr` on the root, so an idle session can always move.

`Ops` selects the handlers for each run:

- `OpsNamespace`: mknod, mkdir, unlink, rmdir, link and rename, with name and
  client symmetry.
- `OpsLive`: creates, removals, open, release and write, without symmetry,
  for the liveness property.
- `OpsFiles`, in `MCTifsKvTxn_files.cfg`: an extra passing check of file and
  handle requests with setattr and read (490,080 states).

symlink writes the same keys as mknod and is left out of the mixes.

### TifsLocalTxn.tla: concurrent requests under LocalTxn (C4, C10)

The memory build's `LocalTxn` takes the `entry_map` mutex once per `get`,
`put` or `delete` and releases it before the next one. `process_txn_local`
neither commits nor rolls back (`tikv_fs.rs:129-146`). A request is therefore
a sequence of separately atomic map accesses, and the requests of other
clients run between them.

- `store` is a TifsFs store (`Fs == INSTANCE TifsFs`), so the properties
  are those of the atomic model.
- `pc[c]` indexes the program `Prog(req[c])` of client `c`'s request. A
  program is a sequence of frames `[op, at, step]`: the `LocalTxn` method
  (`op`) a map access belongs to, the directory entry it works on (`at`:
  `<<parent, name>>`, or rename's `<<newparent, newname>>`), and the
  access. `Call(op, at, steps)` makes the frames of one method call, and a
  handler's program concatenates its calls in code order:
  - `MakeInodeSteps`: read meta, save meta, get the index, set the index,
    read the parent directory, then `save_dir`'s three accesses and
    `save_inode`.
  - mkdir appends its own `save_dir` of the new empty directory; create
    (`tikv_fs.rs:514`) appends `OpenSteps`, its second transaction.
  - `LinkSteps`, `SetattrSteps` (setattr and setlk), `WriteSteps` and
    `ReadSteps` list the accesses of those handlers. A write's block puts
    touch only its own file's block keys, under the inode lock it holds,
    and are one step (`PutBlocks`). A read's block range read is one locked
    access that changes nothing, and has no step.
  - unlink, rmdir, open and release follow `transaction.rs` line by line.
  - rename (`RenameProg`, `tikv_fs.rs:588`): `lookup` of the old name,
    `link`'s `get_index` of the new one, and when it finds a target, the
    `read_inode` of it and a whole `unlink` or `rmdir` of it; then the rest
    of `link` and an `unlink` of the old name. The request's `over`
    field is the target's kind as the kernel saw it under the target's lock.
  - symlink: make_inode, then `write_link`'s `save_inode` of the new inode
    with the target inline. readlink (`ReadlinkSteps`): `read_inode`, then
    `read_inline_data`'s `save_inode` of the record read.
  - fallocate (`FallocateSteps`): `read_inode`; `Txn::fallocate` returns when
    the file reaches offset + length, else writes inline up to the inline
    threshold, or transfers the inline data to block 0 (`PutBlocks`), sets
    the size and saves (`FallocRec`).
- `loc[c]` holds what a step read and a later step uses: the inode number,
  the record read, the directory record `save_dir` read, and the directory
  to put.
- One action per kind of access (`ReadMeta`, `SaveMeta`, `GetIndex`,
  `SetIndex`, `RemoveIndex`, `ReadDir`, `SaveDirRead`, `SaveDirSave`,
  `SaveDirPut`, `ReadInode`, `SaveInode`, `SaveFh`, `ReadFh`, `RemoveFh`,
  `RemoveInode`, `ReadTarget`, `MkdirSave`). Each guards on the step its
  client is at. A step that meets the code's error return (`FileExist`,
  `FileNotFound`, `DirNotEmpty`) is `Fail`: the writes already made stay,
  as `process_txn_local` does not roll back.
- The kernel's part (not the code's): the VFS holds the parent directory's
  inode lock across mknod, mkdir, create, symlink, link, unlink and rmdir,
  the victim's lock across unlink and rmdir, the source's across link, and
  the file's across setattr, fallocate and write (`VfsLocks`). rename holds
  both parents, the source and the target, and `s_vfs_rename_mutex`
  (`RenameLock`) when the parents differ. It publishes the dentry of a
  new inode only after the reply (`Unpublished`). open, release, setlk,
  readlink and read take no inode lock. A read takes none because every open replies
  `FOPEN_DIRECT_IO`: `flags | O_DIRECT != 0` is always true
  (`tikv_fs.rs:421`). `Begin` admits a request only when its locks are free and its
  arguments are ones the kernel would send.
- `files[c]` are the handles client `c` holds, so release, write, read and
  setlk are only sent for a handle that open returned.
- `acked` is a history variable. When a write, fallocate or setattr returns, its effect
  on size and inline data is applied to `acked`, as if the request had run
  alone.
- setlk's lock state is TifsLock's. Here setlk saves the record it read
  unchanged, and a conflicting setlk, which saves nothing, is left out.

`SerialConsistency`: in every quiescent state (no request in flight) the
store satisfies TifsFs's `IndexDirCoherent`, `NlinkCountsNames`,
`HandlesMatchOpenCount` and `NamespaceIsTree`, and every live inode's
`opened_fh` equals the handles the clients hold on it, and every file's size
and inline data equal `acked`. Spec section 5 says the
memory backend serializes requests through one mutex, and this is what that
would give.

**Bounds** (`MCTifsLocalTxn`): two clients, two names, four inode numbers
(`WithinBound` keeps `meta` plus the creates in flight within them), one
handle id per inode (two where a second process must hold the file), writes
of one byte at offset 0 (inline) and, where said, 16 (past the first block),
name symmetry. Configs:

- `MCTifsLocalTxn.cfg` (run `mem_race`): mknod, mkdir, unlink, rmdir, open
  and release. TLC finds two
  opens of one file that both read `next_fh = 0`, both return handle 0, and
  leave `opened_fh = 1` (`transaction.rs:693-711`).
- `MCTifsLocalTxn_serial.cfg`: one client, every modelled handler, three
  inodes, writes and fallocates at offsets 0 and 16 (the inline threshold
  is 1, so both fallocate branches occur), symlinks, and renames onto a
  free name, a file and a directory. `TypeOK` and `SerialConsistency`
  hold (917,223 states, about 75 s), which shows that the step decomposition of each
  handler has the handler's atomic effect.
- `MCTifsLocalTxn_alloc.cfg`: creates and removals only. `mknod(/,b)` and
  `mknod(D,a)` run under different parent locks, both read meta before
  either saves it, and both get the same inode number (`transaction.rs:771`).
- `MCTifsLocalTxn_unlink_open.cfg`: mknod, unlink, open and release, with at
  most one open in flight (`OneOpen`). open reads the inode, unlink removes
  the last name and reclaims it, and open's `save_inode` writes it back with
  `nlink = 1` and no name (`transaction.rs:1217`).
- `MCTifsLocalTxn_data.cfg`: create, open, write, read and release, two
  handles per inode, with open, create and release running alone
  (`HandleOpsAlone`). A write at offset 16 promotes the inline byte to
  block 0, puts block 1 and saves size 17. A read that read the inode
  before saves it back with size 1 and inline data. The write is lost, and
  blocks 0 and 1 are left past the size (`transaction.rs:1059`).
- `MCTifsLocalTxn_setlk.cfg`: the same with setlk in place of read. setlk
  saves the inode it read, and the write is lost (`tikv_fs.rs:759`).
- `MCTifsLocalTxn_readlink.cfg`: symlink, link and readlink. readlink takes
  no inode lock; its `read_inline_data` saves the symlink it read before a
  concurrent link saved `nlink = 2`, and the symlink is left with two names
  and `nlink = 1` (`transaction.rs:986`).
- `MCTifsLocalTxn_rename_open.cfg`: mknod, mkdir, rename and open, one open
  in flight. rename links the new name (`nlink = 2`) before it unlinks the
  old one; an open that reads the inode in between saves `nlink = 2` back
  over rename's `nlink = 1` (`tikv_fs.rs:602-604`, `transaction.rs:698`).

Lost directory updates, which the spec's per-access locking would suggest,
do not occur: two updates of one directory hold its VFS inode lock.

## 3. Runs

| Run | Config | Expect | What it shows |
|-----|--------|--------|---------------|
| ns_builds | MCTifsFsBuilds.cfg | pass | Under both builds, with atomic requests, five properties hold in every reachable state (495,382 distinct states). `build` is chosen in the initial state, so TiKV with rollback and LocalTxn with its meta-burning `FileExist` path are checked in one state space. See below. |
| orphan_blocks_tikv | MCTifsFs_orphan_tikv.cfg | violation | `NoOrphanFileBlocks`. Trace: mknod, open, unlink, write, release. The dead inode's block keys stay in TiKV (`transaction.rs:228`). |
| lock_builds | MCTifsLockBuilds.cfg | pass | With owners that convert locks and exit holding them, `LockStateConsistent` (spec invariant 7) holds on both builds, although under LocalTxn the read and the save of a lock request interleave. `MutualExclusion` and `HoldersAreOwners` hold on TiKV (42,322 states). |
| lock_live | MCTifsLock_live.cfg | pass | `WaitEventuallyReturns` under `LiveSpec`: with disciplined owners every `setlkw` loop returns. |
| lock_downgrade | MCTifsLock_downgrade.cfg | violation | `WaitEventuallyReturns`. An owner holding F_WRLCK that asks for a blocking F_RDLCK spins for ever. setlk F_RDLCK conflicts with its own write lock (`tikv_fs.rs:766`, `:233`). Two readers that both upgrade spin likewise. |
| lock_leak | MCTifsLock_leak.cfg | violation | `WaitEventuallyReturns`. An owner that closes its file while it holds a lock leaves it in `owner_set` for ever (`release`, `:562`), so every waiter spins. |
| mem_race | MCTifsLocalTxn.cfg | violation | `SerialConsistency` under LocalTxn. Two opens of one file both read `next_fh = 0`, both get handle 0, and `opened_fh` ends at 1 although two handles are held (`transaction.rs:693`). The spec says the memory backend serializes requests through one mutex; the code locks per map access. |
| data_store | MCTifsData.cfg | pass | `StoreMatchesReference`: after any writes and plain fallocates, the size is the POSIX length and every byte below it, in the inline buffer or its block, is the POSIX byte (9,849 states). |
| data_holes | MCTifsData_holes.cfg | violation | `ReadMatchesReference`. One 2-byte write at offset 3 into an empty file stores blocks 1 and 2. `read(0,6)` then puts an empty block for index 0 twice and returns block 2 one block late (`transaction.rs:378`). |
| kv_ns | MCTifsKvTxn.cfg | pass | Two namespace requests at once, on snapshots, with conflicts and retries: `CommitSerializable` (118,113 states, with symmetry). |
| kv_live | MCTifsKvTxn_live.cfg | pass | Creates, removals, opens, releases and writes at once: `CommitSerializable` and `SomeRequestFinishes` under the spin loop's fairness (280,835 states). |
| truncate_resurrect | MCTifsTruncate.cfg | violation | `StoreMatchesReference`. Write a byte, setattr to size 0, write at offset 1: byte 0 reads as the old byte. The spec's "unreachable until overwritten" does not hold once the file is extended again. |

Further violations have a configuration each and TLC finds them, but they
are not in the run list of PROJECT.json:

| Config | Module | What TLC finds |
|--------|--------|----------------|
| MCTifsFs_orphan_truncate.cfg | MCTifsFs | `NoOrphanFileBlocks` under mem. A setattr shrink before the last release leaves the blocks beyond the new size (`transaction.rs:872`). |
| MCTifsFs_orphan_dirblock.cfg | MCTifsFs | `NoOrphanDirBlock`. mkdir then rmdir leaves block 0 of the dead directory (`transaction.rs:561`). |
| MCTifsFs_inline_threshold.cfg | MCTifsFs | `InlineWithinThreshold`. A write of 16 bytes stays inline: the code tests `target <= block_size`, while invariant 3 says `block_size/16` (`transaction.rs:432`). |
| MCTifsFs_inline_size.cfg | MCTifsFs | `InlineSizeMatches`. setattr changes `size` and leaves the inline buffer, which breaks invariant 2 and the `debug_assert` at `transaction.rs:323`. |
| MCTifsLock_blocking_fails.cfg | MCTifsLock | `BlockingNeverFails`. setlkw F_WRLCK against one other reader returns `InvalidLock` instead of waiting (`tikv_fs.rs:230`); the spec sends a sleeping conflict to the retry loop. |
| MCTifsLock_mem_race.cfg | MCTifsLock | `MutualExclusion` under LocalTxn: two owners read F_UNLCK and both save themselves as holders (`transaction.rs:880`). |
| MCTifsLocalTxn_alloc.cfg | MCTifsLocalTxn | `SerialConsistency`. Two mknods in different directories get the same inode number (`transaction.rs:771`). |
| MCTifsLocalTxn_unlink_open.cfg | MCTifsLocalTxn | `SerialConsistency`. open's `save_inode` resurrects an inode that a concurrent unlink reclaimed (`transaction.rs:1217`). |
| MCTifsLocalTxn_data.cfg | MCTifsLocalTxn | `SerialConsistency`. A direct-IO read saves the inode it read before a concurrent write, and the write is lost (`transaction.rs:1059`). |
| MCTifsLocalTxn_setlk.cfg | MCTifsLocalTxn | `SerialConsistency`. setlk saves the inode it read before a concurrent write, and the write is lost (`tikv_fs.rs:759`). |
| MCTifsLocalTxn_readlink.cfg | MCTifsLocalTxn | `SerialConsistency`. readlink saves the symlink it read before a concurrent link, and the link count is lost (`transaction.rs:986`). |
| MCTifsLocalTxn_rename_open.cfg | MCTifsLocalTxn | `SerialConsistency`. An open reads the inode between rename's link and unlink and saves `nlink = 2` over rename's 1 (`tikv_fs.rs:602-604`). |
| MCTifsData_fallocate_mode.cfg | MCTifsData | `StoreMatchesReference`. `FALLOC_FL_KEEP_SIZE` grows the file and `PUNCH_HOLE` zeroes nothing, because the handler drops `_mode` (`tikv_fs.rs:656`). |

The properties checked by the passing runs:

- `TypeOK` keeps `nlink` and `opened_fh` natural numbers. A double decrement
  by close or unlink breaks it.
- `IndexDirCoherent`: in every directory each name occurs once, and the index
  and the directory block name the same children (spec invariant 1).
- `NlinkCountsNames`: `nlink` equals the number of index entries that name the
  inode. link, unlink, rename over a target, and reclamation all change one
  or the other.
- `HandlesMatchOpenCount`: `opened_fh` equals the number of handle keys, and
  every handle id was handed out by `next_fh` (spec invariant 6, made exact).
- `NamespaceIsTree`: the directories form a tree under the root. Every live
  file is either named or held open, so nothing is leaked.
Each of these properties has a mutant in PROJECT.json, which TLC catches:
`CloseTwice`, `UnlinkKeepEntry`, `LinkNoInc`, `OpenNoCount` and
`RenameKeepOld`. The burned inode number of LocalTxn's `FileExist` path
(`transaction.rs:139`) is never handed out again, and breaks nothing a
property could state.

The lock properties:

- `MutualExclusion`: while one owner believes it holds F_WRLCK, no other
  owner believes it holds any lock.
- `LockStateConsistent`: `owner_set` is empty exactly when the lock is
  F_UNLCK, and an F_WRLCK has one owner.
- `HoldersAreOwners`: an owner that has not exited is in `owner_set` exactly
  when it believes it holds a lock.
- `WaitEventuallyReturns` (liveness): a `setlkw` loop eventually returns.
- `BlockingNeverFails` (action property): a blocking request never returns an
  error.

Mutants: `SetlkWrAnyReader`, `SetlkNoInsert`, `UnlockClearAll` and
`UnlockNoReset` (for `lock_live`).

The transaction properties (TifsKvTxn):

- `CommitSerializable` (action property): each commit of a request that
  writes is that request's own body, admissible on the store it commits to.
  So every commit is a step of TifsFs's `Next` on the committed store:
  interleaved snapshots, buffered writes, conflicts and retries never
  produce a store that atomic requests could not. A read-only body
  serializes at its snapshot instead.
- `SomeRequestFinishes` (liveness): while requests are in flight, one
  eventually finishes. A failed commit always follows a successful one, and
  every round starts from a fresh snapshot.

Mutants:

- `WSaveDirBlockOnly`: save_dir puts block 0 without re-saving the
  directory's inode. Trace: mkdir D, then `mknod(D,a)` and `rmdir(D)` on
  snapshots taken together. Both commit, and a file is left in a deleted
  directory.
- `WWriteDataNoInode`: write_data skips save_inode when the size does not
  grow. A write then commits after the release that removed its handle.
- `ExecuteRetryAll`: spin retries every error, and a create that finds its
  name taken spins for ever.

Spec S6 (two concurrent creates both succeed, and `inode_next` advances by
two) is an instance of `CommitSerializable`: the loser conflicts on the meta key and
retries on a fresh snapshot.

The data property `StoreMatchesReference` is broken by `WrittenBlockLastUnread`,
which puts a short last chunk padded with zeros instead of splicing it into the
stored block.

Hazards this project no longer lists, because the code cannot reach them:

- the overflow of `cursor + offset` and the lseek/write skew: the cursor is
  always 0, see TifsData;
- a zero-length write growing the size: the kernel's `generic_write_checks`
  returns before a zero-length write reaches FUSE;
- the window between create's two transactions (`tikv_fs.rs:526`): the
  kernel holds the parent's inode lock across the whole create and publishes
  the dentry only from the reply, so no request can name the new file in
  between. TifsLocalTxn models create with that window.
- a partial failure left by `process_txn_local`'s missing rollback
  (`tikv_fs.rs:136`): under the VFS locks no handler meets an error after
  its first write (rename's only error, `DirNotEmpty` for its target, comes
  before any write); TifsLocalTxn's `Fail` still keeps earlier writes;
- an underflow of `opened_fh` in `close` (`transaction.rs:74`): `read_fh`
  checks the handle in the same transaction first, so a double release
  fails with `FhNotFound`; the memory build's double count is the mem_race
  finding.

## 4. Plan

1. **TifsFs** (done): the atomic namespace, handle and reclamation layer.
2. **TifsLock** (done): setlk, setlkw and release with three owners, on both
   backends, with liveness under the fairness above.
3. **TifsData** and **TifsTruncate** (done): the bytes of a file, against a
   POSIX reference.
4. **TifsKvTxn** (done): requests as snapshot-isolated transactions, with
   first-committer-wins conflicts and the `spin` retry, refining TifsFs.
5. **TifsLocalTxn** (done for every handler that writes: mknod, mkdir,
   create, symlink, link, unlink, rmdir, rename, open, release, setattr,
   setlk, write, read, readlink and fallocate): requests interleaved at
   the granularity of mutex acquisitions, under the kernel's VFS inode
   locks. Found: duplicate handles, duplicate inode numbers, a reclaimed
   inode written back, writes lost to a read's or a setlk's save, link
   counts lost to a readlink's save and to an open during a rename.
   Lost directory updates were expected and do not occur, because of the
   VFS parent lock.
6. Next: a passing LocalTxn run of two clients under constraints that keep
   the known races out, to check what the locks do order (renames in
   different directories, mkdir under rmdir of the parent).

## 5. Not modelled

- The mount binary, CLI and `TiFs::construct`: argument parsing and client
  setup are I/O with no state.
- The codecs (encode/decode): round-trip is a unit-test property, and a model
  value abstraction loses nothing the properties use.
- Times, permissions, uid/gid, `statfs` numbers and tracing: no property
  distinguishes them.
- `clear_data`: no handler calls it.
- File types other than regular files, directories and symlinks: `mknod` with
  a device mode follows the regular-file path.
