------------------------------ MODULE TifsData ------------------------------
(***************************************************************************)
(* The byte contents of one regular file: the inline buffer of its inode,  *)
(* its block keys (ino, i), and the requests that change or read them:     *)
(* write (Txn::write, write_data, write_inline_data,                       *)
(* transfer_inline_data_to_block) and fallocate, with read (Txn::read,     *)
(* read_data, read_inline_data) as an operator of the store.  Each request *)
(* runs in one transaction, so it is one atomic step here; the             *)
(* interleavings of requests are the subject of TifsFs and TifsLock.       *)
(*                                                                         *)
(* Beside the store the module keeps the content a POSIX file would have   *)
(* after the same requests (content, csize).  It is ghost state: no code   *)
(* reads it, and the properties compare the store with it.                 *)
(***************************************************************************)
EXTENDS Naturals, Sequences, SequencesExt

CONSTANTS
    BlockSize,      \* TiFs block_size
    MaxBlocks,      \* block keys 0..MaxBlocks-1; a request never goes past them
    Vals,           \* non-zero byte values a write may carry
    WriteLens,      \* lengths of write requests (the kernel never sends 0)
    FallocModes,    \* fallocate modes the kernel forwards
    ReadStarts,     \* offsets of read requests
    ReadLens        \* sizes of read requests

ASSUME /\ BlockSize \in Nat \ {0}
       /\ MaxBlocks \in Nat \ {0}
       /\ 0 \notin Vals
       /\ WriteLens \subseteq Nat \ {0}
       /\ FallocModes \subseteq {"none", "keep_size", "punch_hole"}

VARIABLES
    file,       \* [size, inline, idata, blocks]: the inode's size and
                \* inline_data (inline = FALSE for None) and its block keys
    content,    \* offset -> byte: the file a POSIX reader expects
    csize       \* its length

vars == <<file, content, csize>>

MaxSize == MaxBlocks * BlockSize
Offsets == 0..(MaxSize - 1)
Bytes == {0} \cup Vals
\* A missing block key; a stored block always has block_size bytes.
NoBlock == <<>>

Min2(a, b) == IF a < b THEN a ELSE b
Max2(a, b) == IF a > b THEN a ELSE b

Zeros(n) == [j \in 1..n |-> 0]

\* empty_block(block_size): a block of zero bytes.
EmptyBlock == Zeros(BlockSize)

\* Txn::inline_data_threshold: block_size / INLINE_DATA_THRESHOLD_BASE (16).
InlineThreshold == BlockSize \div 16

\* Vec::resize(n, 0): truncate to n or pad with zeros.
Resize(s, n) == [j \in 1..n |-> IF j <= Len(s) THEN s[j] ELSE 0]

\* dst[at..at+Len(src)].copy_from_slice(src), 0-based at.
Splice(dst, at, src) ==
    [j \in 1..Len(dst) |-> IF at < j /\ j <= at + Len(src) THEN src[j - at] ELSE dst[j]]

\* The stored value of block key b, or empty_block for a missing key.
StoredOrEmpty(f, b) == IF f.blocks[b] = NoBlock THEN EmptyBlock ELSE f.blocks[b]

NewFile == [size |-> 0, inline |-> FALSE, idata |-> <<>>,
            blocks |-> [b \in 0..(MaxBlocks - 1) |-> NoBlock]]

(***************************************************************************)
(* transfer_inline_data_to_block: block 0 := inline_data resized to        *)
(* block_size, inline_data := None.                                        *)
(***************************************************************************)
TransferInline(f) ==
    [f EXCEPT !.blocks[0] = Resize(f.idata, BlockSize),
              !.inline = FALSE, !.idata = <<>>]

(***************************************************************************)
(* write_inline_data: grow the buffer to start + len if shorter, splice    *)
(* the data in, and set size to the buffer's length.                       *)
(***************************************************************************)
WriteInline(f, start, data) ==
    LET cur == IF f.inline THEN f.idata ELSE <<>>
        grown == IF start + Len(data) > Len(cur)
                 THEN Resize(cur, start + Len(data)) ELSE cur
        new == Splice(grown, start, data)
    IN [f EXCEPT !.inline = TRUE, !.idata = new, !.size = Len(new)]

(***************************************************************************)
(* The block-path loop of write_data.  The first block and a last block    *)
(* shorter than block_size are read (or empty_block) and spliced; a full   *)
(* middle chunk is put as it is.                                           *)
(***************************************************************************)
Chunk(start, data, b) ==
    LET lo == Max2(start, b * BlockSize)
        hi == Min2(start + Len(data), (b + 1) * BlockSize)
    IN [j \in 1..(hi - lo) |-> data[lo - start + j]]

\* Mutant: a last chunk shorter than a block is put padded with zeros
\* instead of being spliced into the stored block.
WrittenBlockLastUnread(f, start, data, b) ==
    LET c == Chunk(start, data, b)
    IN IF b = start \div BlockSize
       THEN Splice(StoredOrEmpty(f, b), start % BlockSize, c)
       ELSE Resize(c, BlockSize)

WrittenBlock(f, start, data, b) ==
    LET c == Chunk(start, data, b)
    IN IF b = start \div BlockSize
       THEN Splice(StoredOrEmpty(f, b), start % BlockSize, c)
       ELSE IF Len(c) < BlockSize
            THEN Splice(StoredOrEmpty(f, b), 0, c)
            ELSE c

WriteBlocks(f, start, data) ==
    LET first == start \div BlockSize
        last == (start + Len(data) - 1) \div BlockSize
    IN [f EXCEPT !.blocks = [b \in DOMAIN f.blocks |->
                                IF first <= b /\ b <= last
                                THEN WrittenBlock(f, start, data, b)
                                ELSE f.blocks[b]],
                 !.size = Max2(f.size, start + Len(data))]

(***************************************************************************)
(* write_data: promote when inline data would pass block_size, write       *)
(* inline while inline (or empty) and within block_size, else the blocks.  *)
(***************************************************************************)
WriteData(f, start, data) ==
    LET target == start + Len(data)
        f1 == IF f.inline /\ target > BlockSize THEN TransferInline(f) ELSE f
    IN IF (f1.inline \/ f1.size = 0) /\ target <= BlockSize
       THEN WriteInline(f1, start, data)
       ELSE WriteBlocks(f1, start, data)

(***************************************************************************)
(* Txn::fallocate: only offset + length is used.  No-op when not past the  *)
(* size; zero-extend inline within the inline threshold; otherwise promote *)
(* inline data and set the size.  The handler drops _mode.                 *)
(***************************************************************************)
Fallocate(f, offset, length) ==
    LET target == offset + length
    IN IF target <= f.size THEN f
       ELSE IF f.inline /\ target <= InlineThreshold
            THEN WriteInline(f, f.size, Zeros(target - f.size))
            ELSE LET f1 == IF f.inline THEN TransferInline(f) ELSE f
                 IN [f1 EXCEPT !.size = target]

(***************************************************************************)
(* read_inline_data: the buffer from start, zero-filled up to size.        *)
(***************************************************************************)
ReadInline(f, start, sz) ==
    [j \in 1..sz |-> IF start + j <= Len(f.idata) THEN f.idata[start + j] ELSE 0]

(***************************************************************************)
(* The block path of read_data.  The present keys of [start_block,         *)
(* end_block) come back in order; before the i-th (0-based) the code puts  *)
(* empty blocks for the indices start_block + i .. key - 1, then the value *)
(* itself; the first block is trimmed at start % block_size, and the       *)
(* buffer is resized to the size asked for.                                *)
(***************************************************************************)
ReadBlocks(f, start, sz) ==
    LET sb == start \div BlockSize
        eb == (start + sz + BlockSize - 1) \div BlockSize
        keys == SetToSortSeq({b \in sb..(eb - 1) : f.blocks[b] # NoBlock}, <)
        piece(i) == Zeros((keys[i] - (sb + i - 1)) * BlockSize) \o f.blocks[keys[i]]
        assembled == FlattenSeq([i \in 1..Len(keys) |-> piece(i)])
        trimmed == IF assembled = <<>> THEN <<>>
                   ELSE SubSeq(assembled, (start % BlockSize) + 1, Len(assembled))
    IN Resize(trimmed, sz)

\* read_data: empty past the size; the size is clamped to what is left.
ReadData(f, start, chunk) ==
    IF start >= f.size THEN <<>>
    ELSE LET sz == Min2(chunk, f.size - start)
         IN IF f.inline THEN ReadInline(f, start, sz) ELSE ReadBlocks(f, start, sz)

(***************************************************************************)
(* Txn::read and Txn::write start at handler.cursor + offset.  The cursor  *)
(* is 0 in every reachable state: the kernel serves SEEK_SET, SEEK_CUR and *)
(* SEEK_END itself and forwards only SEEK_DATA and SEEK_HOLE, which lseek  *)
(* rejects with UnknownWhence before it saves the handle.  The kernel's    *)
(* offset is a non-negative loff_t, so the InvalidOffset branch is never   *)
(* taken.                                                                  *)
(***************************************************************************)
Cursor == 0

TxnRead(f, offset, size) == ReadData(f, Cursor + offset, size)

TxnWrite(f, offset, data) == WriteData(f, Cursor + offset, data)

-----------------------------------------------------------------------------
(* The POSIX file the requests should produce.                             *)

RefWrite(start, data) ==
    /\ content' = [k \in Offsets |->
                     IF start <= k /\ k < start + Len(data)
                     THEN data[k - start + 1] ELSE content[k]]
    /\ csize' = Max2(csize, start + Len(data))

RefFallocate(offset, length, mode) ==
    CASE mode = "none" ->
            /\ csize' = Max2(csize, offset + length)
            /\ UNCHANGED content
      [] mode = "keep_size" ->
            UNCHANGED <<content, csize>>
      [] mode = "punch_hole" ->
            /\ content' = [k \in Offsets |->
                             IF offset <= k /\ k < offset + length
                             THEN 0 ELSE content[k]]
            /\ UNCHANGED csize

RefRead(start, size) ==
    IF start >= csize THEN <<>>
    ELSE [j \in 1..Min2(size, csize - start) |-> content[start + j - 1]]

-----------------------------------------------------------------------------
Init ==
    /\ file = NewFile
    /\ content = [k \in Offsets |-> 0]
    /\ csize = 0

\* TiFs::write: one write of len copies of byte v at offset.
WriteOp(offset, len, v) ==
    LET data == [j \in 1..len |-> v]
    IN /\ offset + len <= MaxSize
       /\ file' = TxnWrite(file, offset, data)
       /\ RefWrite(offset, data)

\* TiFs::fallocate: read_inode, then Txn::fallocate; the mode is ignored.
FallocateOp(offset, length, mode) ==
    /\ offset + length <= MaxSize
    /\ file' = Fallocate(file, offset, length)
    /\ RefFallocate(offset, length, mode)

Next ==
    \/ \E off \in Offsets, len \in WriteLens, v \in Vals : WriteOp(off, len, v)
    \/ \E off \in Offsets, len \in 1..MaxSize, m \in FallocModes :
          FallocateOp(off, len, m)

Spec == Init /\ [][Next]_vars

-----------------------------------------------------------------------------
(* Properties *)

\* The byte at offset k as the store records it: the inline buffer while
\* inline data is present, else the block holding k, zero for a missing key.
Stored(f, k) ==
    IF f.inline
    THEN IF k < Len(f.idata) THEN f.idata[k + 1] ELSE 0
    ELSE IF f.blocks[k \div BlockSize] = NoBlock THEN 0
         ELSE f.blocks[k \div BlockSize][(k % BlockSize) + 1]

(***************************************************************************)
(* The write path keeps the file: after any sequence of write and          *)
(* fallocate requests the inode's size is the POSIX length and every byte  *)
(* below it, read from the inline buffer or from its block, is the byte of *)
(* the last write covering it, or zero.  It covers the splice of the first *)
(* and last block in write_data, the promotion of inline data to block 0   *)
(* (testable property 6), and fallocate's size change (testable 4 and 5).  *)
(***************************************************************************)
StoreMatchesReference ==
    /\ file.size = csize
    /\ \A k \in 0..(csize - 1) : Stored(file, k) = content[k]

(***************************************************************************)
(* read returns the file's bytes: for every read request, read_data over   *)
(* the inline buffer or the sparse blocks returns the POSIX bytes of the   *)
(* range (spec: any missing block is a zero block in its positional slot). *)
(***************************************************************************)
ReadMatchesReference ==
    \A s \in ReadStarts, n \in ReadLens : TxnRead(file, s, n) = RefRead(s, n)
==============================================================================
