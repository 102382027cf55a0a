---------------------------- MODULE TifsTruncate ----------------------------
(***************************************************************************)
(* TifsData with setattr's size change.  TiFs::setattr calls               *)
(* attr.set_size(size) and saves the inode: the inline buffer and the      *)
(* block keys past the new size stay (spec: "a deliberate, cheap truncate; *)
(* they are simply unreachable until overwritten").  A POSIX truncate      *)
(* drops the bytes past the new size, and a later extension reads zeros.   *)
(***************************************************************************)
EXTENDS TifsData

\* TiFs::setattr with Some(size): set_size, then save_inode.
Setattr(f, size) == [f EXCEPT !.size = size]

RefTruncate(size) ==
    /\ content' = [k \in Offsets |-> IF k < size THEN content[k] ELSE 0]
    /\ csize' = size

SetattrOp(size) ==
    /\ file' = Setattr(file, size)
    /\ RefTruncate(size)

NextTruncate ==
    \/ Next
    \/ \E s \in 0..MaxSize : SetattrOp(s)

SpecTruncate == Init /\ [][NextTruncate]_vars
==============================================================================
