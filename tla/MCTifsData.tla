----------------------------- MODULE MCTifsData -----------------------------
(* Instances of TifsData for TLC.  Blocks of 2 bytes and 4 block keys give *)
(* files of up to 8 bytes: enough for an inline file, its promotion, a     *)
(* write spanning a full middle block, and holes before and between        *)
(* present blocks.  Two byte values tell one write from another.           *)
EXTENDS TifsData, TLC

MCVals == {1, 2}
MCWriteLens == {1, 2, 3}
MCReadStarts == 0..5
MCReadLens == {1, 6}
ModesPlain == {"none"}
ModesKernel == {"none", "keep_size", "punch_hole"}
==============================================================================
