------------------------------- MODULE MCTifsFs -------------------------------
(* Model-checking instance of TifsFs: a 16-byte block (inline threshold 1) *)
(* and write inputs that reach each branch of write_data: inline, inline   *)
(* grown past one block (promotion), and the block path over two blocks.   *)
EXTENDS TifsFs

NameSymmetry == Permutations(Names)

\* Namespace runs: a one-byte write at 0 (inline) or at BlockSize (block 1,
\* promoting inline data), truncation to 0.
NsWriteOffsets == {0, BlockSize}
NsWriteLens == {1}
NsNewSizes == {0}
MCLinkLens == {2}

\* Data runs: also a full-block write, and a setattr growing the size.
DataWriteOffsets == {0, BlockSize}
DataWriteLens == {1, BlockSize}
DataNewSizes == {0, BlockSize + 1}
==============================================================================
