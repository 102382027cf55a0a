--------------------------- MODULE MCTifsTruncate ---------------------------
(* TifsTruncate with the instance of MCTifsData. *)
EXTENDS TifsTruncate, TLC

MCVals == {1, 2}
MCWriteLens == {1, 2, 3}
MCReadStarts == 0..5
MCReadLens == {1, 6}
ModesPlain == {"none"}
==============================================================================
