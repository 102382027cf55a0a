------------------------------ MODULE MCTifsLock ------------------------------
(* Model-checking instance of TifsLock: three owners, so that a write     *)
(* request can wait on two readers and on one.                            *)
EXTENDS TifsLock, TLC

OwnerSymmetry == Permutations(Owners)

\* Owners that convert their locks and close files while holding them.
EnvAll == {"convert", "exit_holding"}
\* Owners that lock only what they do not hold and unlock before closing.
EnvDisciplined == {}
EnvConvert == {"convert"}
EnvExitHolding == {"exit_holding"}
==============================================================================
