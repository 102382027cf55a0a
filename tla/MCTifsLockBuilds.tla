--------------------------- MODULE MCTifsLockBuilds ---------------------------
(* Both builds of TifsLock in one state space, with every owner free to   *)
(* convert its lock and to exit while holding it: the build is fixed when *)
(* the filesystem starts.  The lock-state bookkeeping is asked of both    *)
(* builds; mutual exclusion and the holders' view only of the TiKV build, *)
(* where each setlk is one transaction (the memory build loses it, see    *)
(* MCTifsLock_mem_race.cfg).                                              *)
EXTENDS TLC

CONSTANTS Owners, MemOwners   \* MemOwners: two of Owners

VARIABLES lock, pc, req, snap, held, ret, build

EnvAll == {"convert", "exit_holding"}

Tikv == INSTANCE TifsLock WITH Backend <- "tikv", Env <- EnvAll
Mem == INSTANCE TifsLock WITH Backend <- "mem", Env <- EnvAll, Owners <- MemOwners

OwnerSymmetry == Permutations(Owners)

\* The memory build has two owners (three make its state space too large
\* for the conversions of EnvAll).
Init == \/ build = "mem" /\ Mem!Init
        \/ build = "tikv" /\ Tikv!Init

Next == /\ \/ build = "mem" /\ Mem!Next
           \/ build = "tikv" /\ Tikv!Next
        /\ UNCHANGED build

\* The properties of TifsLock (see there).
LockStateConsistent == Tikv!LockStateConsistent
MutualExclusion == build = "tikv" => Tikv!MutualExclusion
HoldersAreOwners == build = "tikv" => Tikv!HoldersAreOwners
==============================================================================
