---------------------------- MODULE MCTifsFsBuilds ----------------------------
(* Both builds of TifsFs in one state space: the build (feature kv_store  *)
(* or mem_store) is fixed when the filesystem starts and never changes.   *)
(* The properties are those of TifsFs, asked of either build.             *)
EXTENDS TLC

CONSTANTS MaxIno, Names, BlockSize, MaxFh, NoMeta, Absent, NoIno, NoDir

VARIABLES fs, build

Tikv == INSTANCE TifsFs WITH Backend <- "tikv", WriteOffsets <- {0, BlockSize},
                             WriteLens <- {1}, NewSizes <- {0}, LinkLens <- {2}
Mem == INSTANCE TifsFs WITH Backend <- "mem", WriteOffsets <- {0, BlockSize},
                            WriteLens <- {1}, NewSizes <- {0}, LinkLens <- {2}

NameSymmetry == Permutations(Names)

Init == /\ build \in {"tikv", "mem"}
        /\ Tikv!Init

Next == /\ \/ build = "tikv" /\ Tikv!Next
           \/ build = "mem" /\ Mem!Next
        /\ UNCHANGED build

\* The properties of TifsFs (see there); they do not depend on the build.
TypeOK == Tikv!TypeOK
IndexDirCoherent == Tikv!IndexDirCoherent
NlinkCountsNames == Tikv!NlinkCountsNames
HandlesMatchOpenCount == Tikv!HandlesMatchOpenCount
NamespaceIsTree == Tikv!NamespaceIsTree
==============================================================================
