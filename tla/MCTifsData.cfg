\* Writes and plain fallocate against the POSIX content of the file.
CONSTANTS
    BlockSize = 2
    MaxBlocks = 4
    Vals <- MCVals
    WriteLens <- MCWriteLens
    FallocModes <- ModesPlain
    ReadStarts <- MCReadStarts
    ReadLens <- MCReadLens
SPECIFICATION Spec
INVARIANTS
    StoreMatchesReference
