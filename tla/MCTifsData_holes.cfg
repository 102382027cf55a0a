\* read_data over sparse blocks against the POSIX content of the file.
CONSTANTS
    BlockSize = 2
    MaxBlocks = 3
    Vals <- MCVals
    WriteLens <- MCWriteLens
    FallocModes <- ModesPlain
    ReadStarts <- MCReadStarts
    ReadLens <- MCReadLens
SPECIFICATION Spec
INVARIANTS
    ReadMatchesReference
