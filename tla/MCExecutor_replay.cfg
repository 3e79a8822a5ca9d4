SPECIFICATION Spec
CONSTANTS
    g1 = g1
    g2 = g2
    b1 = b1
    b2 = b2
    f1 = f1
    f2 = f2
    Gid = {g1, g2}
    Byte = {b1}
    Feature = {f1, f2}
    Requests <- Positive
    MaxChunks = 1
    MaxChunkLen = 2
    MaxMutations = 1
    NumRuns = 2
    RunStatic = TRUE
    RunDynamic = TRUE
    WorkDir = TRUE
    DiskFiles <- NoFiles
    MaxRequests = 2
INVARIANTS
    Reproducible
    ChunkWithinBounds
PROPERTIES
    MutatesThatChunk
