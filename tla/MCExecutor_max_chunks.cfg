SPECIFICATION Spec
CONSTANTS
    g1 = g1
    g2 = g2
    b1 = b1
    b2 = b2
    f1 = f1
    f2 = f2
    Gid = {g1}
    Byte = {b1}
    Feature = {f1}
    Requests <- Positive
    MaxChunks = 1
    MaxChunkLen = 2
    MaxMutations = 1
    NumRuns = 1
    RunStatic = FALSE
    RunDynamic = TRUE
    WorkDir = FALSE
    DiskFiles <- NoFiles
    MaxRequests = 3
INVARIANTS
    MaxChunksKept
