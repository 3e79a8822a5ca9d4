SPECIFICATION FairSpec
CONSTANTS
    g1 = g1
    g2 = g2
    b1 = b1
    b2 = b2
    f1 = f1
    f2 = f2
    Gid = {g1}
    Byte = {b1}
    Feature = {f1, f2}
    Requests <- AnyRequests
    MaxChunks = 1
    MaxChunkLen = 1
    MaxMutations = 1
    NumRuns = 2
    RunStatic = TRUE
    RunDynamic = TRUE
    WorkDir = TRUE
    DiskFiles <- OneFile
    MaxRequests = 3
INVARIANTS
    TypeOK
    OwnObjects
    CleanBetweenRuns
    ChunkCountBound
    ChunkLengthBound
    SavedMatchesCorpus
    CrashFileIffConsumed
    FeaturesAccounted
PROPERTIES
    CampaignSpec
    Termination
    FoundIsSettled
