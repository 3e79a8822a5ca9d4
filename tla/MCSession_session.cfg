\* Three sessions over a file and two directories, two of whose files are damaged.
CONSTANTS
    Radix = 4
    WordBytes = 2
    f1 = f1
    f2 = f2
    f3 = f3
    Feature = {f1, f2, f3}
    Cluster <- Clusters
    Covers <- Shows
    Deadly <- Crashes
    Arguments <- Paths
    Directory <- Directories
    UserFiles <- SomeFiles
    CrashDir = "."
    RunStatic = TRUE
    RunDynamic = TRUE
    NumRuns = 2
    MaxSessions = 3

SPECIFICATION Spec
INVARIANTS
    TypeOK
    HoldsItsName
    SeenCoversSaved
    KeptIsSaved
PROPERTY
    ArchiveSpec
