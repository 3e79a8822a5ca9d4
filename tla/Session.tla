------------------------------ MODULE Session ------------------------------
(***************************************************************************)
(* The fuzzer as its user sees it: process after process over the same     *)
(* directories.  corpus::Manager loads files, ExecManager::Run runs what   *)
(* was loaded and then new clusters, util::WriteInputCluster writes those  *)
(* that are kept, or the one that crashed; and the process may be killed   *)
(* between any two steps, with a file half written.                        *)
(*                                                                         *)
(* Executor models a run and the corpus of one process; here a run is the  *)
(* features it shows.  The target is deterministic: a cluster shows the    *)
(* same features, and crashes or not, in every run.                        *)
(*                                                                         *)
(* A file that the engine writes is named by the SHA-1 of its content, so  *)
(* its name is here the cluster it is meant to hold.                       *)
(***************************************************************************)
EXTENDS Serialization

CONSTANTS
    Cluster,      \* the clusters that mutation can come up with
    Feature,      \* what the sensors can tell apart
    Covers,       \* the features that a run of a cluster shows
    Deadly,       \* the clusters that crash the target
    Arguments,    \* the paths on the command line, in their order
    Directory,    \* those paths that are directories
    UserFiles,    \* the files that are there at first, with their content
    CrashDir,     \* the current directory, where crashes are written
    RunStatic,    \* --exec-mode holds "static"
    RunDynamic,   \* --exec-mode holds "dynamic"
    NumRuns,      \* --num-runs
    MaxSessions   \* bound of the model: processes started

EmptyCluster == << >>

ASSUME SessionAssumption ==
    /\ Covers \in [Cluster -> SUBSET Feature]
    /\ EmptyCluster \in Cluster
    /\ Deadly \subseteq Cluster
    /\ Arguments \in Seq(STRING)
    /\ {RunStatic, RunDynamic} \subseteq BOOLEAN
    /\ {NumRuns, MaxSessions} \subseteq Nat

(* What is on the disk at first: files of the user, and files an earlier    *)
(* campaign left, which hold the cluster they are named after if they hold  *)
(* one.  Mutation could come up with whatever can be loaded from them.      *)
ASSUME FilesAssumption ==
    \A file \in DOMAIN UserFiles :
        /\ UserFiles[file] \in Seq(FileByte)
        /\ LET parsed == Deserialize(UserFiles[file]) IN
           parsed.ok => /\ parsed.value \in Cluster
                        /\ file.prefix # "user" => parsed.value = file.of

(* No cluster is too large for the words of its file. *)
ASSUME ClustersFit == \A c \in Cluster : ClusterFits(c)

VARIABLES
    disk,     \* the files: what is in them, by directory and name
    pc,       \* what the process does, or "off" if there is none
    todo,     \* files that Manager::Process has not loaded yet
    corpusDisk, \* loaded clusters that have not been run yet
    seen,     \* features the sensor processors remember
    corpus,   \* the corpus of the process
    curRuns,  \* loop variable of the dynamic loop
    writing,  \* the file that is being written
    (* history *)
    saved,     \* the clusters a session would find on the disk
    unwritten, \* clusters whose file could not be written
    sessions   \* processes started so far

memory == <<todo, corpusDisk, seen, corpus, curRuns>>
files == <<disk, saved>>
vars == <<files, pc, memory, writing, unwritten, sessions>>

(* A single file is the only one of a directory of its own. *)
File(dir, prefix, cluster) == [dir |-> dir, prefix |-> prefix, of |-> cluster]
NoFile == File("", "", EmptyCluster)

(* The files on the command line and in the directories on it. *)
ListedIn(d) == {file \in DOMAIN d : \E i \in 1..Len(Arguments) : Arguments[i] = file.dir}
SavedIn(d) == LET parsed == {Deserialize(d[file]) : file \in ListedIn(d)} IN
              {p.value : p \in {q \in parsed : q.ok}}

(* Manager::workingDirectory: the first directory among the paths. *)
DirectoryArguments == {i \in 1..Len(Arguments) : Arguments[i] \in Directory}
HaveWorkDir == DirectoryArguments # {}
WorkDir == Arguments[Min(DirectoryArguments)]

Forgotten == /\ todo' = {} /\ corpusDisk' = {} /\ seen' = {} /\ corpus' = {} /\ curRuns' = 0
             /\ writing' = NoFile /\ unwritten' = {}

Init == /\ disk = UserFiles /\ saved = SavedIn(UserFiles)
        /\ pc = "off"
        /\ todo = {} /\ corpusDisk = {} /\ seen = {} /\ corpus = {} /\ curRuns = 0
        /\ writing = NoFile /\ unwritten = {}
        /\ sessions = 0
-----------------------------------------------------------------------------
(* ExecManager::Initialize: both corpora are born with an empty cluster. *)
Start == /\ pc = "off"
         /\ sessions < MaxSessions
         /\ sessions' = sessions + 1
         /\ todo' = IF RunStatic THEN ListedIn(disk) ELSE {}
         /\ corpusDisk' = {EmptyCluster}
         /\ corpus' = {EmptyCluster}
         /\ pc' = "loading"
         /\ UNCHANGED <<files, seen, curRuns, writing, unwritten>>

(* Manager::loadInputCluster: a file that cannot be parsed is skipped, with *)
(* whatever of it was parsed.  The slip gives up on all files then.         *)
LoadOrGiveUp(file) ==
    LET parsed == Deserialize(disk[file]) IN
    /\ todo' = IF parsed.ok THEN todo \ {file} ELSE {}
    /\ corpusDisk' = corpusDisk \union (IF parsed.ok THEN {parsed.value} ELSE {})
LoadInputCluster(file) ==
    LET parsed == Deserialize(disk[file]) IN
    /\ todo' = todo \ {file}
    /\ corpusDisk' = corpusDisk \union (IF parsed.ok THEN {parsed.value} ELSE {})

(* Manager::Process *)
Load == /\ pc = "loading"
        /\ IF todo = {}
           THEN pc' = "manager" /\ UNCHANGED <<todo, corpusDisk>>
           ELSE pc' = pc /\ \E file \in todo : LoadInputCluster(file)
        /\ UNCHANGED <<files, seen, corpus, curRuns, writing, unwritten, sessions>>
-----------------------------------------------------------------------------
(* Is anything left to run statically?  The slip stops one early. *)
StaticLeftEarly == RunStatic /\ Cardinality(corpusDisk) > 1
StaticLeft == RunStatic /\ corpusDisk # {}
DynamicLeft == RunDynamic /\ (NumRuns = 0 \/ curRuns < NumRuns)

(* The sensors of a run that ends; the target may have it discarded. *)
Shown(cluster) == seen' = seen \union Covers[cluster]
IsNew(cluster) == ~(Covers[cluster] \subseteq seen)
Discarded == corpus' = corpus
Kept(cluster) == corpus' = corpus \union {cluster}

(* ExecManager::onCrash *)
Crash(cluster) == /\ cluster \in Deadly
                  /\ writing' = File(CrashDir, "crash", cluster)
                  /\ pc' = "opening"
                  /\ UNCHANGED <<seen, corpus>>

StaticRun(cluster) ==
    /\ pc = "manager"
    /\ StaticLeft
    /\ corpusDisk' = corpusDisk \ {cluster}
    /\ \/ Crash(cluster)
       \/ /\ cluster \notin Deadly
          /\ Shown(cluster)
          /\ Discarded \/ (IsNew(cluster) /\ Kept(cluster))
          /\ UNCHANGED <<pc, writing>>
    /\ UNCHANGED <<files, todo, curRuns, unwritten, sessions>>

(* ExecManager::onNewInputCluster.  The slip writes nothing. *)
WriteNothing(cluster) == UNCHANGED <<pc, writing>>
WriteNew(cluster) ==
    IF HaveWorkDir
    THEN writing' = File(WorkDir, "", cluster) /\ pc' = "opening"
    ELSE UNCHANGED <<pc, writing>>

(* A run that shows nothing new, or is discarded; one that is kept. *)
DynamicRun(cluster) ==
    /\ pc = "manager"
    /\ ~StaticLeft
    /\ DynamicLeft
    /\ curRuns' = curRuns + 1
    /\ \/ Crash(cluster)
       \/ /\ cluster \notin Deadly
          /\ Shown(cluster)
          /\ \/ Discarded /\ UNCHANGED <<pc, writing>>
             \/ IsNew(cluster) /\ Kept(cluster) /\ WriteNew(cluster)
    /\ UNCHANGED <<files, todo, corpusDisk, unwritten, sessions>>
-----------------------------------------------------------------------------
(* WriteToFile, which reports no failure: fopen() truncates the file,       *)
(* fwrite() writes some or all of it.                                       *)
Put(content) ==
    LET new == [file \in DOMAIN disk \union {writing} |-> IF file = writing THEN content ELSE disk[file]] IN
    disk' = new /\ saved' = SavedIn(new)

(* The process goes on, or has written down its crash and exits. *)
WriteReturns(complete) ==
    IF writing.prefix = "crash"
    THEN pc' = "off" /\ Forgotten
    ELSE /\ pc' = "manager"
         /\ writing' = NoFile
         /\ unwritten' = IF complete THEN unwritten ELSE unwritten \union {writing.of}
         /\ UNCHANGED memory

Open == /\ pc = "opening"
        /\ Put(<<>>)
        /\ pc' = "writing"
        /\ UNCHANGED <<memory, writing, unwritten, sessions>>

OpenFails == /\ pc = "opening"
             /\ WriteReturns(FALSE)
             /\ UNCHANGED <<files, sessions>>

Write == /\ pc = "writing"
         /\ \E content \in Prefixes(Serialize(writing.of)) :
               /\ Put(content)
               /\ WriteReturns(content = Serialize(writing.of))
         /\ UNCHANGED sessions
-----------------------------------------------------------------------------
(* ExecManager::Run returns, or the process is killed, or terminates for an *)
(* exception: what is in memory is lost.                                    *)
ManagerReturn == /\ pc = "manager"
                 /\ ~StaticLeft
                 /\ ~DynamicLeft
                 /\ pc' = "off"
                 /\ Forgotten
                 /\ UNCHANGED <<files, sessions>>

Killed == /\ pc # "off"
          /\ pc' = "off"
          /\ Forgotten
          /\ IF pc = "writing" THEN \E content \in Prefixes(Serialize(writing.of)) : Put(content)
                               ELSE UNCHANGED files
          /\ UNCHANGED sessions

(* The user has seen enough. *)
Over == pc = "off" /\ sessions = MaxSessions /\ UNCHANGED vars

Next == \/ Start \/ Load
        \/ \E cluster \in corpusDisk : StaticRun(cluster)
        \/ \E cluster \in Cluster : DynamicRun(cluster)
        \/ Open \/ OpenFails \/ Write
        \/ ManagerReturn \/ Killed \/ Over

Spec == Init /\ [][Next]_vars
-----------------------------------------------------------------------------
(***************************************************************************)
(* Properties                                                              *)
(***************************************************************************)
TypeOK == /\ pc \in {"off", "loading", "manager", "opening", "writing"}
          /\ todo \subseteq DOMAIN disk
          /\ corpusDisk \subseteq Cluster
          /\ corpus \subseteq Cluster
          /\ seen \subseteq Feature
          /\ curRuns \in Nat /\ sessions \in 0..MaxSessions
          /\ \A file \in DOMAIN disk : disk[file] \in Seq(FileByte)

Archive == INSTANCE Archive

(* The files are an archive: through kills, failed writes and restarts no   *)
(* saved cluster is lost, though its file would be truncated were it kept   *)
(* again (io.cpp:76), and each was new to all that was saved before it.     *)
ArchiveSpec == Archive!Spec

(* A file the engine has written is not parsed, or holds the cluster it is  *)
(* named after: no half-written file is taken for a smaller cluster.        *)
HoldsItsName ==
    \A file \in DOMAIN disk : file.prefix # "user" =>
        LET parsed == Deserialize(disk[file]) IN parsed.ok => parsed.value = file.of

(* When the first cluster is pulled from the corpus, the sensors know all   *)
(* that any saved cluster shows, so nothing is found a second time.         *)
SeenCoversSaved ==
    pc \in {"manager", "opening", "writing"} /\ ~StaticLeft /\ writing.prefix # "crash" =>
        Archive!Covered(saved) \subseteq seen

(* Between runs everything in the corpus but the empty cluster is on disk,  *)
(* unless a write failed: a kill loses no more than the run it interrupts.  *)
KeptIsSaved ==
    pc = "manager" /\ HaveWorkDir => corpus \subseteq saved \union {EmptyCluster} \union unwritten
=============================================================================
