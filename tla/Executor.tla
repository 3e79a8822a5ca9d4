----------------------------- MODULE Executor -----------------------------
(***************************************************************************)
(* vfuzz::ExecManager::Run, vfuzz::Executor and the corpus they share      *)
(* (libvfuzz-runtime/src/exec, libvfuzz-core/src/container).               *)
(*                                                                         *)
(* The process is one thread that alternates between the manager's loops,  *)
(* the target's VFuzzRun and the engine code the target calls back into.   *)
(* pc says who is running.  The target is arbitrary: whatever it may call  *)
(* next is an action.                                                      *)
(*                                                                         *)
(* Input clusters are heap objects shared by pointer (shared_ptr), so the  *)
(* model has a heap: objs is the sequence of live clusters, and an object  *)
(* is its position.  A cluster maps every generator to an Input; a         *)
(* generator with no Input and one with an empty Input behave alike.       *)
(*                                                                         *)
(* The sensors are reduced to what the executor sees of them: a cycle      *)
(* registers an increase when a feature shows up that no cycle has shown.  *)
(* What sensors report only when they are stopped counts for the run all   *)
(* the same, so it is reported just before the target returns.             *)
(*                                                                         *)
(* An operator whose comment calls it a slip is no part of the program: it *)
(* is the mistake next to the line it follows, against which the           *)
(* properties are tested.                                                  *)
(***************************************************************************)
EXTENDS Inputs, FiniteSets

CONSTANTS
    Gid,          \* generator IDs the target uses
    Feature,      \* what the sensors can tell apart
    Requests,     \* the (min, max) pairs the target asks chunks with
    MaxChunks,    \* --max-chunks
    MaxChunkLen,  \* --max-chunk-len
    MaxMutations, \* --max-mutations
    NumRuns,      \* --num-runs, 0 for no end
    RunStatic,    \* --exec-mode holds "static"
    RunDynamic,   \* --exec-mode holds "dynamic"
    WorkDir,      \* a directory was given: new entries are written to it
    DiskFiles,    \* the clusters loaded from the files and directories given
    MaxRequests   \* bound of the model: chunks the target asks for in one run

Cluster == [Gid -> Input]

ASSUME OptionsAssumption ==
    /\ MaxChunks \in Nat
    /\ MaxChunkLen \in Nat
    /\ MaxMutations \in Nat
    /\ NumRuns \in Nat
    /\ RunStatic \in BOOLEAN
    /\ RunDynamic \in BOOLEAN
    /\ WorkDir \in BOOLEAN

ASSUME InputsAssumption ==
    /\ Requests \subseteq [min : Nat, max : Nat]
    /\ DiskFiles \in Seq(Cluster)
    /\ MaxRequests \in Nat

EmptyCluster == [g \in Gid |-> <<>>]

Least(a, b) == IF a <= b THEN a ELSE b

NoObject == 0
NoIndex == [g \in {} |-> 0]
NoCall == <<>>

VARIABLES
    pc,            \* who runs, or how the process ended
    objs,          \* the heap of input clusters
    corpus,        \* Corpus::corpus, pointers into objs
    nextDisk,      \* loop variable of the static loop, from 1
    curRuns,       \* loop variable of the dynamic loop
    mode,          \* Executor::mode
    cur,           \* Executor::curInputCluster
    gexec,         \* is g_executor set?
    idx,           \* Executor::gidToCurrentIndex
    toFree,        \* how many buffers Executor::toFree holds
    doDiscard,     \* Executor::doDiscard
    haveGenerated, \* Executor::haveGenerated
    call,          \* arguments and loop variable of the GetNextChunk in progress
    seen,          \* features the sensor processors remember
    increase,      \* sensor::Driver: sensorData->increase > 0
    saved,         \* clusters written to the working directory
    crashes,       \* clusters written as crash-<sha1>
    (* history of the run, no part of the program *)
    delivered,     \* the chunks each generator returned to the target
    fresh,         \* the features this run (or VFuzzInit) was first to show
    said,          \* the target's last word on discarding
    (* history of the campaign *)
    ledger,        \* for every corpus entry, how it got there
    given          \* features shown first by VFuzzInit or by discarded runs

heapVars == <<objs, corpus>>
loopVars == <<nextDisk, curRuns>>
runVars == <<mode, cur, gexec, idx, toFree, doDiscard, haveGenerated>>
sensorVars == <<seen, increase>>
fileVars == <<saved, crashes>>
runHistory == <<delivered, fresh, said>>
history == <<ledger, given>>
vars == <<pc, heapVars, loopVars, runVars, call, sensorVars, fileVars, runHistory, history>>

Running == {"target", "chunk", "thrown"}
Final == {"done", "dead", "terminated", "aborted", "nullderef"}

(***************************************************************************)
(* The clusters loaded from disk are a corpus of their own, which like the *)
(* live corpus is born with one empty cluster (Corpus::Corpus).            *)
(***************************************************************************)
DiskObjs == <<EmptyCluster>> \o DiskFiles
DiskSize == Len(DiskObjs)

Init == /\ pc = "init"
        /\ objs = Append(DiskObjs, EmptyCluster)
        /\ corpus = <<DiskSize + 1>>
        /\ nextDisk = 1
        /\ curRuns = 0
        /\ mode = "static"
        /\ cur = NoObject
        /\ gexec = FALSE
        /\ idx = NoIndex
        /\ toFree = 0
        /\ doDiscard = FALSE
        /\ haveGenerated = FALSE
        /\ call = NoCall
        /\ seen = {}
        /\ increase = FALSE
        /\ saved = {}
        /\ crashes = {}
        /\ delivered = EmptyCluster
        /\ fresh = {}
        /\ said = "init"
        /\ ledger = <<[mode |-> "born", delivered |-> EmptyCluster, found |-> {}]>>
        /\ given = {}

-----------------------------------------------------------------------------
(***************************************************************************)
(* The manager's loops: ExecManager::Run.                                  *)
(***************************************************************************)
StaticLeft == RunStatic /\ nextDisk <= DiskSize
DynamicLeft == RunDynamic /\ (NumRuns = 0 \/ curRuns < NumRuns)

(* The flags that prepare() resets; three slips forget one each. *)
ResetForgetsDiscard == increase' = FALSE /\ haveGenerated' = FALSE /\ doDiscard' = doDiscard
ResetForgetsIncrease == increase' = increase /\ haveGenerated' = FALSE /\ doDiscard' = FALSE
ResetForgetsGenerated == increase' = FALSE /\ haveGenerated' = haveGenerated /\ doDiscard' = FALSE
ResetFlags == increase' = FALSE /\ haveGenerated' = FALSE /\ doDiscard' = FALSE

(* Executor::prepare *)
Prepare == /\ ResetFlags
           /\ gexec' = TRUE
           /\ pc' = "target"
           /\ delivered' = EmptyCluster
           /\ fresh' = {}
           /\ said' = "nothing"
           /\ UNCHANGED <<idx, toFree, call, seen, fileVars, history>>

(* Executor::RunInputCluster up to the call of VFuzzRun: the target runs on *)
(* the loaded object itself.                                                *)
StaticRun == /\ pc = "manager"
             /\ StaticLeft
             /\ mode' = "static"
             /\ cur' = nextDisk
             /\ Prepare
             /\ UNCHANGED <<heapVars, loopVars>>

(* Corpus::GetRandomCopy.  The slip makes the copy and runs the original. *)
PullPointer(i) == cur' = corpus[i] /\ objs' = Append(objs, objs[corpus[i]])
PullCopy(i) == cur' = Len(objs) + 1 /\ objs' = Append(objs, objs[corpus[i]])

(* Executor::Run up to the call of VFuzzRun. *)
DynamicRun == /\ pc = "manager"
              /\ ~StaticLeft
              /\ DynamicLeft
              /\ mode' = "dynamic"
              /\ \E i \in 1..Len(corpus) : PullCopy(i)
              /\ Prepare
              /\ UNCHANGED <<corpus, loopVars>>

ManagerReturn == /\ pc = "manager"
                 /\ ~StaticLeft
                 /\ ~DynamicLeft
                 /\ pc' = "done"
                 /\ UNCHANGED <<heapVars, loopVars, runVars, call, sensorVars, fileVars,
                                runHistory, history>>
-----------------------------------------------------------------------------
(***************************************************************************)
(* GetNextChunk, in the steps of its loop.                                 *)
(***************************************************************************)
(* Requests are curtailed to the global limit; a max of 0 stands for it.   *)
(* The slip trusts the target.                                             *)
RequestedMax(r) == IF r.max = 0 THEN MaxChunkLen ELSE r.max
CurtailedMax(r) == IF r.max = 0 THEN MaxChunkLen ELSE Least(r.max, MaxChunkLen)
CurtailedMin(r) == Least(r.min, CurtailedMax(r))

(* The target asks generator g for a chunk. *)
RequestChunk(g, r) ==
    /\ pc = "target"
    /\ toFree < MaxRequests
    /\ idx' = [h \in DOMAIN idx \union {g} |-> IF h \in DOMAIN idx THEN idx[h] ELSE 0]
    /\ \E n \in 0..(IF mode = "dynamic" THEN MaxMutations ELSE 0) :
           call' = [gid |-> g, min |-> CurtailedMin(r), max |-> CurtailedMax(r), left |-> n]
    /\ pc' = "chunk"
    /\ UNCHANGED <<heapVars, loopVars, mode, cur, gexec, toFree, doDiscard, haveGenerated,
                   sensorVars, fileVars, runHistory, history>>

CallInput == objs[cur][call.gid]
CallIndex == idx[call.gid]

(* InputCluster::Get answers with a pointer into the running cluster.  The  *)
(* slip changes a copy of the input.                                        *)
SetInputCopy(input) == objs' = objs
SetCallInput(input) == objs' = [objs EXCEPT ![cur] = [@ EXCEPT ![call.gid] = input]]

(* One round of the mutation loop.  A mutator may answer with any chunk,    *)
(* also one over the limit it is given; all chunks over the limit are alike *)
(* here, so one byte too many stands for them.                              *)
Mutate ==
    /\ pc = "chunk"
    /\ call.left > 0
    /\ \E mutated \in ChunksUpTo(MaxChunkLen + 1) :
           SetCallInput(MutateChunk(CallInput, CallIndex, mutated, call.max))
    /\ call' = [call EXCEPT !.left = @ - 1]
    /\ UNCHANGED <<pc, corpus, loopVars, runVars, sensorVars, fileVars, runHistory, history>>

(* What expanding and cropping can turn the input of the requested chunk into. *)
Expanded == IF call.min > 0 THEN ExpandChunk(CallInput, CallIndex, call.min) ELSE {CallInput}
Cropped(input) == IF call.max > 0 THEN CropChunk(input, CallIndex, call.max) ELSE input
Fitted == {Cropped(input) : input \in Expanded}

InBounds(chunk) == Len(chunk) >= call.min /\ Len(chunk) <= call.max

(* May the index still be advanced?  The slip is off by one. *)
MoreAllowed == CallIndex <= MaxChunks
ChunksLeft == CallIndex < MaxChunks

(* The chunk is handed to the target. *)
Deliver ==
    /\ pc = "chunk"
    /\ call.left = 0
    /\ ChunksLeft
    /\ \E input \in Fitted :
          LET chunk == InputGet(input, CallIndex) IN
          /\ InBounds(chunk)
          /\ SetCallInput(input)
          /\ delivered' = [delivered EXCEPT ![call.gid] = Append(@, chunk)]
    /\ idx' = [idx EXCEPT ![call.gid] = @ + 1]
    /\ toFree' = toFree + 1
    /\ haveGenerated' = TRUE
    /\ pc' = "target"
    /\ call' = NoCall
    /\ UNCHANGED <<corpus, loopVars, mode, cur, gexec, doDiscard, sensorVars, fileVars,
                   fresh, said, history>>

(* One chunk too many: it is stored and allocated, then the exception says *)
(* that it cannot be had.                                                  *)
TooManyChunks ==
    /\ pc = "chunk"
    /\ call.left = 0
    /\ ~ChunksLeft
    /\ \E input \in Fitted : InBounds(InputGet(input, CallIndex)) /\ SetCallInput(input)
    /\ toFree' = toFree + 1
    /\ haveGenerated' = TRUE
    /\ pc' = "thrown"
    /\ call' = NoCall
    /\ UNCHANGED <<corpus, loopVars, mode, cur, gexec, idx, doDiscard, sensorVars, fileVars,
                   runHistory, history>>

(* The chunk that was stored is not the chunk that is read back: abort(). *)
AbortOutOfBounds ==
    /\ pc = "chunk"
    /\ call.left = 0
    /\ \E input \in Fitted : ~InBounds(InputGet(input, CallIndex)) /\ SetCallInput(input)
    /\ pc' = "aborted"
    /\ call' = NoCall
    /\ UNCHANGED <<corpus, loopVars, runVars, sensorVars, fileVars, runHistory, history>>
-----------------------------------------------------------------------------
(***************************************************************************)
(* What else the target may do.                                            *)
(***************************************************************************)
(* The target survives the exception, or nobody catches it (neither the    *)
(* executor nor the manager does) and the process is terminated.           *)
CatchException == /\ pc = "thrown"
                  /\ pc' = "target"
                  /\ UNCHANGED <<heapVars, loopVars, runVars, call, sensorVars, fileVars,
                                 runHistory, history>>

UncaughtException == /\ pc \in {"init", "target", "thrown"}
                     /\ pc' = "terminated"
                     /\ UNCHANGED <<heapVars, loopVars, runVars, call, sensorVars, fileVars,
                                    runHistory, history>>

(* A sensor processor sees a value it counts as new. *)
Register(f) == /\ pc \in {"init", "target"}
               /\ f \notin seen
               /\ seen' = seen \union {f}
               /\ increase' = TRUE
               /\ fresh' = fresh \union {f}
               /\ UNCHANGED <<pc, heapVars, loopVars, runVars, call, fileVars, delivered, said,
                              history>>

(* vfuzz_discard and vfuzz_dont_discard; without an executor they do nothing. *)
SetDiscard(b) == /\ pc = "target"
                 /\ gexec
                 /\ doDiscard' = b
                 /\ said' = IF b THEN "discard" ELSE "keep"
                 /\ UNCHANGED <<pc, heapVars, loopVars, mode, cur, gexec, idx, toFree,
                                haveGenerated, call, sensorVars, fileVars, delivered, fresh,
                                history>>

(* A sanitizer reports, or the target calls vfuzz_crash: the cluster is     *)
(* written to a crash file when it had any part in the run.  The callback   *)
(* is installed before VFuzzInit runs and uses g_executor unchecked.        *)
DeathCallback == /\ pc \in {"init", "target"}
                 /\ IF gexec
                    THEN /\ pc' = "dead"
                         /\ crashes' = IF haveGenerated THEN crashes \union {objs[cur]} ELSE crashes
                    ELSE /\ pc' = "nullderef"
                         /\ UNCHANGED crashes
                 /\ UNCHANGED <<heapVars, loopVars, runVars, call, sensorVars, saved, runHistory,
                                history>>

(* Datasource::get uses g_executor unchecked too. *)
RequestInInit == /\ pc = "init"
                 /\ pc' = "nullderef"
                 /\ UNCHANGED <<heapVars, loopVars, runVars, call, sensorVars, fileVars,
                                runHistory, history>>
-----------------------------------------------------------------------------
(***************************************************************************)
(* VFuzzInit and VFuzzRun return.                                          *)
(***************************************************************************)
(* Executor::Initialize ignores what StopRecord answers. *)
InitReturns == /\ pc = "init"
               /\ pc' = "manager"
               /\ given' = given \union fresh
               /\ fresh' = {}
               /\ UNCHANGED <<heapVars, loopVars, runVars, call, sensorVars, fileVars, delivered,
                              said, ledger>>

(* The slip: the indices of the run are not cleared. *)
FinishKeepsIndices == idx' = idx /\ toFree' = 0 /\ gexec' = FALSE

(* Executor::finish *)
Finish == idx' = NoIndex /\ toFree' = 0 /\ gexec' = FALSE

(* Is the cluster kept?  The slip forgets what the target said. *)
KeepDespiteDiscard == increase
Interesting == ~doDiscard /\ increase

Record(kept) ==
    /\ ledger' = IF kept THEN Append(ledger, [mode |-> mode, delivered |-> delivered, found |-> fresh])
                         ELSE ledger
    /\ given' = IF said = "discard" THEN given \union fresh ELSE given
    /\ fresh' = {}
    /\ UNCHANGED <<delivered, said>>

(* Corpus::AddInputCluster of a copy: what RunInputCluster pushes.  The slip *)
(* pushes the loaded object itself.                                          *)
PushPointer == objs' = objs /\ corpus' = Append(corpus, cur)
PushCopy == objs' = Append(objs, objs[cur]) /\ corpus' = Append(corpus, Len(objs) + 1)

(* Executor::RunInputCluster from the return of VFuzzRun. *)
FinishStatic ==
    /\ pc = "target"
    /\ mode = "static"
    /\ Finish
    /\ IF Interesting THEN PushCopy ELSE UNCHANGED heapVars
    /\ Record(Interesting)
    /\ nextDisk' = nextDisk + 1
    /\ pc' = "manager"
    /\ UNCHANGED <<curRuns, mode, cur, doDiscard, haveGenerated, call, sensorVars, fileVars>>

(* ExecManager::onNewInputCluster, and the slip of not writing. *)
WriteNothing == UNCHANGED saved
WriteNew == saved' = IF WorkDir THEN saved \union {objs[cur]} ELSE saved

(* The last pointer to an object that is not kept goes, and with it the object. *)
DropCurrent == objs' = SubSeq(objs, 1, Len(objs) - 1)

(* The slip: a loop that never counts. *)
StuckRun == curRuns' = curRuns
NextRun == curRuns' = curRuns + 1

(* Executor::Run from the return of VFuzzRun. *)
FinishDynamic ==
    /\ pc = "target"
    /\ mode = "dynamic"
    /\ Finish
    /\ IF Interesting
       THEN WriteNew /\ corpus' = Append(corpus, cur) /\ UNCHANGED objs
       ELSE DropCurrent /\ UNCHANGED <<corpus, saved>>
    /\ Record(Interesting)
    /\ cur' = NoObject
    /\ NextRun
    /\ pc' = "manager"
    /\ UNCHANGED <<nextDisk, mode, doDiscard, haveGenerated, call, sensorVars, crashes>>
-----------------------------------------------------------------------------
(* The process has ended. *)
Halted == pc \in Final /\ UNCHANGED vars

ManagerStep == StaticRun \/ DynamicRun \/ ManagerReturn
ChunkStep == Mutate \/ Deliver \/ TooManyChunks \/ AbortOutOfBounds
TargetReturns == InitReturns \/ FinishStatic \/ FinishDynamic
ExceptionStep == CatchException \/ UncaughtException

Next == \/ ManagerStep
        \/ \E g \in Gid, r \in Requests : RequestChunk(g, r)
        \/ ChunkStep
        \/ ExceptionStep
        \/ \E f \in Feature : Register(f)
        \/ \E b \in BOOLEAN : SetDiscard(b)
        \/ DeathCallback
        \/ RequestInInit
        \/ TargetReturns
        \/ Halted

Spec == Init /\ [][Next]_vars

(* The engine's own code runs to its end; of the target it is assumed that *)
(* VFuzzInit and VFuzzRun return and that handlers finish.                 *)
FairSpec == /\ Spec
            /\ WF_vars(ManagerStep)
            /\ WF_vars(ChunkStep)
            /\ WF_vars(ExceptionStep)
            /\ WF_vars(TargetReturns)
-----------------------------------------------------------------------------
Object == 1..Len(objs)

CallType == [gid : Gid, min : Nat, max : Nat, left : Nat]
LedgerEntry == [mode : {"born", "static", "dynamic"}, delivered : Cluster, found : SUBSET Feature]

HeapTypes ==
    /\ pc \in {"init", "manager"} \union Running \union Final
    /\ objs \in Seq(Cluster)
    /\ corpus \in Seq(Object)
    /\ nextDisk \in 1..(DiskSize + 1)
    /\ curRuns \in Nat
    /\ mode \in {"static", "dynamic"}
    /\ cur \in Object \union {NoObject}
    /\ saved \subseteq Cluster
    /\ crashes \subseteq Cluster

CallTypes ==
    /\ DOMAIN idx \subseteq Gid
    /\ idx \in [DOMAIN idx -> 0..MaxChunks]
    /\ toFree \in Nat
    /\ call \in CallType \union {NoCall}

FlagTypes == {gexec, doDiscard, haveGenerated, increase} \subseteq BOOLEAN

RecordTypes ==
    /\ seen \subseteq Feature
    /\ fresh \subseteq Feature
    /\ given \subseteq Feature
    /\ said \in {"init", "nothing", "discard", "keep"}
    /\ delivered \in Cluster
    /\ ledger \in Seq(LedgerEntry)

TypeOK == HeapTypes /\ CallTypes /\ FlagTypes /\ RecordTypes
-----------------------------------------------------------------------------
(***************************************************************************)
(* Safety                                                                  *)
(***************************************************************************)
(* The corpus owns its objects: no two entries share one, none is a loaded *)
(* cluster that a static run may still change in place, and none is the    *)
(* cluster the running target changes.  This is why GetRandomCopy and      *)
(* RunInputCluster copy (corpus.cpp:29, executor.cpp:265).                 *)
OwnObjects ==
    /\ \A i, j \in 1..Len(corpus) : i # j => corpus[i] # corpus[j]
    /\ \A i \in 1..Len(corpus) : corpus[i] > DiskSize
    /\ pc \in Running =>
          /\ cur = IF mode = "static" THEN nextDisk ELSE Len(objs)
          /\ \A i \in 1..Len(corpus) : corpus[i] # cur

(* Nothing of a run is left when the manager runs again: no chunk index, no *)
(* buffer, no executor for a hook to find (executor.cpp:244-255); and while *)
(* the target runs the executor is there.                                   *)
CleanBetweenRuns ==
    /\ pc \in {"init", "manager", "done"} => idx = NoIndex /\ toFree = 0 /\ ~gexec
    /\ pc \in Running => gexec

(* What was loaded keeps to the limits of the options. *)
DiskWithinLimits ==
    \A k \in 1..Len(DiskFiles) : \A g \in Gid :
        /\ Len(DiskFiles[k][g]) <= MaxChunks + 1
        /\ \A i \in 1..Len(DiskFiles[k][g]) : Len(DiskFiles[k][g][i]) <= MaxChunkLen

(* "Maximum # of chunks per generator" (options.cpp:131), and what is asked *)
(* for beyond it is refused: "More chunks requested than max-chunks allows" *)
(* (executor.cpp:128).  The code does not keep to it: Input::Set appends    *)
(* without looking at the limit (input.cpp:44) and GetNextChunk compares    *)
(* the index after it stored the chunk (executor.cpp:124).                  *)
MaxChunksKept == \A o \in Object : \A g \in Gid : Len(objs[o][g]) <= MaxChunks

(* It is one chunk too many and no more, however often a cluster is pulled  *)
(* and mutated again, and though a target that catches the exception may go *)
(* on asking.                                                               *)
ChunkCountBound == \A o \in Object : \A g \in Gid : Len(objs[o][g]) <= MaxChunks + 1

(* No chunk is ever longer than max-chunk-len, which the assertion in       *)
(* GetNextChunk expects after every mutation (executor.cpp:90).             *)
ChunkLengthBound ==
    \A o \in Object : \A g \in Gid : \A i \in 1..Len(objs[o][g]) : Len(objs[o][g][i]) <= MaxChunkLen

(* With a working directory, the files hold exactly the entries that        *)
(* dynamic runs added, with the content the corpus still has.               *)
SavedMatchesCorpus ==
    saved = IF WorkDir THEN {objs[corpus[i]] : i \in {k \in 1..Len(corpus) : ledger[k].mode = "dynamic"}}
                       ELSE {}

(* A cluster that hands the target the chunks d again, when it is run in    *)
(* static mode with the same requests: the chunk at every index is the one  *)
(* that was delivered there (it fits its request, so it is left alone).     *)
Reproduces(cluster, d) ==
    \A g \in Gid : \A i \in 1..Len(d[g]) : InputGet(cluster[g], i - 1) = d[g][i]

(* A crash leaves a file exactly if the target had taken a chunk in this    *)
(* run; "target crashed without consuming any input" (executor.cpp:147).    *)
CrashFileIffConsumed == pc = "dead" => (crashes # {} <=> toFree > 0)

(* No request of the target asks for a possibly empty chunk. *)
PositiveRequests == MaxChunkLen >= 1 /\ \A r \in Requests : r.min >= 1

(* Under positive requests every cluster that is kept or being run          *)
(* reproduces what its run delivered, in every state of the run, so also    *)
(* when the target crashes.                                                 *)
Reproducible ==
    /\ pc \in Running \union {"dead"} => Reproduces(objs[cur], delivered)
    /\ \A i \in 1..Len(corpus) : Reproduces(objs[corpus[i]], ledger[i].delivered)

(* The chunk read back lies within the bounds asked for: abort() is never   *)
(* reached (executor.cpp:107-109).                                          *)
ChunkWithinBounds == pc # "aborted"

(* "Mutate a specific chunk" (input.cpp:111): every chunk but the one the   *)
(* call is about reads as before.  Holds under positive requests.           *)
MutatesThatChunk ==
    [][Mutate => \A i \in 0..MaxChunks : i # CallIndex =>
                    InputGet(objs'[cur][call.gid], i) = InputGet(CallInput, i)]_vars

(* The corpus is the log of a campaign, see Campaign. *)
Log == [i \in 1..Len(corpus) |-> [entry |-> objs[corpus[i]], found |-> ledger[i].found]]

Camp == INSTANCE Campaign WITH
            Entry <- Cluster, FirstEntry <- EmptyCluster,
            log <- Log, known <- seen, pending <- fresh, excused <- said \in {"init", "discard"}

CampaignSpec == Camp!Spec

(* Every feature found has exactly one home, and every entry but the first *)
(* was kept for a feature of its own.                                      *)
FeaturesAccounted == Camp!Disjoint /\ Camp!NoIdleEntry /\ Camp!Accounted
-----------------------------------------------------------------------------
(***************************************************************************)
(* Liveness, under FairSpec                                                *)
(***************************************************************************)
(* With a number of runs given, the process ends. *)
Termination == <>(pc \in Final)

(* How a process ends that does not return from ExecManager::Run. *)
Crashed == Final \ {"done"}

(* A feature that a run was first to show is settled, however the rest of   *)
(* the runs goes: it is credited to a corpus entry or given up for a        *)
(* discard, unless the process crashes first (executor.cpp:213, 264).       *)
FoundIsSettled ==
    \A f \in Feature :
        f \in fresh ~> \/ f \in given
                      \/ \E i \in 1..Len(ledger) : f \in ledger[i].found
                      \/ pc \in Crashed
=============================================================================
