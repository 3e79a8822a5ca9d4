# vfuzz in TLA+

vfuzz is a coverage-guided fuzzer. Its core library (`libvfuzz-core`) holds the
containers, the sensors and the mutators; its runtime (`libvfuzz-runtime`) holds
the loops that run the target, the interface the target and the sanitizers call,
and the command line. This directory holds TLA+ modules for the parts of it that
decide what a campaign keeps, the TLC configurations that check them on small
instances, and theorems about them that TLAPS checks.

Paths below are relative to `src/`; `RT` is `libvfuzz-runtime/src`, `CORE` is
`libvfuzz-core/src`.

## 1. Inventory

| component | state | operations | who calls it |
|---|---|---|---|
| ExecManager (`RT/exec/execmanager.cpp`) | loop counters, corpus, manager of loaded files | `Run`: a static loop over the loaded clusters, then a dynamic loop; `onNewInputCluster`, `onCrash` write files | `main` |
| Executor (`RT/exec/executor.cpp`) | current cluster, mode, chunk index per generator, buffers to free, discard and generated flags, `g_executor` | `Initialize`, `Run`, `RunInputCluster`, `prepare`, `finish`, `GetNextChunk`, `SetDiscard`, `HandleCrash` | the manager; the target through `vfuzz::Datasource`, `vfuzz_discard`, `vfuzz_crash`; sanitizers through the death callback |
| Input, InputCluster, Corpus (`CORE/container`) | chunks per generator; a map of inputs; a vector of shared clusters | get, set, expand, crop, mutate; random copy, add; serialize | the executor, the manager |
| Corpus manager (`RT/container/corpus/manager.cpp`) | loaded clusters, working directory | load every file and directory given | the manager, once |
| Sensor driver and container (`RT/sensor/driver.cpp`, `CORE/sensor/container.cpp`) | sensor processors by ID, pending combinations and names, increase of the cycle, `g_sensor_driver` | start and stop a cycle, create custom sensors, combine two, enable, disable | the executor; instrumentation callbacks; the target's `sensor_*` calls |
| Sensors and processors (`CORE/sensor/sensor`, `CORE/sensor/processor`) | what was seen so far | turn an event into a value, a value into "new" | the container |
| Mutators (`CORE/mutator`) | random state, history, dictionaries | mutate one chunk under a limit | `Input::MutateChunk` |
| Built-in sensors (`CORE/sensor/sensor`) | what they keep of a cycle, and over cycles | `Update`, `AddMalloc`, `HandleCmp`, ...; `start`, `stop` | the driver's `builtin_` functions, called by the sanitizer callbacks (`RT/interface/callbacks.cpp`) and the malloc hooks |
| Malloc hooks, allocation tracker (`RT/interface/malloc_hooks.cpp`, `CORE/util/allocationtracker.cpp`) | `malloc_hooks_in_lib`; blocks of the cycle, their sum, the maximum | malloc, realloc, free | libc, for the target and for the engine alike |
| File format (`Input` and `InputCluster` `Serialize`, `Deserialize`), `RT`'s files (`CORE/util/io.cpp`) | files | parse, write | corpus manager, `onNewInputCluster`, `onCrash` |
| Options, generator rules, loggers, hashing, files | configuration; output | parse; print | everybody |

How they interact. The process is one thread. The manager calls the executor,
the executor calls the target, and the target calls back: for chunks, with
sensor values, to discard the run, to report a crash. What looks sequential is
therefore an interleaving of three parties that share the current cluster, the
sensors' memory and the flags of the executor, and the target decides the order.
Clusters are passed around as `shared_ptr`, and a run mutates its cluster in place.

What is hard here: the target may ask any generator for any number of chunks in
any order with any bounds; it may catch the exception that says there are no
more, discard and take that back, die at any point; and all of that must leave
the corpus, the files on disk, the sensors' memory and the executor's per-run
flags agreeing with each other. Unit tests in the repository cover mutators and
processors only.

What makes each component correct:

- *Input*: a chunk written is the chunk read back at that index; no other chunk changes.
- *Executor*: a run leaves nothing behind for the next; a kept cluster reproduces
  the run it was kept for; limits hold; a crash leaves a reproducer.
- *Corpus*: an entry never changes; no two entries share an object.
- *ExecManager*: a feature is credited to exactly one entry, or was given up for a
  discard; the directory holds what dynamic runs added; the loops end.
- *Sensors*: a cycle reports an increase exactly when something new was seen in it;
  a combination asked for takes effect once both sensors exist.
- *Mutators*: a chunk within the limit stays within it.
- *Serialization*: what is written reads back; a damaged file is an error, never a smaller cluster.
- *Files across processes*: what was saved stays and is not found again, however a process ends.
- *Allocation tracker*: it holds the live blocks it could hear of in this cycle, and their sum.
- *Built-in sensors*: a cycle counts exactly if what the README documents for the sensor happened.

The hazards these come from are listed, each at its line, in `PROJECT.json`.

## 2. Plan

1. `Inputs`, `Executor`, `Campaign` and their proofs. **Done.**
2. `Processors`, `Sensors`: the container, the processors, combination, the cycle, and
   their proofs. **Done.**
3. `Mutators`: every mutator as the set of answers it may give, with what feeds it. **Done.**
4. `Serialization`, the file format, and `Session`, process after process over the same
   files, implementing `Archive`. **Done.**
5. `Instrumentation`: the malloc hooks with the allocation tracker, the callbacks and the ten
   built-in sensors. **Done.**
6. Every safety property of a passing run as a theorem. **Done**: section 5.

Worth proving next: what bounds the steps between two calls of the target, so that
`Termination` rests on fairness alone; what `NotForgotten` leaves open, requests that
share a part; `NewsAsDocumented` for the value profile up to the bits it folds together; that
the sensors of `Instrumentation`, seen from the driver, do what `Executor` lets a sensor do.

What was planned once and left out: the selectors of the generator rules (`addrules.cpp`)
and the mutators' rankings have no caller, so there is no behaviour to check.

## 3. Modules

### Inputs

`container::Input` as operators on a sequence of chunks: `InputGet`, `InputSet`,
`ExpandChunk`, `CropChunk`, `MutateChunk`. `InputSet` keeps the code's behaviour
at an index past the end: it appends. `ExpandChunk` adds random bytes, so it is a
set of inputs.

### Executor

`Executor.tla` composes the manager's loops, the executor, the corpus, what the
target may do, and as much of the sensors as the executor can tell. `pc` says
who runs:

| pc | code |
|---|---|
| `init` | `VFuzzInit` is running, called by `Executor::Initialize` |
| `manager` | `ExecManager::Run`, between two runs |
| `target` | `VFuzzRun` |
| `chunk` | inside `GetNextChunk`, in its mutation loop |
| `thrown` | the exception of `GetNextChunk` is on its way through the target |
| `done` | `ExecManager::Run` returned |
| `dead`, `terminated`, `aborted`, `nullderef` | the death callback, an exception nobody caught, `abort()`, a call through a null `g_executor` |

Each action is one stretch of code between two points where somebody else may run:

| action | code |
|---|---|
| `StaticRun`, `DynamicRun`, `ManagerReturn` | the loop heads of `ExecManager::Run`, `Executor::Run`/`RunInputCluster` up to the call of the target, with `prepare()` |
| `RequestChunk` | `GetNextChunk` up to the mutation loop: the index is created, the bounds are curtailed, the number of mutations is drawn |
| `Mutate` | one round of the loop |
| `Deliver`, `TooManyChunks`, `AbortOutOfBounds` | expand, crop, read back, allocate, and the three ways out |
| `Register` | a sensor processor counts a value as new |
| `SetDiscard`, `DeathCallback`, `RequestInInit` | the C interface, including its null dereferences before the first run |
| `CatchException`, `UncaughtException` | the target's own handler, or none |
| `InitReturns`, `FinishStatic`, `FinishDynamic` | `finish()`, the decision to keep the cluster, its copy, its file |

Clusters live on a heap (`objs`) because the code shares them by pointer: the
question whether an entry can change after it was kept is a question about
aliasing. A static run works on the loaded object itself, a dynamic run on a copy.
When a dynamic run ends, its object is dropped from the heap unless it was kept.

`Register` stands for a value a processor counts as new; a noop processor counts every
value, and each of those is a fresh `Feature` here.

History variables (`delivered`, `fresh`, `said`, `ledger`, `given`) record what
happened, for the properties only; no guard reads them.

Operators whose comment calls them a *slip* are not part of the program. Each is
the mistake that lies next to a line of it: a limit compared with `<=`, a pointer
kept where the code copies, a flag not reset. Every property checked was also
checked with one of them in place of the line it follows, and fails.

### Campaign

What a campaign promises, with no engine in it: a log of entries, each credited
with features nobody had seen before; features are pending until the run ends,
then kept or given up. An entry is never changed or removed: the log only grows.
`Executor` implements it under the mapping in `Camp`: the log is the corpus
dereferenced through the heap, so an entry that changed in place would be a step
the log may not take.

### Processors and Sensors

`Processors.tla` has the processors as operators on their memory: what they count
as news, what they then report and remember. `Matches` and `Beats` are the
reference: what a memory should be after a set of values, whatever their order.

`Sensors.tla` is the driver with its container. `sensors` is the map from IDs to
sensor processors; a record of it holds the processor's memory, the buffers of a
combined sensor, whether it is disabled, and where its reports go (`parent`, the
`onReady` of the code: `Data`, or the combination it is part of). `pending` is the
map of requests to combine that wait for a part.

| pc | code |
|---|---|
| `idle` | no cycle: `g_sensor_driver` is null and every call returns at once |
| `recording` | between `StartRecord` and `StopRecord`: the target runs |
| `stopping` | inside `Container::Stop`, at the sensor `at` |
| `terminated` | an exception nobody caught |

| action | code |
|---|---|
| `StartRecord`, `StopRecord` | the functions of that name |
| `StopDelivers`, `StopEnds` | one value that `SensorProcessor::Stop`, or `stop()` of the sensor in it, hands over; the end of that call with its clearing of the buffers |
| `CombineSensors` | `sensor_combine`: the pair is made, or the request filed under both parts |
| `Callback`, `CallbackRefused`, `CallbackDuplicate` | `sensor_callback` through `AddCustomIfNotExists`: created or found, a waiting request tried, the value sent; or one of its exceptions |
| `Bind`, `SetOff`, `GetValue` | `sensor_bind_builtin` and `sensor_from_core_builtin`, `sensor_enable` and `sensor_disable`, `sensor_get_value` |
| `AddPC`, `AddLate` | instrumentation that delivers at once (coverage), or is kept until the sensor is stopped (value profile) |
| `Caught`, `Uncaught` | the target's handler, or none |

`Deliver` is one value going all the way up: processors run inside one another's
callbacks, so a value, the report it causes and the buffer that takes it are one step.
Stopping is not: a sensor hands over many values, and each can change what a
later sensor of the same loop will find in its buffers.

The functions of `BaseSensor` and `SensorProcessor` that share a name are not
virtual. A combination that is stopped therefore does not stop its parts, and one
that is disabled does not disable them; the model follows that.

`heard`, `reported` and `asked` are history variables. IDs are numbers because the
order of the map decides in which order sensors stop.

### Mutators

A mutator is the set of its answers: the chunk it returns and the bytes it reports as
inserted. A byte is the set of its bits, so the nine ranged operators are one line
each. `Split`, `CopyPartOf` and `InsertPartOf` are `mutator::Base`, with their order of
reads and writes: `CopyPart` passes one vector as source and destination (`same`), so
what is read after the destination changed is the changed vector.

| action | code |
|---|---|
| `Mutate(k, max)` | one mutation of chunk k in the executor's loop, with the limit of the request |
| `MutateRandom(n)` | `Input::MutateRandom`, which may first append an empty chunk |
| `Keep`, `Pull` | `Corpus::Add`, `Corpus::GetRandomCopy` |
| `InsertTorc` | a comparison of the target, filed by `AutoDict` |

`CorpusChunks`, `LoadedChunks` and `Tokens` are what the conduits of
`ExecManager::initializeMutators` can hand over: a chunk of some corpus entry, of some
cluster of `--input-corpora`, one byte of a compared word. The state is that of one generator.
As in the executor's loop, nothing but the index of a request, up to `--max-chunks`, bounds the
number of chunks, and `Input::Set` appends at an index past the end: `LimitsKept` is
about the length of chunks, their number is `Executor`'s subject. `Executor` lets a mutator answer
with any chunk; `AnswersFit` and `LimitsKept` say what the real ones do. `Copy` is no subject
of `AnswersFit`, as it does not look at the limit, and `InsertedIsThere` is about the four
mutators that report bytes they took from elsewhere: `InsertByte`, `InsertRepeatedBytes`,
`CrossOver`, `InsertDictionary`. `Copy` and `Random` report their whole answer,
`CopyPart` is the subject of `CopiedIsThere`.

### Serialization and Session, Archive

`Serialization` is the file format byte by byte. Parsing carries a cursor with what is left
of the file; an exception is a cursor that is not `ok`.

`Session` is the fuzzer over several processes. `disk` maps files to bytes, and a
file the engine made is named by the cluster it is meant to hold (the code names it
by SHA-1).

| pc | code |
|---|---|
| `off` | no process |
| `loading` | `Manager::Process` |
| `manager` | `ExecManager::Run`, between two runs |
| `opening`, `writing` | `WriteToFile`, before `fopen` and before `fwrite` |

| action | code |
|---|---|
| `Start`, `Load`, `LoadInputCluster` | `ExecManager::Initialize`, `Manager::Process`, with the files that are skipped |
| `StaticRun`, `DynamicRun` | a run of a loaded cluster, or of a new one: discarded, kept, or a crash |
| `Open`, `OpenFails`, `Write` | the two steps of a write; any prefix may get to the disk, no failure is reported |
| `ManagerReturn`, `Killed` | the process ends, or is killed in any state: memory is lost, a file may be cut |

`Archive` is what the files promise over all of this: saved clusters stay, and one is
added only if it shows a feature that none saved before shows. `saved`, the set of clusters
that parse, is its variable; `ArchiveSpec` says that `Session` implements it. The
target is taken to be deterministic: a feature shown once is shown by the same cluster again.

### Instrumentation

The ten built-in sensors with what feeds them. `Sensors` has the container and takes a
sensor for a source of values; here the sensors are in detail and the container is plain:
no combinations, and a cycle stops in one step. `uses` is what the target binds.

| pc | code |
|---|---|
| `idle` | between cycles: hooks reach no driver |
| `recording` | the target runs |
| `flagged`, `plain` | inside a callback that has set `malloc_hooks_in_lib`, or one that does not |

| action | code |
|---|---|
| `StartRecord`, `StopRecord` | `start()` and `stop()` of all sensors |
| `SetOff` | `sensor_enable`, `sensor_disable` |
| `Malloc`, `Realloc` | the hooks, for the target |
| `EngineMalloc` | the engine's own memory, at any time: chunks and answers in `GetNextChunk` (`executor.cpp:76`, `:112`), the copy of a cluster after `StartRecord` (`:197`), sensors and names made by a callback |
| `Free` | a block of whoever runs: in a callback the engine's (its flag decides what is heard of), else the target's or the engine's (`executor.cpp:246-248`, before `StopRecord`) |
| `Guard` | `__sanitizer_cov_trace_pc_guard`: coverage, intensity, stack and flow sensors |
| `TraceCmp`, `TraceDiv`, `TraceSwitch`, `TraceIndir`, `HookMemcmp` | the other callbacks; those for gep are like `TraceDiv`, those for strings like memory |
| `Return` | the end of a callback |

Target and engine share the C library's allocator and its hooks. The code means
`malloc_hooks_in_lib` to keep the engine's blocks apart, but sets it in some callbacks only, so
what the engine allocates elsewhere in a cycle reaches the sensors like the target's: it is in
the tracker, in the peak, and in what `single` is told. The model has it so, and
`TrackedIsLive` and `NewsAsDocumented` are about memory in use, whoever's it is.

The history. `log` and `past` record what every sensor was told. A block is `known` if it was
allocated in this cycle where the tracker should hear of it: the sensor on, and not in a callback
that sets the flag. `peak` is the most that known blocks came to in this cycle, `best` that
of the cycles before. `lost` holds the addresses of known blocks that went in this cycle without
the tracker hearing of it, until a free of that address is heard of: blocks that were
reallocated (`realloc` tells nobody), freed while the sensor was off, or freed in a callback
with the flag set. `upset` says that there ever was one: from then on the sum is too large, and
the maximum with it. Nothing else sets it; turning the sensor off before a stop does not. `reported` is
the largest peak that a cycle could report when it stopped. `Documented` states the README's condition for each
sensor on all this, and is compared with the answer of `StopRecord`. A peak of a cycle that
stopped with the sensor off is not reported then, and is news of the first later cycle that
stops with it on: `NewsAsDocumented` says so with `Owed`, and the run `stale_peak` shows
that it is news of a cycle that did not do it.

## 4. What TLC checks

| run | instance | question |
|---|---|---|
| `safety` | one generator, two features, one loaded file, requests that allow an empty chunk, two dynamic runs, chunks of one byte; fairness | do ownership, limits, flags, files and accounts hold, does the engine implement `Campaign`, does the process end, and is every feature found settled? |
| `replay` | two generators, requests of at least one byte, two dynamic runs over what earlier ones kept, chunks of up to two bytes | is a chunk stored where it is read back, whatever the order of requests, and does a kept cluster still reproduce its run after it was pulled and mutated? |
| `mutators` | one-bit bytes, chunks of up to three, limits 1 and 3, `--max-chunks` 1 (so up to two chunks), two corpus entries, a loaded file over the limit | does no chunk outgrow the limit, do all mutators but `Copy` answer within it, with bytes they were given, and is what the four inserting ones report in the answer? |
| `session` | three processes, five clusters, bytes of four values, words of two bytes, a file and two directories, two damaged files | do the files survive kills, failed and half-done writes, and does the next process know what they show? |
| `instruments` | two places, two addresses, two sizes; a target for each sensor alone, one for memory and comparisons together; two or three cycles of three or four events; the engine allocates and frees at any time | does the tracker hold what it could hear of, and does a cycle count exactly if it should, or is owed a peak? |
| `abort`, `max_chunks`, `inserted`, `unique_stacks`, `stale_peak` | the smallest instance that shows it | places where the code does not do what a comment, a test, an assertion or the README says (section 6) |
| `sensors` | a custom and a late or coverage sensor that may take each other's ID, a combination of two, one of a sensor with itself under the same ID, and one of a combination with its own part; highest, lowest, unique and noop; two values, three events per cycle, any number of cycles | is a memory that of the values heard, does a cycle count exactly if one was beaten, do buffers hold what the parts reported in this cycle, is every pair delivered, does every value go one way, and is no request that shares nothing lost? |
| `stale` | the smallest instance that shows it | one more such place |

The bounds. `MaxRequests` bounds the chunks asked for in one run; it is larger
than `MaxChunks`, so the limit is reached and passed. Chunks up to `MaxChunkLen + 1` bytes are offered
by mutators, so that the over-limit answer occurs. Two corpus entries are enough
for aliasing between entries, with the loaded object and with the running one.
`MaxMutations` is 1 there: that a round follows a round adds nothing once a mutator
answers with any chunk.
Everything else is finite by itself: `NumRuns` is an option of the program.

In `Sensors`, `MaxEvents` bounds the values sent in one cycle; the number of cycles
is not bounded. Two events fill both buffers of a pair, three fill one twice. IDs are
chosen so that a part comes before or after its pair in the order of the map; calls are
allowed at any point of a cycle, so a late sensor may be bound in the middle of one.
`Width` 4 keeps packed values small and distinct. Of the values 0 and 1, 0 is the one
that `highest` never counts and 1 the one that `lowest` beats; the packed pairs give
the processors four values more to rank, and ties.

In `Mutators`, three bytes are the least with a head, an insertion and a tail of their
own; two limits let a chunk meet a request it is too long for. `MaxKept` keeps
corpus entries short. The operators on bits are not sensitive to how many there are.

In `Session`, `MaxSessions` 3 lets a process read what one wrote that had read another's
file. Words of two bytes to base four give files that can be cut at every byte. One cluster
shows what two others show together, one is a part of another.

In `Instrumentation`, two addresses make one that is answered again; `MaxEvents` 3 or 4
lets the flow trace of three wrap around; in two cycles something is new or not, in three a
record can be passed again, and a peak be reported that the sensor was off for. What the engine allocates
where the hooks hear of it counts as an event, what it frees does not. The arithmetic of the value profile is scaled
down so that places do meet in a bit.

Fairness (`FairSpec`, in run `safety`): weak fairness of the manager's steps, of the steps inside
`GetNextChunk` and of the exception's progress, because one thread executes
them and nothing blocks it; and of `TargetReturns`, which is an assumption about
the target: a target that never returns hangs the fuzzer, which has no timeout.
Each of these actions stays enabled until it or one that ends its stretch is
taken. A target may ask for at most `MaxRequests` chunks in the model; a real
target that asks for ever does not return either.

## 5. What TLAPS proves

For all values of the constants that meet the assumptions named in the modules. The proofs of a
component are in the module named after it (`InputsProofs`, `ExecutorProofs`, ...; the file format's
are in `SessionProofs`), what they share in `Inductions`.
`Entry`, `Gid`, `Byte`, `Feature` may be infinite.

| theorem | statement | condition |
|---|---|---|
| `CampaignProofs!AccountsHold` | in `Campaign` no feature has two homes, no entry is idle, all features are accounted for | `FirstEntry \in Entry` |
| `ExecutorProofs!TypeCorrect` | `Spec => []TypeOK` | |
| `ExecutorProofs!OwnershipHolds` | `Spec => []OwnObjects` | |
| `ExecutorProofs!ChunkCountBounded`, `ChunkLengthBounded` | no generator holds more than `MaxChunks + 1` chunks, no chunk is longer than `MaxChunkLen` | the loaded clusters keep to these two limits, as those a campaign writes do |
| `ExecutorProofs!CleanHolds`, `CrashFileHolds` | nothing is left of a run; a crash leaves a file exactly if the run took a chunk | |
| `ExecutorProofs!ReproducibleHolds`, `NeverAborts`, `MutatesOnlyThatChunk` | a kept or running cluster reproduces its run; `abort()` is not reached; a mutation changes its own chunk only | every request asks for at least one byte |
| `ExecutorProofs!ImplementsCampaign` | `Spec => CampaignSpec` | |
| `ExecutorProofs!FeaturesAccountedFor`, `SavedHolds` | features are accounted for; the files are the entries dynamic runs added | |
| `SensorsProofs!SensorsTypeCorrect` | `Spec => []TypeOK` for `Sensors` | |
| `SensorsProofs!MemoryHolds` | `Spec => []MemoryMatches`: the memory of a processor is that of all it heard | |
| `SensorsProofs!IncreaseHolds` | `Spec => IncreaseIsNews`: the cycle counts exactly if a sensor at the top heard something new | |
| `SensorsProofs!RoutedHolds` | `Spec => []Routed`: values reach a combination from its own parts only | |
| `SensorsProofs!NotForgottenHolds` | `Spec => []NotForgotten`: a request to combine that shares nothing is carried out, or waits for a part | |
| `SensorsProofs!BuffersHold`, `ProductHolds` | a combination buffers what its parts reported in this cycle, and hears every combination of it | |
| `SensorsProofs!InTimeCombines` | what a combination is about to hear when it is stopped are values of this cycle | both parts are still its own and deliver in time |
| `InstrumentationProofs!InstrumentationTypes` | `Spec => []TypeOK` for `Instrumentation` | |
| `InstrumentationProofs!TrackedHolds`, `SumHolds` | the tracker holds the live blocks of this cycle that it should know (of target and engine), and besides only addresses in `lost`; `curAlloc` is the sum of the blocks it holds | |
| `InstrumentationProofs!NewsHolds` | `Spec => []NewsAsDocumented`: `StopRecord` is true exactly if the README's condition holds for one of the sensors in use, or a peak of an earlier cycle is `Owed` | `~upset` (in the property): no block went unheard; `uses \subseteq Exact`: no value profile, not the sensor for unique stack pointers |
| `InstrumentationProofs!ProfileNewsHolds` | `Spec => []ProfileNewsIsNew`: no news of a value profile without a comparison, call or prefix that is new at its place | |
| `SessionProofs!RoundTrip` | a cluster is parsed back from what is written of it, and every proper prefix of its file is rejected | its sizes fit the words of the file |
| `SessionProofs!SessionTypes`, `NamesHold` | types; a file of the engine holds the cluster it is named after, or is rejected | |
| `SessionProofs!KeptHolds` | `Spec => []KeptIsSaved`: between runs a kept cluster is on the disk, or its write failed | |
| `SessionProofs!SavedIsSeen` | `Spec => []SeenCoversSaved`: what saved clusters show is seen before anything new is kept | `RunStatic` |
| `SessionProofs!SessionsAreArchive` | `Spec => ArchiveSpec` | `RunStatic`, `CrashesApart`: the current directory is none of the paths given |
| `MutatorsProofs!MutatorsTypes`, `LimitsHold` | types; no chunk outgrows `--max-chunk-len` | |
| `MutatorsProofs!AnswersAlwaysFit` | `Spec => []AnswersFit`: a chunk within a limit is answered with one, by every mutator but `Copy` | |
| `MutatorsProofs!NothingIsInvented` | `Spec => []NothingInvented`: a mutator that draws no byte answers with bytes it was given, or that were compared | |
| `MutatorsProofs!InsertedIsAlwaysThere` | `Spec => []InsertedIsThere`: bytes reported as inserted by `InsertByte`, `InsertRepeatedBytes`, `CrossOver` and `InsertDictionary` are in the answer | |

Both conditions of `Session` are needed: section 6 says what happens without them. The
assumptions on constants, named in the modules, say what the code's types say, and: a file
of an earlier campaign that parses holds the cluster it is named after, mutation
could come up with whatever can be loaded (`FilesAssumption`); no cluster is too
large for a `uint64_t` (`ClustersFit`); a byte is a set of bits (`ByteAssumption`).

The argument.

- *Heap* (`ExecutorProofs`). `OwnObjects` is not inductive alone: it needs the
  types, that a call in progress is about the running object and a generator with
  an index (`CallOK`), and that the manager's loop variables say which object is
  next (`LoopOK`). `HeapInv` is their conjunction. Every action either leaves the
  heap alone, appends to it, writes the object `cur`, or drops the last object;
  the lemmas about these four are proved once.
- *Limits.* `LimitInv` adds that the index of a generator never exceeds
  `MaxChunks` and that an input never has more chunks than the index allows.
- *Replay*. Without empty chunks the index of a generator equals
  the number of chunks delivered, and no index is ever more than one past the end
  of its input, so `InputSet` writes where `InputGet` reads. That alignment
  (`ReplayInv`) is what makes every chunk delivered stay at its place while later
  ones are mutated. The lemmas about `Inputs` it rests on are in `InputsProofs`.
- *Refinement*. `AccountInv` relates the flags to the history:
  the increase is set exactly if the run was first to show something, the discard
  flag is the target's last word. Each step of the engine then maps to a step of
  `Campaign` or to a stutter; `FeaturesAccountedFor` follows from `AccountsHold`
  by the refinement.
- *Sensors* (`SensorsProofs`). What is left to deliver is always some of the items
  of the sensor being stopped (`LeftOK`): a delivery may append to the buffers of
  that sensor but takes nothing away. With it the types hold (`TypeInv`). Every
  step either leaves memories alone, adds sensors that heard nothing, or delivers
  (`StepKinds`), and a delivery goes through `Received` only; so `MatchesAll`, the
  memory of each processor against all it heard, is inductive, and that a value
  counts exactly if it beats all that was heard (`CountsBeats`) gives
  `IncreaseHolds` for every step.
- *Routing*. `RoutedIn` says `Routed` of any table of
  sensors, so that it can be used of the tables between the parts of a step: it
  depends on kinds, parts and parents only (`SameShapeRouted`), survives adding a
  sensor that no other refers to (`WithRouted`) and combining two sensors under an
  ID that is free (`AfterCombineRouted`). That last step needs the early exit of
  `Container::CombineSensors` for an ID that is taken.
- *Requests to combine*. `AnsweredInv` says of a request that shares nothing that it is carried out,
  or filed under both parts and not possible now. Sensors are never removed and keep kind and parts
  (`KindsKept`), so what is carried out stays so (`AnsweredKept`); and whatever makes
  a waiting request possible, a part that is created, tries it (`TriedItself`) and tries
  no other in its place (`TriedAnother`). `FiledInv`: what is filed was asked for.
- *Buffers*. Until a pair is stopped in a cycle, each buffer has what its part reported in it (`Fed`);
  afterwards it is empty (`Emptied`), as a part that would fill it then delivers late, which
  `Feeds` excludes. Three things could disturb this: a value that arrives (it is appended and noted
  alike), a part that is taken over, the stop. `HeardInv` says that what the pair being stopped has
  delivered so far is in what its processor heard, and with the buffers this gives `ProductHeard`.
- *Allocation tracker* (`InstrumentationProofs`). `TrackedIsLive` needs to know that the
  flag says which callback is running (`FlagInv`), so that the tracker hears of a block exactly
  if it should (`HearsWhatCounts`), and that the map is the known blocks with the lost addresses (`HeapInv`).
  Then each hook changes the map and the two sets alike. An address that is answered
  again was freed: `AddMalloc` finds it in the map only if it is lost, and then leaves what is there;
  the address stays lost until its free is heard of.
- *Sums*. `curAlloc` is a running sum, the sum of a set is folded in an
  order that nobody knows: `TotalIsSum` says that any order gives the same.
  Then a step adds or takes one block (`AllocInv`), and `AddFree` takes no more than there is.
- *News of the built-in sensors*. `Documented` speaks of everything a sensor was told in any
  cycle, the code keeps a summary. One predicate per sensor says what its summary is
  of what it was told (`SensorInv`: `CoverageInv`, `DepthInv`, ...), so that a value counts
  exactly if it makes `Documented` true; `SoFar` adds that up over the sensors and the
  events of a cycle, and `StoryInv` is their conjunction. The flow trace is a ring that starts
  anywhere: `Latest` reads it as a window, and one more caller turns the window
  wherever the index is. The largest use of memory (`GlobalInv`) is kept in the
  tracker over cycles, and reported if the sensor is on when one stops: the invariant says that the
  tracker's maximum is the larger of `peak` and `best`, and the processor's memory `reported`.
- *File format* (`SessionProofs`). Parsing is a fold over a cursor, writing a concatenation.
  `PiecesHeld` says where each piece of a concatenation is; so the words,
  chunks, inputs and generators of a file are at known places, and the lemmas on the
  cursor (`TakeWordPart`, `TakeSizedPart`, ...) say what is read at a place of a file that was
  cut somewhere: the piece, or the end of the parse. That a proper prefix is rejected
  falls out of the same induction, since a cursor that failed once stays failed.
- *Sessions* (`SessionProofs`). `DiskInv` says that what the engine wrote parses as the cluster
  it is named after or not at all, and that what is loaded is on the disk: with
  `RoundTrip`, a write can only add a cluster to `saved` or leave it. `KeptInv` follows a kept
  cluster through the two steps of its write. `SeenInv` says that a saved cluster is
  seen, or loaded, or still to be loaded, at each stage of a process; it needs static runs. `NewInv`
  is what makes a write a step of `Archive`: what is being written still shows what no saved
  cluster shows.
- *Mutators* (`MutatorsProofs`). Almost every answer is head, new bytes, tail (`BetweenLemma`); how
  many, and whether they are those reported, follows from `Split` and `CopyPartOf` for source and
  destination apart and for both the same. `MutatorsInv` adds to `LimitsKept` that what was
  kept is within the limits and that a token was compared, since both come back, and that an
  input has at most one chunk beyond `--max-chunks`, since the index of a request is at most that.
- *Induction* (`Inductions`). The library's induction theorems have an operator as a parameter,
  which no installed prover can instantiate. Here what holds is a set: from
  `WFMin`, a set of numbers has a smallest member; hence a set that holds 0, and i if it holds i - 1,
  holds all up to n (`UpTo`), and one that holds with a set the set with one more holds every finite
  set (`OneByOne`). Folds of the community modules and functions by recursion are reasoned about this way.

Only model-checked: `Termination` and `FoundIsSettled`, since liveness under
fairness is beyond the prover. What section 6 shows violated is not proved either, of course; where a
condition makes it true it is a theorem under the condition: requests of at least one byte for
`ChunkWithinBounds`, parts that deliver in time for `CombinesThisCycle` (`InTimeCombines`). The
stack sensor for unique pointers is in no theorem but the one on types.

## 6. Where the code and its words differ

- *abort on legal requests* (`executor.cpp:107`). After an empty chunk was delivered,
  which is stored nowhere, the index is ahead of the input; the next chunk of that
  generator is appended at a smaller index, the read at the index gives an
  empty chunk, and the bounds check aborts the process.
- *one chunk too many* (`executor.cpp:124`). "Maximum # of chunks per generator"
  (`RT/options/options.cpp:131`); what goes beyond is refused with "More chunks requested than max-chunks
  allows" (`executor.cpp:128`). The index is compared after the chunk was mutated, and `Input::Set`
  looks at no limit: an input gets max-chunks + 1 chunks, and is kept so if it shows something new.
  `ChunkCountBound` and `ChunkCountBounded` say that it is no more than one.
- *values of the cycle before* (`RT/sensor/driver.cpp:112`). A value profile with a larger
  ID than the combination it is part of delivers after that was stopped; nothing
  clears the buffers until the next stop, which combines them.
- *what CopyPart says it inserted* (`CORE/mutator/base.cpp:24`). "Set inserted bytes" reads the
  source after the destination changed, and for CopyPart both are one vector: the reported bytes
  need not be those copied. The test's "head-insert-tail" (`libvfuzz-core/tests/fuzzers/mutator.cpp:25`)
  would not find them.
- *a peak of another cycle* (`CORE/sensor/sensor/allocationglobalmax.cpp:15`). `StopRecord` "returns
  true if new data was registered during this cycle" (`RT/sensor/driver.cpp:112`), the README asks for a
  peak that is higher than before (README.md:43). A peak of a cycle that stops with the sensor off is
  kept by the tracker and reported by a later cycle, which need not have used any memory.
- *unique stack pointers* (`CORE/sensor/sensor/stack.cpp:25`). README.md:31 promises the number of
  unique ones; only depths beyond the record are handed on, so the sensor is the one for depth.

The abort needs requests that allow an empty chunk (min 0), and so does the mutation
of a chunk other than the one asked for, which has the same cause. The theorems about
replay say that without such requests neither happens.

Seen while reading, and not claimed by a run:

- The throw marked "should never happen" in `CORE/sensor/container.cpp:146` is reached by
  `sensor_callback` with the ID of a built-in or combined sensor (`CallbackRefused`).
- The assertion on the length of a mutated chunk (`executor.cpp:90`, compiled out) fails for
  a chunk loaded from a file made with a larger `--max-chunk-len`.
- `sensor_get_value` always throws (`CORE/sensor/sensor/base.cpp:88`): the last value is kept by leaf
  sensors, and the container asks the processor around them.
- A value profile bound while a cycle is recorded hands over bits of a map that nothing has
  initialised (`CORE/sensor/sensor/valuebitmap.h:81`); `Bind` models them as any bits.
- `Input::GetRandom` draws below size - 1, so the last of several chunks is never picked
  (`CORE/container/input.cpp:35`); `InsertByte` and `InsertDictionary` never append at the end.
- `EraseBytes` keeps the range that it drew and erases the rest (`CORE/mutator/erasebytes.cpp:10`).
- `Copy`, and `InsertDictionary` when it replaces, ignore the limit (the test aborts on such an answer,
  `libvfuzz-core/tests/fuzzers/mutator.cpp:197-201`); `MutateChunk` throws the answer away.
- `InsertDictionary` inserts the bytes of a token backwards; today's tokens have one byte.
- An entry of the corpus that is drawn to cross with gets an empty input for a generator it
  lacks (`CORE/container/inputcluster.cpp:45`); the models take none and an empty one for the same,
  a file does not.
- A kept cluster is written over the file that has its content (`CORE/util/io.cpp:76`). With
  `--exec-mode dynamic` nothing is loaded first, so a cluster may be kept again, and a kill
  then leaves less than there was. With static runs `ArchiveSpec` excludes that.
- If the current directory is one of the paths on the command line, a crash file is loaded by the
  next process, which dies of it while running what it loaded.
- `realloc` reaches no sensor; the pointer 0x12 that stands for zero bytes reaches the C
  library's `realloc` (`RT/interface/malloc_hooks.cpp:31`, `:57`). An exception that leaves a hook
  leaves the hooks uninstalled.

## 7. What is not modelled

- Which mutator is drawn: any, in every model. Its weights, rankings and history have no reader.
- What the loggers print, how options are parsed, how SHA1 names files: a file is named by
  the cluster it was made for, which takes SHA-1 to have no collisions.
- Addresses of stacks, and the bits of a word beyond those that a property tells apart.
- `Corpus::Serialize` and `Deserialize`, the selectors of `addrules.cpp`, `Dictionary`, whose tokens
  nobody adds: they have no caller.
- Zero-byte allocations: no sensor hears of them.
- The callbacks for function entry and exit and for 8-bit counters, which do nothing.
- Names of sensors, which only reach the logs; `sensor_was_updated`, which reads an
  uninitialised flag and steers nothing; `sensor_unbind_builtin`, which only throws.
- `ShrinkInputCluster`, `InputClusterToSensorData`, `processInsertions` have no caller.
  The leak check is off: `Initialize` sets `HaveLeakSanitizer` to false.
- Vendored code (`third_party`, and `examples/nlohmann/json.hpp`, which is most of the lines of the repository), examples and the fuzzing harnesses under `tests`.
