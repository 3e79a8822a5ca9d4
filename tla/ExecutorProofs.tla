-------------------------- MODULE ExecutorProofs --------------------------
(***************************************************************************)
(* Theorems about Executor, for every value of its constants.              *)
(***************************************************************************)
EXTENDS Executor, InputsProofs

(* While GetNextChunk runs, its arguments are sane. *)
CallOK == pc = "chunk" => /\ call \in CallType
                          /\ call.gid \in DOMAIN idx
                          /\ call.min <= call.max
                          /\ call.max <= MaxChunkLen
                          /\ PositiveRequests => call.min >= 1

LoopOK == /\ Len(corpus) >= 1
          /\ mode = "static" /\ pc \in Running => nextDisk <= DiskSize
          /\ pc = "init" => ~gexec

(* The inductive invariant: types and ownership need each other, because   *)
(* dropping the current object must not cut off an entry of the corpus.    *)
HeapInv == TypeOK /\ OwnObjects /\ CallOK /\ LoopOK

LEMMA DiskLemma ==
    /\ EmptyCluster \in Cluster
    /\ DiskObjs \in Seq(Cluster)
    /\ DiskSize \in Nat
    /\ DiskSize >= 1
<1>1. EmptyCluster \in Cluster
  BY EmptySeq DEF EmptyCluster, Cluster, Input, Chunk
<1>2. <<EmptyCluster>> \in Seq(Cluster) /\ Len(<<EmptyCluster>>) = 1
  BY <1>1
<1>3. DiskObjs \in Seq(Cluster) /\ Len(DiskObjs) = 1 + Len(DiskFiles)
  BY <1>2, InputsAssumption, ConcatProperties DEF DiskObjs
<1> QED
  BY <1>1, <1>3, InputsAssumption, LenProperties DEF DiskSize

LEMMA InitHeap == Init => HeapInv
<1> SUFFICES ASSUME Init PROVE HeapInv
  OBVIOUS
<1>1. objs \in Seq(Cluster) /\ Len(objs) = DiskSize + 1
  BY DiskLemma, AppendProperties DEF Init, DiskSize
<1>2. corpus \in Seq(Object) /\ Len(corpus) = 1 /\ corpus[1] = DiskSize + 1
  BY <1>1, DiskLemma DEF Init, Object
<1>3. idx = NoIndex /\ DOMAIN idx = {} /\ idx \in [DOMAIN idx -> 0..MaxChunks]
  BY DEF Init, NoIndex
<1>4. ledger \in Seq(LedgerEntry)
  BY DiskLemma DEF Init, LedgerEntry
<1>5. HeapTypes
  BY <1>1, <1>2, DiskLemma DEF Init, HeapTypes, NoObject
<1>6. CallTypes
  BY <1>3 DEF Init, CallTypes
<1>7. FlagTypes
  BY DEF Init, FlagTypes
<1>8. RecordTypes
  BY <1>4, DiskLemma DEF Init, RecordTypes
<1>9. OwnObjects
  BY <1>2, DiskLemma DEF Init, OwnObjects, Running
<1>10. CallOK /\ LoopOK
  BY <1>2 DEF Init, CallOK, LoopOK, Running
<1> QED
  BY <1>5, <1>6, <1>7, <1>8, <1>9, <1>10 DEF HeapInv, TypeOK

(* What the invariant says of the pointers. *)
LEMMA Pointers ==
    ASSUME HeapInv
    PROVE  /\ Len(objs) \in Nat /\ DiskSize < Len(objs)
           /\ Len(corpus) \in Nat /\ Len(corpus) >= 1
           /\ \A i \in 1..Len(corpus) : corpus[i] \in Object /\ corpus[i] > DiskSize
           /\ \A o \in Object : objs[o] \in Cluster
           /\ pc \in Running => cur \in Object
<1>1. /\ objs \in Seq(Cluster) /\ corpus \in Seq(Object)
      /\ Len(objs) \in Nat /\ Len(corpus) \in Nat /\ Len(corpus) >= 1
  BY LenProperties DEF HeapInv, TypeOK, HeapTypes, LoopOK
<1>2. \A i \in 1..Len(corpus) : corpus[i] \in Object /\ corpus[i] > DiskSize
  BY <1>1, ElementOfSeq DEF HeapInv, OwnObjects
<1>3. DiskSize < Len(objs)
  BY <1>1, <1>2, DiskLemma DEF Object
<1>4. \A o \in Object : objs[o] \in Cluster
  BY <1>1, ElementOfSeq DEF Object
<1>5. ASSUME pc \in Running PROVE cur \in Object
  <2>1. cur = IF mode = "static" THEN nextDisk ELSE Len(objs)
    BY <1>5 DEF HeapInv, OwnObjects
  <2>2. mode = "static" => nextDisk \in 1..DiskSize
    BY <1>5, DiskLemma DEF HeapInv, LoopOK, TypeOK, HeapTypes
  <2> QED
    BY <1>1, <1>3, <2>1, <2>2, DiskLemma DEF Object
<1> QED
  BY <1>1, <1>2, <1>3, <1>4, <1>5

LEMMA StaticRunHeap == HeapInv /\ StaticRun => HeapInv'
<1> SUFFICES ASSUME HeapInv, StaticRun PROVE HeapInv'
  OBVIOUS
<1> USE DEF HeapInv, StaticRun, Prepare, ResetFlags, heapVars, loopVars, fileVars, history
<1>1. nextDisk \in 1..DiskSize /\ DiskSize < Len(objs)
  BY DiskLemma, Pointers DEF TypeOK, HeapTypes, StaticLeft
<1>2. HeapTypes'
  BY <1>1, DiskLemma, Pointers DEF TypeOK, HeapTypes, Running, Object
<1>3. CallTypes'
  BY DEF TypeOK, CallTypes
<1>4. FlagTypes'
  BY DEF TypeOK, FlagTypes
<1>5. RecordTypes'
  BY DiskLemma DEF TypeOK, RecordTypes
<1>6. OwnObjects'
  BY <1>1, DiskLemma, Pointers DEF OwnObjects, Object
<1>7. CallOK' /\ LoopOK'
  BY <1>1 DEF CallOK, LoopOK
<1> QED
  BY <1>2, <1>3, <1>4, <1>5, <1>6, <1>7 DEF TypeOK

LEMMA DynamicRunHeap == HeapInv /\ DynamicRun => HeapInv'
<1> SUFFICES ASSUME HeapInv, DynamicRun PROVE HeapInv'
  OBVIOUS
<1> USE DEF HeapInv, DynamicRun, Prepare, ResetFlags, loopVars, fileVars, history
<1>1. PICK i \in 1..Len(corpus) : cur' = Len(objs) + 1 /\ objs' = Append(objs, objs[corpus[i]])
  BY DEF PullCopy
<1>2. /\ objs' \in Seq(Cluster) /\ Len(objs') = Len(objs) + 1
      /\ Object \subseteq Object' /\ cur' \in Object'
  BY <1>1, Pointers, AppendProperties DEF TypeOK, HeapTypes, Object
<1>3. HeapTypes'
  <2>1. corpus' \in Seq(Object')
    BY <1>2, SeqMonotonic DEF TypeOK, HeapTypes
  <2> QED
    BY <1>2, <2>1 DEF TypeOK, HeapTypes, Running
<1>4. CallTypes'
  BY DEF TypeOK, CallTypes
<1>5. FlagTypes'
  BY DEF TypeOK, FlagTypes
<1>6. RecordTypes'
  BY DiskLemma DEF TypeOK, RecordTypes
<1>7. OwnObjects'
  BY <1>1, <1>2, DiskLemma, Pointers DEF OwnObjects, Object
<1>8. CallOK' /\ LoopOK'
  BY DEF CallOK, LoopOK
<1> QED
  BY <1>3, <1>4, <1>5, <1>6, <1>7, <1>8 DEF TypeOK

LEMMA RequestHeap ==
    ASSUME HeapInv, NEW g \in Gid, NEW r \in Requests, RequestChunk(g, r)
    PROVE  HeapInv'
<1> USE DEF HeapInv, RequestChunk, heapVars, loopVars, sensorVars, fileVars, runHistory, history
<1>1. /\ CurtailedMax(r) \in Nat /\ CurtailedMin(r) \in Nat
      /\ CurtailedMin(r) <= CurtailedMax(r) /\ CurtailedMax(r) <= MaxChunkLen
      /\ PositiveRequests => CurtailedMin(r) >= 1
  BY InputsAssumption, OptionsAssumption DEF CurtailedMax, CurtailedMin, Least, PositiveRequests
<1>2. /\ call' \in CallType /\ call'.gid = g
      /\ call'.min = CurtailedMin(r) /\ call'.max = CurtailedMax(r)
  BY <1>1, OptionsAssumption DEF CallType
<1>3. /\ DOMAIN idx' = DOMAIN idx \union {g}
      /\ \A h \in DOMAIN idx' : idx'[h] \in 0..MaxChunks
      /\ idx' \in [DOMAIN idx' -> 0..MaxChunks]
  BY OptionsAssumption DEF TypeOK, CallTypes
<1>4. HeapTypes'
  BY DEF TypeOK, HeapTypes, Running, Object
<1>5. CallTypes'
  BY <1>2, <1>3 DEF TypeOK, CallTypes
<1>6. FlagTypes'
  BY DEF TypeOK, FlagTypes
<1>7. RecordTypes'
  BY DEF TypeOK, RecordTypes
<1>8. OwnObjects'
  BY DEF OwnObjects, Running
<1>9. CallOK' /\ LoopOK'
  BY <1>1, <1>2, <1>3 DEF CallOK, LoopOK, Running
<1> QED
  BY <1>4, <1>5, <1>6, <1>7, <1>8, <1>9 DEF TypeOK

-----------------------------------------------------------------------------
(***************************************************************************)
(* GetNextChunk writes one input of the current cluster and nothing else.  *)
(***************************************************************************)
LEMMA CallFacts ==
    ASSUME HeapInv, pc = "chunk"
    PROVE  /\ cur \in Object
           /\ call.gid \in Gid /\ call.min \in Nat /\ call.max \in Nat /\ call.left \in Nat
           /\ call.min <= call.max /\ call.max <= MaxChunkLen
           /\ PositiveRequests => call.min >= 1
           /\ CallIndex \in 0..MaxChunks /\ CallIndex \in Nat
           /\ CallInput \in Input
<1>1. /\ call \in CallType /\ call.gid \in DOMAIN idx
      /\ call.min <= call.max /\ call.max <= MaxChunkLen
      /\ PositiveRequests => call.min >= 1
  BY DEF HeapInv, CallOK
<1>2. call.gid \in Gid /\ CallIndex \in 0..MaxChunks
  BY <1>1 DEF HeapInv, TypeOK, CallTypes, CallType, CallIndex
<1>3. cur \in Object /\ objs[cur] \in Cluster
  BY Pointers DEF Running
<1> QED
  BY <1>1, <1>2, <1>3, OptionsAssumption DEF CallType, CallInput, Cluster

LEMMA SetCallInputLemma ==
    ASSUME HeapInv, pc = "chunk", NEW input \in Input, SetCallInput(input)
    PROVE  /\ objs' \in Seq(Cluster)
           /\ Len(objs') = Len(objs)
           /\ \A o \in Object : \A g \in Gid :
                 objs'[o][g] = IF o = cur /\ g = call.gid THEN input ELSE objs[o][g]
           /\ \A o \in Object : o # cur => objs'[o] = objs[o]
<1> DEFINE new == [objs[cur] EXCEPT ![call.gid] = input]
<1>1. objs[cur] \in Cluster /\ new \in Cluster
  BY CallFacts, Pointers DEF Cluster
<1>2. objs' = [objs EXCEPT ![cur] = new]
  BY DEF SetCallInput
<1>3. objs \in Seq(Cluster) /\ cur \in 1..Len(objs)
  BY CallFacts DEF HeapInv, TypeOK, HeapTypes, Object
<1>4. /\ objs' \in Seq(Cluster)
      /\ Len(objs') = Len(objs)
      /\ \A o \in 1..Len(objs) : objs'[o] = IF o = cur THEN new ELSE objs[o]
  BY <1>1, <1>2, <1>3, ExceptSeq
<1>5. \A g \in Gid : new[g] = IF g = call.gid THEN input ELSE objs[cur][g]
  BY <1>1 DEF Cluster
<1> QED
  BY <1>4, <1>5 DEF Object

(* Expanding and cropping give inputs. *)
LEMMA FittedLemma ==
    ASSUME HeapInv, pc = "chunk", NEW input \in Fitted
    PROVE  input \in Input
<1>1. PICK e \in Expanded : input = Cropped(e)
  BY DEF Fitted
<1>2. e \in Input
  BY CallFacts, InputClosed DEF Expanded
<1> QED
  BY <1>1, <1>2, CallFacts, InputClosed DEF Cropped

(* Whatever a step of GetNextChunk writes, the heap invariant survives. *)
LEMMA WriteHeap ==
    ASSUME HeapInv, pc = "chunk", NEW input \in Input, SetCallInput(input),
           UNCHANGED <<corpus, loopVars, mode, cur, fileVars>>,
           pc' \in {"chunk", "target", "thrown", "aborted"}
    PROVE  HeapTypes' /\ OwnObjects' /\ LoopOK' /\ Object' = Object
<1> USE DEF HeapInv, loopVars, fileVars
<1>1. objs' \in Seq(Cluster) /\ Object' = Object /\ Len(objs') = Len(objs)
  BY SetCallInputLemma DEF Object
<1>2. HeapTypes'
  BY <1>1 DEF TypeOK, HeapTypes, Running, Final
<1>3. OwnObjects'
  BY <1>1 DEF OwnObjects, Running
<1>4. LoopOK'
  BY DEF LoopOK, Running
<1> QED
  BY <1>1, <1>2, <1>3, <1>4

LEMMA MutateHeap == HeapInv /\ Mutate => HeapInv'
<1> SUFFICES ASSUME HeapInv, Mutate PROVE HeapInv'
  OBVIOUS
<1>1. PICK mutated \in ChunksUpTo(MaxChunkLen + 1) :
          SetCallInput(MutateChunk(CallInput, CallIndex, mutated, call.max))
  BY DEF Mutate
<1>2. MutateChunk(CallInput, CallIndex, mutated, call.max) \in Input
  <2>1. mutated \in Chunk
    BY ChunksUpToLemma, OptionsAssumption
  <2> QED
    BY <2>1, CallFacts, InputClosed DEF Mutate
<1>3. HeapTypes' /\ OwnObjects' /\ LoopOK'
  BY <1>1, <1>2, WriteHeap DEF Mutate, runVars
<1>4. /\ call' \in CallType /\ call'.gid = call.gid
      /\ call'.min = call.min /\ call'.max = call.max
  BY CallFacts DEF Mutate, HeapInv, CallOK, CallType
<1>5. CallTypes' /\ CallOK'
  BY <1>4 DEF Mutate, HeapInv, TypeOK, CallTypes, CallOK, runVars
<1>6. FlagTypes'
  BY DEF Mutate, HeapInv, TypeOK, FlagTypes, runVars, sensorVars
<1>7. RecordTypes'
  BY DEF Mutate, HeapInv, TypeOK, RecordTypes, runHistory, history, sensorVars
<1> QED
  BY <1>3, <1>5, <1>6, <1>7 DEF HeapInv, TypeOK

LEMMA DeliverHeap == HeapInv /\ Deliver => HeapInv'
<1> SUFFICES ASSUME HeapInv, Deliver PROVE HeapInv'
  OBVIOUS
<1>1. PICK input \in Fitted :
          /\ SetCallInput(input)
          /\ delivered' = [delivered EXCEPT ![call.gid] = Append(@, InputGet(input, CallIndex))]
  BY DEF Deliver
<1>2. input \in Input
  BY FittedLemma DEF Deliver
<1>3. HeapTypes' /\ OwnObjects' /\ LoopOK'
  BY <1>1, <1>2, WriteHeap DEF Deliver
<1>4. CallTypes' /\ CallOK'
  <2>1. idx' = [idx EXCEPT ![call.gid] = idx[call.gid] + 1] /\ idx[call.gid] + 1 \in 0..MaxChunks
    BY CallFacts, OptionsAssumption DEF Deliver, ChunksLeft, CallIndex
  <2> QED
    BY <2>1 DEF Deliver, HeapInv, TypeOK, CallTypes, CallOK
<1>5. FlagTypes'
  BY DEF Deliver, HeapInv, TypeOK, FlagTypes, sensorVars
<1>6. RecordTypes'
  <2>1. delivered' \in Cluster
    <3>1. call.gid \in Gid /\ InputGet(input, CallIndex) \in Chunk
      BY <1>2, CallFacts, InputGetLemma DEF Deliver
    <3>2. delivered \in [Gid -> Seq(Chunk)]
      BY DEF HeapInv, TypeOK, RecordTypes, Cluster, Input
    <3>3. Append(delivered[call.gid], InputGet(input, CallIndex)) \in Seq(Chunk)
      BY <3>1, <3>2, AppendProperties
    <3> QED
      BY <1>1, <3>1, <3>2, <3>3 DEF Cluster, Input
  <2> QED
    BY <2>1 DEF Deliver, HeapInv, TypeOK, RecordTypes, history, sensorVars
<1> QED
  BY <1>3, <1>4, <1>5, <1>6 DEF HeapInv, TypeOK

LEMMA TooManyChunksHeap == HeapInv /\ TooManyChunks => HeapInv'
<1> SUFFICES ASSUME HeapInv, TooManyChunks PROVE HeapInv'
  OBVIOUS
<1>1. PICK input \in Fitted : SetCallInput(input)
  BY DEF TooManyChunks
<1>2. HeapTypes' /\ OwnObjects' /\ LoopOK'
  BY <1>1, FittedLemma, WriteHeap DEF TooManyChunks
<1>3. CallTypes' /\ CallOK'
  BY DEF TooManyChunks, HeapInv, TypeOK, CallTypes, CallOK
<1>4. FlagTypes'
  BY DEF TooManyChunks, HeapInv, TypeOK, FlagTypes, sensorVars
<1>5. RecordTypes'
  BY DEF TooManyChunks, HeapInv, TypeOK, RecordTypes, runHistory, history, sensorVars
<1> QED
  BY <1>2, <1>3, <1>4, <1>5 DEF HeapInv, TypeOK

LEMMA AbortHeap == HeapInv /\ AbortOutOfBounds => HeapInv'
<1> SUFFICES ASSUME HeapInv, AbortOutOfBounds PROVE HeapInv'
  OBVIOUS
<1>1. PICK input \in Fitted : SetCallInput(input)
  BY DEF AbortOutOfBounds
<1>2. HeapTypes' /\ OwnObjects' /\ LoopOK'
  BY <1>1, FittedLemma, WriteHeap DEF AbortOutOfBounds, runVars
<1>3. CallTypes' /\ CallOK'
  BY DEF AbortOutOfBounds, HeapInv, TypeOK, CallTypes, CallOK, runVars
<1>4. FlagTypes'
  BY DEF AbortOutOfBounds, HeapInv, TypeOK, FlagTypes, runVars, sensorVars
<1>5. RecordTypes'
  BY DEF AbortOutOfBounds, HeapInv, TypeOK, RecordTypes, runHistory, history, sensorVars
<1> QED
  BY <1>2, <1>3, <1>4, <1>5 DEF HeapInv, TypeOK

-----------------------------------------------------------------------------
(***************************************************************************)
(* Steps that leave the heap and the call alone, and the ends of runs.     *)
(***************************************************************************)
heapAndCall == <<heapVars, loopVars, mode, cur, idx, toFree, call>>

LEMMA QuietHeap ==
    ASSUME HeapInv, UNCHANGED heapAndCall,
           pc' \in {"init", "manager"} \union Running \union Final,
           pc' \in Running => pc \in Running, pc' = "chunk" => pc = "chunk",
           pc' = "init" => ~gexec',
           saved' \subseteq Cluster, crashes' \subseteq Cluster, FlagTypes', RecordTypes'
    PROVE  HeapInv'
<1> USE DEF HeapInv, heapAndCall, heapVars, loopVars
<1>1. HeapTypes'
  BY DEF TypeOK, HeapTypes, Object
<1>2. CallTypes' /\ CallOK'
  BY DEF TypeOK, CallTypes, CallOK
<1>3. OwnObjects' /\ LoopOK'
  BY DEF OwnObjects, LoopOK
<1> QED
  BY <1>1, <1>2, <1>3 DEF TypeOK

LEMMA QuietStepsHeap ==
    ASSUME HeapInv,
           \/ ManagerReturn
           \/ ExceptionStep
           \/ \E f \in Feature : Register(f)
           \/ \E b \in BOOLEAN : SetDiscard(b)
           \/ DeathCallback
           \/ RequestInInit
           \/ InitReturns
           \/ UNCHANGED vars
    PROVE  HeapInv'
<1> USE DEF heapAndCall, heapVars, loopVars, runVars, sensorVars, fileVars, runHistory, history
<1>0. /\ HeapTypes /\ FlagTypes /\ RecordTypes
      /\ saved \subseteq Cluster /\ crashes \subseteq Cluster
  BY DEF HeapInv, TypeOK, HeapTypes
<1>1. CASE ManagerReturn
  BY <1>0, <1>1, QuietHeap DEF ManagerReturn, Running, Final, FlagTypes, RecordTypes
<1>2. CASE ExceptionStep
  BY <1>0, <1>2, QuietHeap
     DEF ExceptionStep, CatchException, UncaughtException, Running, Final, FlagTypes, RecordTypes
<1>3. CASE \E f \in Feature : Register(f)
  BY <1>0, <1>3, QuietHeap DEF HeapInv, LoopOK, Register, Running, Final, FlagTypes, RecordTypes
<1>4. CASE \E b \in BOOLEAN : SetDiscard(b)
  BY <1>0, <1>4, QuietHeap DEF SetDiscard, Running, Final, FlagTypes, RecordTypes
<1>5. CASE DeathCallback
  <2>1. crashes' \subseteq Cluster
    <3>1. pc = "target" => objs[cur] \in Cluster
      BY Pointers DEF Running
    <3>0. pc = "init" => ~gexec
      BY DEF HeapInv, LoopOK
    <3>2. CASE gexec /\ haveGenerated /\ pc = "target"
      BY <1>0, <1>5, <3>1, <3>2 DEF DeathCallback
    <3>3. CASE ~(gexec /\ haveGenerated /\ pc = "target")
      BY <1>0, <1>5, <3>0, <3>3 DEF DeathCallback
    <3> QED
      BY <3>2, <3>3
  <2> QED
    BY <1>0, <1>5, <2>1, QuietHeap DEF DeathCallback, Running, Final, FlagTypes, RecordTypes
<1>6. CASE RequestInInit
  BY <1>0, <1>6, QuietHeap DEF RequestInInit, Running, Final, FlagTypes, RecordTypes
<1>7. CASE InitReturns
  BY <1>0, <1>7, QuietHeap DEF InitReturns, Running, Final, FlagTypes, RecordTypes
<1>8. CASE UNCHANGED vars
  BY <1>0, <1>8, QuietHeap DEF HeapInv, LoopOK, vars, HeapTypes, FlagTypes, RecordTypes
<1> QED
  BY <1>1, <1>2, <1>3, <1>4, <1>5, <1>6, <1>7, <1>8

LEMMA RecordLemma ==
    ASSUME HeapInv, NEW kept \in BOOLEAN, Record(kept)
    PROVE  /\ ledger' \in Seq(LedgerEntry) /\ given' \subseteq Feature /\ fresh' \subseteq Feature
           /\ delivered' \in Cluster /\ said' = said
<1>1. [mode |-> mode, delivered |-> delivered, found |-> fresh] \in LedgerEntry
  BY DEF HeapInv, TypeOK, HeapTypes, RecordTypes, LedgerEntry
<1>2. ledger' \in Seq(LedgerEntry)
  BY <1>1, AppendProperties DEF Record, HeapInv, TypeOK, RecordTypes
<1> QED
  BY <1>2 DEF Record, HeapInv, TypeOK, RecordTypes

(* What the end of a run does to everything but the heap. *)
LEMMA FinishRest ==
    ASSUME HeapInv, Finish, NEW kept \in BOOLEAN, Record(kept), pc' = "manager",
           UNCHANGED <<doDiscard, haveGenerated, call, sensorVars>>
    PROVE  CallTypes' /\ CallOK' /\ FlagTypes' /\ RecordTypes'
<1>1. CallTypes' /\ CallOK'
  BY OptionsAssumption DEF HeapInv, TypeOK, CallTypes, CallOK, Finish, NoIndex
<1>2. FlagTypes'
  BY DEF HeapInv, TypeOK, FlagTypes, Finish, sensorVars
<1>3. RecordTypes'
  BY RecordLemma DEF HeapInv, TypeOK, RecordTypes, sensorVars
<1> QED
  BY <1>1, <1>2, <1>3

LEMMA FinishStaticHeap == HeapInv /\ FinishStatic => HeapInv'
<1> SUFFICES ASSUME HeapInv, FinishStatic PROVE HeapInv'
  OBVIOUS
<1> DEFINE HeapPart == /\ objs' \in Seq(Cluster) /\ corpus' \in Seq(Object')
                       /\ Object \subseteq Object'
                       /\ OwnObjects' /\ LoopOK'
<1>0. Interesting \in BOOLEAN
  BY DEF Interesting, HeapInv, TypeOK, FlagTypes
<1>1. nextDisk' \in 1..(DiskSize + 1)
  BY DiskLemma DEF FinishStatic, HeapInv, TypeOK, HeapTypes, LoopOK, Running
<1>2. cur \in Object /\ objs[cur] \in Cluster
  BY Pointers DEF FinishStatic, Running
<1>3. ASSUME Interesting PROVE HeapPart
  <2>1. objs' = Append(objs, objs[cur]) /\ corpus' = Append(corpus, Len(objs) + 1)
    BY <1>3 DEF FinishStatic, PushCopy
  <2>2. /\ objs' \in Seq(Cluster) /\ Len(objs') = Len(objs) + 1 /\ Object \subseteq Object'
        /\ Len(objs) + 1 \in Object'
    BY <1>2, <2>1, Pointers, AppendProperties DEF HeapInv, TypeOK, HeapTypes, Object
  <2>3. corpus \in Seq(Object')
    BY <2>2, SeqMonotonic DEF HeapInv, TypeOK, HeapTypes
  <2>4. /\ corpus' \in Seq(Object') /\ Len(corpus') = Len(corpus) + 1
        /\ \A i \in 1..Len(corpus) : corpus'[i] = corpus[i]
        /\ corpus'[Len(corpus) + 1] = Len(objs) + 1
    BY <2>1, <2>2, <2>3, AppendProperties
  <2>5. OwnObjects'
    <3>1. pc' \notin Running
      BY DEF FinishStatic, Running
    <3>2. ASSUME NEW i \in 1..Len(corpus') PROVE corpus'[i] > DiskSize
      BY <2>4, Pointers, DiskLemma
    <3>3. ASSUME NEW i \in 1..Len(corpus'), NEW j \in 1..Len(corpus'), i # j
          PROVE  corpus'[i] # corpus'[j]
      <4>1. \A k \in 1..Len(corpus) : corpus[k] # Len(objs) + 1
        BY Pointers DEF Object
      <4>2. \A k, l \in 1..Len(corpus) : k # l => corpus[k] # corpus[l]
        BY DEF HeapInv, OwnObjects
      <4>3. i \in 1..Len(corpus) \/ i = Len(corpus) + 1
        BY <2>4, Pointers
      <4>4. j \in 1..Len(corpus) \/ j = Len(corpus) + 1
        BY <2>4, Pointers
      <4> QED
        BY <2>4, <3>3, <4>1, <4>2, <4>3, <4>4
    <3> QED
      BY <3>1, <3>2, <3>3 DEF OwnObjects
  <2>6. LoopOK'
    BY <2>4, Pointers DEF LoopOK, FinishStatic, Running
  <2> QED
    BY <2>2, <2>4, <2>5, <2>6
<1>4. ASSUME ~Interesting PROVE HeapPart
  <2>1. UNCHANGED <<objs, corpus>> /\ pc' = "manager"
    BY <1>4 DEF FinishStatic, heapVars
  <2> QED
    BY <2>1 DEF HeapInv, TypeOK, HeapTypes, OwnObjects, LoopOK, Running, Object
<1>5. HeapPart
  BY <1>3, <1>4
<1>6. HeapTypes'
  BY <1>1, <1>5 DEF HeapInv, TypeOK, HeapTypes, FinishStatic, fileVars
<1>7. CallTypes' /\ CallOK' /\ FlagTypes' /\ RecordTypes'
  BY <1>0, FinishRest DEF FinishStatic
<1> QED
  BY <1>5, <1>6, <1>7 DEF HeapInv, TypeOK

LEMMA FinishDynamicHeap == HeapInv /\ FinishDynamic => HeapInv'
<1> SUFFICES ASSUME HeapInv, FinishDynamic PROVE HeapInv'
  OBVIOUS
<1> DEFINE HeapPart == /\ objs' \in Seq(Cluster) /\ corpus' \in Seq(Object')
                       /\ saved' \subseteq Cluster
                       /\ OwnObjects' /\ LoopOK'
<1>0. Interesting \in BOOLEAN
  BY DEF Interesting, HeapInv, TypeOK, FlagTypes
<1>1. /\ cur = Len(objs) /\ cur \in Object /\ objs[cur] \in Cluster
      /\ \A i \in 1..Len(corpus) : corpus[i] # cur
  BY Pointers DEF HeapInv, OwnObjects, FinishDynamic, Running
<1>2. pc' = "manager" /\ pc' \notin Running
  BY DEF FinishDynamic, Running
<1>3. ASSUME Interesting PROVE HeapPart
  <2>1. corpus' = Append(corpus, cur) /\ objs' = objs /\ Object' = Object
    BY <1>3 DEF FinishDynamic, Object
  <2>2. /\ corpus' \in Seq(Object) /\ Len(corpus') = Len(corpus) + 1
        /\ \A i \in 1..Len(corpus) : corpus'[i] = corpus[i]
        /\ corpus'[Len(corpus) + 1] = cur
    BY <1>1, <2>1, AppendProperties DEF HeapInv, TypeOK, HeapTypes
  <2>3. saved' \subseteq Cluster
    BY <1>1, <1>3 DEF FinishDynamic, WriteNew, HeapInv, TypeOK, HeapTypes
  <2>4. OwnObjects'
    <3>1. ASSUME NEW i \in 1..Len(corpus') PROVE corpus'[i] > DiskSize
      BY <1>1, <2>2, Pointers, DiskLemma
    <3>2. ASSUME NEW i \in 1..Len(corpus'), NEW j \in 1..Len(corpus'), i # j
          PROVE  corpus'[i] # corpus'[j]
      <4>1. \A k, l \in 1..Len(corpus) : k # l => corpus[k] # corpus[l]
        BY DEF HeapInv, OwnObjects
      <4>2. i \in 1..Len(corpus) \/ i = Len(corpus) + 1
        BY <2>2, Pointers
      <4>3. j \in 1..Len(corpus) \/ j = Len(corpus) + 1
        BY <2>2, Pointers
      <4> QED
        BY <1>1, <2>2, <3>2, <4>1, <4>2, <4>3
    <3> QED
      BY <1>2, <3>1, <3>2 DEF OwnObjects
  <2>5. LoopOK'
    BY <1>2, <2>2, Pointers DEF LoopOK
  <2> QED
    BY <2>1, <2>2, <2>3, <2>4, <2>5 DEF HeapInv, TypeOK, HeapTypes
<1>4. ASSUME ~Interesting PROVE HeapPart
  <2>1. objs' = SubSeq(objs, 1, Len(objs) - 1) /\ UNCHANGED <<corpus, saved>>
    BY <1>4 DEF FinishDynamic, DropCurrent
  <2>2. Len(objs) - 1 \in Nat /\ \A i \in 1..(Len(objs) - 1) : objs[i] \in Cluster
    BY Pointers, DiskLemma DEF Object
  <2>3. objs' \in Seq(Cluster) /\ Len(objs') = Len(objs) - 1
    <3>1. /\ SubSeq(objs, 1, Len(objs) - 1) \in Seq(Cluster)
          /\ Len(SubSeq(objs, 1, Len(objs) - 1)) =
                IF 1 <= Len(objs) - 1 THEN Len(objs) - 1 - 1 + 1 ELSE 0
      BY <2>2, SubSeqProperties
    <3>2. Len(objs) - 1 >= 1 /\ Len(objs) - 1 - 1 + 1 = Len(objs) - 1
      BY Pointers, DiskLemma
    <3> QED
      BY <2>1, <3>1, <3>2
  <2>4. corpus' \in Seq(Object')
    <3>1. \A i \in 1..Len(corpus) : corpus[i] \in 1..(Len(objs) - 1)
      BY <1>1, Pointers DEF Object
    <3>2. corpus \in [1..Len(corpus) -> 1..(Len(objs) - 1)]
      BY <3>1, LenProperties DEF HeapInv, TypeOK, HeapTypes
    <3>3. corpus \in Seq(1..(Len(objs) - 1))
      BY <3>2, Pointers, SeqDef
    <3> QED
      BY <2>1, <2>3, <3>3 DEF Object
  <2> QED
    BY <1>2, <2>1, <2>3, <2>4 DEF HeapInv, TypeOK, HeapTypes, OwnObjects, LoopOK
<1>5. HeapPart
  BY <1>3, <1>4
<1>6. HeapTypes'
  BY <1>5 DEF HeapInv, TypeOK, HeapTypes, FinishDynamic, NextRun
<1>7. CallTypes' /\ CallOK' /\ FlagTypes' /\ RecordTypes'
  BY <1>0, FinishRest DEF FinishDynamic
<1> QED
  BY <1>5, <1>6, <1>7 DEF HeapInv, TypeOK

-----------------------------------------------------------------------------
LEMMA HeapStep == HeapInv /\ [Next]_vars => HeapInv'
<1> SUFFICES ASSUME HeapInv, [Next]_vars PROVE HeapInv'
  OBVIOUS
<1>1. CASE ManagerStep
  BY <1>1, StaticRunHeap, DynamicRunHeap, QuietStepsHeap DEF ManagerStep
<1>2. CASE \E g \in Gid, r \in Requests : RequestChunk(g, r)
  BY <1>2, RequestHeap
<1>3. CASE ChunkStep
  BY <1>3, MutateHeap, DeliverHeap, TooManyChunksHeap, AbortHeap DEF ChunkStep
<1>4. CASE TargetReturns
  BY <1>4, FinishStaticHeap, FinishDynamicHeap, QuietStepsHeap DEF TargetReturns
<1>5. CASE \/ ExceptionStep
           \/ \E f \in Feature : Register(f)
           \/ \E b \in BOOLEAN : SetDiscard(b)
           \/ DeathCallback
           \/ RequestInInit
           \/ UNCHANGED vars
  BY <1>5, QuietStepsHeap
<1> QED
  BY <1>1, <1>2, <1>3, <1>4, <1>5 DEF Next, Halted

LEMMA HeapInvariant == Spec => []HeapInv
  BY InitHeap, HeapStep, PTL DEF Spec

(* Every variable keeps its type. *)
THEOREM TypeCorrect == Spec => []TypeOK
<1>1. HeapInv => TypeOK
  BY DEF HeapInv
<1> QED
  BY <1>1, HeapInvariant, PTL

(* The corpus owns its objects: what Push adds and what Pull hands out are *)
(* never shared with a loaded cluster, another entry or the running one.   *)
THEOREM OwnershipHolds == Spec => []OwnObjects
<1>1. HeapInv => OwnObjects
  BY DEF HeapInv
<1> QED
  BY <1>1, HeapInvariant, PTL

-----------------------------------------------------------------------------
(***************************************************************************)
(* The limits of the options.                                              *)
(***************************************************************************)
LimitInv == \A o \in Object : \A g \in Gid : Bounded(objs[o][g], MaxChunks + 1, MaxChunkLen)

LEMMA InitLimit == DiskWithinLimits /\ Init => LimitInv
<1> SUFFICES ASSUME DiskWithinLimits, Init, NEW o \in Object, NEW g \in Gid
             PROVE  Bounded(objs[o][g], MaxChunks + 1, MaxChunkLen)
  BY DEF LimitInv
<1>1. Bounded(EmptyCluster[g], MaxChunks + 1, MaxChunkLen)
  BY OptionsAssumption DEF EmptyCluster, Bounded
<1>2. DiskSize = 1 + Len(DiskFiles) /\ Len(DiskFiles) \in Nat
  BY DiskLemma, InputsAssumption, ConcatProperties, LenProperties DEF DiskSize, DiskObjs
<1>3. /\ DiskObjs[1] = EmptyCluster
      /\ \A k \in 1..Len(DiskFiles) : DiskObjs[k + 1] = DiskFiles[k]
  <2>1. <<EmptyCluster>> \in Seq(Cluster) /\ Len(<<EmptyCluster>>) = 1 /\ <<EmptyCluster>>[1] = EmptyCluster
    BY DiskLemma
  <2>2. \A i \in 1..(1 + Len(DiskFiles)) :
            DiskObjs[i] = IF i <= 1 THEN <<EmptyCluster>>[i] ELSE DiskFiles[i - 1]
    BY <2>1, InputsAssumption, ConcatProperties DEF DiskObjs
  <2> QED
    BY <1>2, <2>1, <2>2
<1>4. /\ Len(objs) = DiskSize + 1
      /\ \A i \in 1..DiskSize : objs[i] = DiskObjs[i]
      /\ objs[DiskSize + 1] = EmptyCluster
  BY DiskLemma, AppendProperties DEF Init, DiskSize
<1>5. CASE o = 1 \/ o = DiskSize + 1
  BY <1>1, <1>3, <1>4, <1>5, DiskLemma
<1>6. CASE o # 1 /\ o # DiskSize + 1
  <2>0. o \in 2..DiskSize
    BY <1>2, <1>4, <1>6 DEF Object
  <2>1. o - 1 \in 1..Len(DiskFiles) /\ (o - 1) + 1 = o /\ o \in 1..DiskSize
    BY <1>2, <2>0
  <2>2. objs[o] = DiskObjs[o] /\ DiskObjs[(o - 1) + 1] = DiskFiles[o - 1]
    BY <1>3, <1>4, <2>1
  <2>3. objs[o] = DiskFiles[o - 1]
    BY <2>1, <2>2
  <2> QED
    BY <2>1, <2>3 DEF DiskWithinLimits, Bounded
<1> QED
  BY <1>5, <1>6

LEMMA FittedBounded ==
    ASSUME HeapInv, LimitInv, pc = "chunk", NEW input \in Fitted
    PROVE  Bounded(input, MaxChunks + 1, MaxChunkLen)
<1> DEFINE n == MaxChunks + 1
<1>0. CallIndex < n /\ n \in Nat /\ MaxChunkLen \in Nat /\ call.min <= MaxChunkLen
  BY CallFacts, OptionsAssumption
<1>1. CallInput \in Input /\ Bounded(CallInput, n, MaxChunkLen)
  BY CallFacts DEF LimitInv, CallInput
<1>2. PICK e \in Expanded : input = Cropped(e)
  BY DEF Fitted
<1>3. e \in Input /\ Bounded(e, n, MaxChunkLen)
  <2>1. CASE call.min > 0
    <3>1. e \in ExpandChunk(CallInput, CallIndex, call.min)
      BY <2>1 DEF Expanded
    <3> QED
      BY <1>0, <1>1, <3>1, CallFacts, InputClosed, InputBounded
  <2>2. CASE ~(call.min > 0)
    BY <1>1, <2>2 DEF Expanded
  <2> QED
    BY <2>1, <2>2
<1>4. Bounded(CropChunk(e, CallIndex, call.max), n, MaxChunkLen)
  BY <1>0, <1>3, CallFacts, InputBounded
<1> QED
  BY <1>2, <1>3, <1>4 DEF Cropped

LEMMA WriteLimit ==
    ASSUME HeapInv, LimitInv, pc = "chunk", NEW input \in Input, SetCallInput(input),
           Bounded(input, MaxChunks + 1, MaxChunkLen)
    PROVE  LimitInv'
<1>1. Object' = Object
  BY SetCallInputLemma DEF Object
<1> QED
  BY <1>1, SetCallInputLemma DEF LimitInv

(* Appending a copy of an object, or dropping the last one, adds nothing new. *)
LEMMA CopyLimit ==
    ASSUME HeapInv, LimitInv, NEW o \in Object, objs' = Append(objs, objs[o])
    PROVE  LimitInv'
<1>1. objs \in Seq(Cluster) /\ objs[o] \in Cluster /\ Len(objs) \in Nat
  BY Pointers DEF HeapInv, TypeOK, HeapTypes
<1>2. /\ Len(objs') = Len(objs) + 1
      /\ \A i \in 1..Len(objs) : objs'[i] = objs[i]
      /\ objs'[Len(objs) + 1] = objs[o]
  BY <1>1, AppendProperties
<1>3. ASSUME NEW i \in Object' PROVE i \in Object \/ i = Len(objs) + 1
  BY <1>1, <1>2 DEF Object
<1> QED
  BY <1>2, <1>3 DEF LimitInv, Object

LEMMA DropLimit ==
    ASSUME HeapInv, LimitInv, DropCurrent
    PROVE  LimitInv'
<1>1. Len(objs) - 1 \in Nat /\ Len(objs) - 1 >= 1
  BY Pointers, DiskLemma
<1>2. \A i \in 1..(Len(objs) - 1) : objs[i] \in Cluster
  BY <1>1, Pointers DEF Object
<1>3. /\ Len(SubSeq(objs, 1, Len(objs) - 1)) =
            IF 1 <= Len(objs) - 1 THEN Len(objs) - 1 - 1 + 1 ELSE 0
      /\ \A i \in 1..(Len(objs) - 1 - 1 + 1) : SubSeq(objs, 1, Len(objs) - 1)[i] = objs[1 + i - 1]
  BY <1>1, <1>2, SubSeqProperties
<1>4. Len(objs') = Len(objs) - 1 /\ \A i \in 1..(Len(objs) - 1) : objs'[i] = objs[i]
  BY <1>1, <1>3 DEF DropCurrent
<1> QED
  BY <1>1, <1>4 DEF LimitInv, Object

LEMMA LimitStep == HeapInv /\ LimitInv /\ [Next]_vars => LimitInv'
<1> SUFFICES ASSUME HeapInv, LimitInv, [Next]_vars PROVE LimitInv'
  OBVIOUS
<1>1. CASE DynamicRun
  BY <1>1, CopyLimit, Pointers DEF DynamicRun, PullCopy
<1>2. CASE Mutate
  <2>1. PICK mutated \in ChunksUpTo(MaxChunkLen + 1) :
            SetCallInput(MutateChunk(CallInput, CallIndex, mutated, call.max))
    BY <1>2 DEF Mutate
  <2>2. pc = "chunk" /\ mutated \in Chunk
    BY <1>2, ChunksUpToLemma, OptionsAssumption DEF Mutate
  <2>3. Bounded(CallInput, MaxChunks + 1, MaxChunkLen)
    BY <2>2, CallFacts DEF LimitInv, CallInput
  <2>4. CallIndex < MaxChunks + 1 /\ MaxChunks + 1 \in Nat /\ MaxChunkLen \in Nat
    BY <2>2, CallFacts, OptionsAssumption
  <2>5. /\ MutateChunk(CallInput, CallIndex, mutated, call.max) \in Input
        /\ Bounded(MutateChunk(CallInput, CallIndex, mutated, call.max), MaxChunks + 1, MaxChunkLen)
    BY <2>2, <2>3, <2>4, CallFacts, InputClosed, InputBounded
  <2> QED
    BY <2>1, <2>2, <2>5, WriteLimit
<1>3. CASE Deliver \/ TooManyChunks \/ AbortOutOfBounds
  <2>1. pc = "chunk" /\ \E input \in Fitted : SetCallInput(input)
    BY <1>3 DEF Deliver, TooManyChunks, AbortOutOfBounds
  <2> QED
    BY <2>1, FittedLemma, FittedBounded, WriteLimit
<1>4. CASE FinishStatic
  <2>1. cur \in Object
    BY <1>4, Pointers DEF FinishStatic, Running
  <2> QED
    BY <1>4, <2>1, CopyLimit DEF FinishStatic, PushCopy, heapVars, LimitInv, Object
<1>5. CASE FinishDynamic
  BY <1>5, DropLimit DEF FinishDynamic, LimitInv, Object
<1>6. CASE UNCHANGED objs
  BY <1>6 DEF LimitInv, Object
<1>7. \/ DynamicRun \/ Mutate \/ Deliver \/ TooManyChunks \/ AbortOutOfBounds
      \/ FinishStatic \/ FinishDynamic \/ UNCHANGED objs
  BY DEF Next, vars, ManagerStep, StaticRun, ManagerReturn, RequestChunk, ChunkStep, ExceptionStep,
         CatchException, UncaughtException, Register, SetDiscard, DeathCallback, RequestInInit,
         TargetReturns, InitReturns, Halted, heapVars
<1> QED
  BY <1>1, <1>2, <1>3, <1>4, <1>5, <1>6, <1>7

LEMMA LimitInvariant == ASSUME DiskWithinLimits PROVE Spec => []LimitInv
<1>1. Init => LimitInv
  BY InitLimit
<1> QED
  BY <1>1, LimitStep, HeapInvariant, PTL DEF Spec

(* No generator ever holds more than max-chunks + 1 chunks, if none of the *)
(* loaded clusters does.                                                   *)
THEOREM ChunkCountBounded == ASSUME DiskWithinLimits PROVE Spec => []ChunkCountBound
<1>1. LimitInv => ChunkCountBound
  BY DEF LimitInv, ChunkCountBound, Bounded
<1> QED
  BY <1>1, LimitInvariant, PTL

(* No chunk is ever longer than max-chunk-len, if no loaded one is: then    *)
(* the assertion after every mutation holds.                                *)
THEOREM ChunkLengthBounded == ASSUME DiskWithinLimits PROVE Spec => []ChunkLengthBound
<1>1. LimitInv => ChunkLengthBound
  BY DEF LimitInv, ChunkLengthBound, Bounded
<1> QED
  BY <1>1, LimitInvariant, PTL
-----------------------------------------------------------------------------
(***************************************************************************)
(* What a run leaves behind: nothing in the executor, and under positive   *)
(* requests a cluster that reproduces it.                                  *)
(***************************************************************************)

AllSteps ==
    \/ StaticRun \/ DynamicRun \/ ManagerReturn
    \/ (\E g \in Gid, r \in Requests : RequestChunk(g, r))
    \/ Mutate \/ Deliver \/ TooManyChunks \/ AbortOutOfBounds
    \/ CatchException \/ UncaughtException
    \/ (\E f \in Feature : Register(f))
    \/ (\E b \in BOOLEAN : SetDiscard(b))
    \/ DeathCallback \/ RequestInInit
    \/ InitReturns \/ FinishStatic \/ FinishDynamic
    \/ UNCHANGED vars

LEMMA StepCases == [Next]_vars => AllSteps
  BY DEF Next, AllSteps, ManagerStep, ChunkStep, ExceptionStep, TargetReturns, Halted

(* Between runs: no index, no buffer, no executor for a hook to find. *)
THEOREM CleanHolds == Spec => []CleanBetweenRuns
<1>1. Init => CleanBetweenRuns
  BY DEF Init, CleanBetweenRuns, Running
<1>2. CleanBetweenRuns /\ [Next]_vars => CleanBetweenRuns'
  <2> SUFFICES ASSUME CleanBetweenRuns, AllSteps PROVE CleanBetweenRuns'
    BY StepCases
  <2> USE DEF CleanBetweenRuns, Running
  <2>1. CASE StaticRun \/ DynamicRun
    BY <2>1 DEF StaticRun, DynamicRun, Prepare
  <2>2. CASE ManagerReturn
    BY <2>2 DEF ManagerReturn, runVars
  <2>3. CASE \E g \in Gid, r \in Requests : RequestChunk(g, r)
    BY <2>3 DEF RequestChunk
  <2>4. CASE Mutate \/ Deliver \/ TooManyChunks \/ AbortOutOfBounds
    BY <2>4 DEF Mutate, Deliver, TooManyChunks, AbortOutOfBounds, runVars
  <2>5. CASE CatchException \/ UncaughtException \/ RequestInInit \/ DeathCallback
    BY <2>5 DEF CatchException, UncaughtException, RequestInInit, DeathCallback, runVars
  <2>6. CASE (\E f \in Feature : Register(f)) \/ (\E b \in BOOLEAN : SetDiscard(b))
    BY <2>6 DEF Register, SetDiscard, runVars
  <2>7. CASE InitReturns
    BY <2>7 DEF InitReturns, runVars
  <2>8. CASE FinishStatic \/ FinishDynamic
    BY <2>8 DEF FinishStatic, FinishDynamic, Finish
  <2>9. CASE UNCHANGED vars
    BY <2>9 DEF vars, runVars
  <2> QED
    BY <2>1, <2>2, <2>3, <2>4, <2>5, <2>6, <2>7, <2>8, <2>9 DEF AllSteps
<1> QED
  BY <1>1, <1>2, PTL DEF Spec

(* A crash leaves a file exactly if the run had taken a chunk. *)
CrashInv == /\ CleanBetweenRuns
            /\ toFree \in Nat
            /\ pc \in Running => crashes = {} /\ (haveGenerated <=> toFree > 0)
            /\ pc \in {"init", "manager"} => crashes = {}
            /\ CrashFileIffConsumed

THEOREM CrashFileHolds == Spec => []CrashFileIffConsumed
<1>1. Init => CrashInv
  BY DEF Init, CrashInv, CleanBetweenRuns, CrashFileIffConsumed, Running
<1>2. CrashInv /\ CleanBetweenRuns' /\ [Next]_vars => CrashInv'
  <2> SUFFICES ASSUME CrashInv, CleanBetweenRuns', AllSteps PROVE CrashInv'
    BY StepCases
  <2> USE DEF CrashInv, CrashFileIffConsumed, CleanBetweenRuns, Running
  <2>1. CASE StaticRun \/ DynamicRun
    BY <2>1 DEF StaticRun, DynamicRun, Prepare, ResetFlags, fileVars
  <2>2. CASE ManagerReturn
    BY <2>2 DEF ManagerReturn, runVars, fileVars
  <2>3. CASE \E g \in Gid, r \in Requests : RequestChunk(g, r)
    BY <2>3 DEF RequestChunk, fileVars
  <2>4. CASE Mutate \/ Deliver \/ TooManyChunks \/ AbortOutOfBounds
    BY <2>4 DEF Mutate, Deliver, TooManyChunks, AbortOutOfBounds, runVars, fileVars
  <2>5. CASE CatchException \/ UncaughtException \/ RequestInInit
    BY <2>5 DEF CatchException, UncaughtException, RequestInInit, runVars, fileVars
  <2>6. CASE DeathCallback
    BY <2>6 DEF DeathCallback, runVars
  <2>7. CASE (\E f \in Feature : Register(f)) \/ (\E b \in BOOLEAN : SetDiscard(b))
    BY <2>7 DEF Register, SetDiscard, runVars, fileVars
  <2>8. CASE InitReturns
    BY <2>8 DEF InitReturns, runVars, fileVars
  <2>9. CASE FinishStatic \/ FinishDynamic
    BY <2>9 DEF FinishStatic, FinishDynamic, Finish, fileVars
  <2>10. CASE UNCHANGED vars
    BY <2>10 DEF vars, runVars, fileVars
  <2> QED
    BY <2>1, <2>2, <2>3, <2>4, <2>5, <2>6, <2>7, <2>8, <2>9, <2>10 DEF AllSteps
<1>3. CrashInv => CrashFileIffConsumed
  BY DEF CrashInv
<1> QED
  BY <1>1, <1>2, <1>3, CleanHolds, PTL DEF Spec

-----------------------------------------------------------------------------
(***************************************************************************)
(* Replay.  The argument is alignment: under positive requests the index   *)
(* GetNextChunk counts never runs ahead of the chunks the input holds, so  *)
(* Input::Set writes where Input::Get will read.                           *)
(***************************************************************************)
(* The cluster starts, for each generator, with the chunks delivered. *)
Holds(cluster, d) == \A g \in Gid : Extends(cluster[g], d[g], Len(d[g]))

ReplayInv ==
    /\ pc \in Running \union {"dead"} => Holds(objs[cur], delivered)
    /\ pc \in Running => \A g \in Gid : Len(delivered[g]) = IF g \in DOMAIN idx THEN idx[g] ELSE 0
    /\ Len(ledger) = Len(corpus)
    /\ \A i \in 1..Len(corpus) : Holds(objs[corpus[i]], ledger[i].delivered)
    /\ pc = "dead" => cur \in Object
    /\ pc # "aborted"

BaseInv == HeapInv /\ CleanBetweenRuns

LEMMA HoldsReproduces ==
    ASSUME NEW cluster \in Cluster, NEW d \in Cluster, Holds(cluster, d)
    PROVE  Reproduces(cluster, d)
<1> SUFFICES ASSUME NEW g \in Gid, NEW i \in 1..Len(d[g])
             PROVE  InputGet(cluster[g], i - 1) = d[g][i]
  BY DEF Reproduces
<1>1. Len(d[g]) \in Nat /\ Len(cluster[g]) \in Nat
  BY LenProperties DEF Cluster, Input
<1> QED
  BY <1>1 DEF Holds, Extends, InputGet

LEMMA HoldsEmpty == ASSUME NEW cluster \in Cluster PROVE Holds(cluster, EmptyCluster)
<1>1. \A g \in Gid : Len(cluster[g]) \in Nat
  BY LenProperties DEF Cluster, Input
<1> QED
  BY <1>1 DEF Holds, Extends, EmptyCluster

LEMMA InitReplay == Init => ReplayInv
<1> SUFFICES ASSUME Init PROVE ReplayInv
  OBVIOUS
<1>1. objs[DiskSize + 1] = EmptyCluster
  BY DiskLemma, AppendProperties DEF Init, DiskSize
<1>2. Len(corpus) = 1 /\ corpus[1] = DiskSize + 1 /\ Len(ledger) = 1
      /\ ledger[1].delivered = EmptyCluster
  BY DEF Init
<1>3. Holds(EmptyCluster, EmptyCluster)
  BY HoldsEmpty, DiskLemma
<1>4. \A i \in 1..Len(corpus) : Holds(objs[corpus[i]], ledger[i].delivered)
  BY <1>1, <1>2, <1>3
<1> QED
  BY <1>2, <1>4 DEF Init, ReplayInv, Running

(* The index of the chunk requested is at most one past the end. *)
LEMMA Aligned ==
    ASSUME BaseInv, ReplayInv, pc = "chunk"
    PROVE  /\ CallIndex \in 0..Len(CallInput) /\ CallInput \in Input
           /\ Len(delivered[call.gid]) = CallIndex
           /\ delivered[call.gid] \in Input
           /\ \A j \in 1..CallIndex : CallInput[j] = delivered[call.gid][j]
<1>0. HeapInv /\ call.gid \in Gid /\ call.gid \in DOMAIN idx /\ CallIndex \in Nat /\ CallInput \in Input
  BY CallFacts DEF BaseInv, HeapInv, CallOK
<1>1. Holds(objs[cur], delivered) /\ Len(delivered[call.gid]) = CallIndex
  BY <1>0 DEF ReplayInv, Running, CallIndex
<1>2. delivered[call.gid] \in Input
  BY <1>0 DEF HeapInv, TypeOK, RecordTypes, Cluster
<1>3. Len(CallInput) \in Nat
  BY <1>0, LenProperties DEF Input
<1> QED
  BY <1>0, <1>1, <1>2, <1>3 DEF Holds, Extends, CallInput

(* What expanding and cropping make of it, when requests are positive. *)
LEMMA FittedInPlace ==
    ASSUME PositiveRequests, BaseInv, ReplayInv, pc = "chunk", NEW input \in Fitted
    PROVE  /\ input \in Input
           /\ Extends(input, CallInput, CallIndex)
           /\ InBounds(InputGet(input, CallIndex))
           /\ CallIndex < Len(input)
           /\ InputGet(input, CallIndex) = input[CallIndex + 1]
<1>0. /\ HeapInv /\ call.min \in Nat /\ call.max \in Nat /\ call.min <= call.max /\ call.min >= 1
  BY CallFacts DEF BaseInv
<1>1. PICK e \in ExpandChunk(CallInput, CallIndex, call.min) :
          input = CropChunk(e, CallIndex, call.max)
  BY <1>0 DEF Fitted, Expanded, Cropped
<1>2. /\ Extends(input, CallInput, CallIndex)
      /\ Len(InputGet(input, CallIndex)) >= call.min /\ Len(InputGet(input, CallIndex)) <= call.max
  BY <1>0, <1>1, Aligned, FitInPlace
<1>3. input \in Input
  BY <1>0, FittedLemma
<1>4. CallIndex < Len(input)
  <2>1. SUFFICES ASSUME ~(CallIndex < Len(input)) PROVE FALSE
    OBVIOUS
  <2>2. Len(InputGet(input, CallIndex)) = 0
    BY <2>1, EmptySeq DEF InputGet, EmptyChunk
  <2> QED
    BY <1>0, <1>2, <2>2
<1> QED
  BY <1>2, <1>3, <1>4 DEF InBounds, InputGet

(* A write that extends the chunks delivered so far keeps the books. *)
LEMMA WriteReplay ==
    ASSUME BaseInv, ReplayInv, pc = "chunk", NEW input \in Input, SetCallInput(input),
           Extends(input, CallInput, CallIndex), UNCHANGED <<corpus, cur, ledger>>
    PROVE  /\ Holds(objs'[cur'], delivered)
           /\ Len(ledger') = Len(corpus')
           /\ \A i \in 1..Len(corpus') : Holds(objs'[corpus'[i]], ledger'[i].delivered)
<1>0. /\ HeapInv /\ cur \in Object /\ cur' = cur
      /\ \A g \in Gid : objs'[cur][g] = IF g = call.gid THEN input ELSE objs[cur][g]
      /\ \A o \in Object : o # cur => objs'[o] = objs[o]
  BY CallFacts, SetCallInputLemma DEF BaseInv
<1>1. ASSUME NEW g \in Gid PROVE Extends(objs'[cur][g], delivered[g], Len(delivered[g]))
  <2>1. Extends(objs[cur][g], delivered[g], Len(delivered[g]))
    BY DEF ReplayInv, Running, Holds
  <2>2. CASE g = call.gid
    <3>1. Len(input) \in Nat /\ Len(CallInput) \in Nat
      BY Aligned, LenProperties DEF Input
    <3> QED
      BY <1>0, <2>1, <2>2, <3>1, Aligned DEF Extends, CallInput
  <2>3. CASE g # call.gid
    BY <1>0, <2>1, <2>3
  <2> QED
    BY <2>2, <2>3
<1>2. \A i \in 1..Len(corpus) : corpus[i] \in Object /\ corpus[i] # cur
  BY <1>0, Pointers DEF HeapInv, OwnObjects, Running
<1>3. \A i \in 1..Len(corpus') : Holds(objs'[corpus'[i]], ledger'[i].delivered)
  BY <1>0, <1>2 DEF ReplayInv
<1> QED
  BY <1>0, <1>1, <1>3 DEF Holds, ReplayInv

LEMMA MutateReplay == BaseInv /\ ReplayInv /\ Mutate => ReplayInv'
<1> SUFFICES ASSUME BaseInv, ReplayInv, Mutate PROVE ReplayInv'
  OBVIOUS
<1>1. PICK mutated \in ChunksUpTo(MaxChunkLen + 1) :
          SetCallInput(MutateChunk(CallInput, CallIndex, mutated, call.max))
  BY DEF Mutate
<1>2. HeapInv /\ pc = "chunk" /\ mutated \in Chunk
  BY ChunksUpToLemma, OptionsAssumption DEF Mutate, BaseInv
<1>3. PICK chunk \in Chunk :
          MutateChunk(CallInput, CallIndex, mutated, call.max) = InputSet(CallInput, CallIndex, chunk)
  BY <1>2, CallFacts, MutateLemma
<1>4. /\ InputSet(CallInput, CallIndex, chunk) \in Input
      /\ Extends(InputSet(CallInput, CallIndex, chunk), CallInput, CallIndex)
  BY <1>2, Aligned, CallFacts, InputSetLemma, InputSetInPlace
<1>5. /\ Holds(objs'[cur'], delivered)
      /\ Len(ledger') = Len(corpus')
      /\ \A i \in 1..Len(corpus') : Holds(objs'[corpus'[i]], ledger'[i].delivered)
  BY <1>1, <1>2, <1>3, <1>4, WriteReplay DEF Mutate, runVars, history
<1> QED
  BY <1>5 DEF Mutate, ReplayInv, runVars, runHistory, Running

LEMMA DeliverReplay ==
    ASSUME PositiveRequests, BaseInv, ReplayInv, Deliver
    PROVE  ReplayInv'
<1>1. PICK input \in Fitted :
          /\ SetCallInput(input)
          /\ delivered' = [delivered EXCEPT ![call.gid] = Append(@, InputGet(input, CallIndex))]
  BY DEF Deliver
<1>2. HeapInv /\ pc = "chunk" /\ call.gid \in Gid /\ call.gid \in DOMAIN idx
  BY CallFacts DEF Deliver, BaseInv, HeapInv, CallOK
<1>3. /\ input \in Input /\ Extends(input, CallInput, CallIndex)
      /\ CallIndex < Len(input) /\ InputGet(input, CallIndex) = input[CallIndex + 1]
      /\ InputGet(input, CallIndex) \in Chunk
  BY <1>2, FittedInPlace, CallFacts, InputGetLemma
<1>4. /\ Holds(objs'[cur'], delivered)
      /\ Len(ledger') = Len(corpus')
      /\ \A i \in 1..Len(corpus') : Holds(objs'[corpus'[i]], ledger'[i].delivered)
  BY <1>1, <1>2, <1>3, WriteReplay DEF Deliver, history
<1>5. /\ delivered \in [Gid -> Seq(Chunk)]
      /\ delivered'[call.gid] = Append(delivered[call.gid], input[CallIndex + 1])
      /\ \A g \in Gid : g # call.gid => delivered'[g] = delivered[g]
  BY <1>1, <1>2, <1>3 DEF HeapInv, TypeOK, RecordTypes, Cluster, Input
<1>6. /\ Len(delivered'[call.gid]) = CallIndex + 1
      /\ \A j \in 1..CallIndex : delivered'[call.gid][j] = delivered[call.gid][j]
      /\ delivered'[call.gid][CallIndex + 1] = input[CallIndex + 1]
  <2>1. Len(delivered[call.gid]) = CallIndex
    BY <1>2, Aligned
  <2> QED
    BY <1>2, <1>3, <1>5, <2>1, AppendProperties
<1>7. objs'[cur'][call.gid] = input
  BY <1>1, <1>2, <1>3, SetCallInputLemma, Pointers DEF Running, Deliver
<1>8. Holds(objs'[cur'], delivered')
  <2>1. ASSUME NEW g \in Gid, g # call.gid
        PROVE  Extends(objs'[cur'][g], delivered'[g], Len(delivered'[g]))
    BY <1>4, <1>5, <2>1 DEF Holds
  <2>2. Extends(objs'[cur'][call.gid], delivered'[call.gid], Len(delivered'[call.gid]))
    <3>1. \A j \in 1..CallIndex : input[j] = delivered[call.gid][j]
      BY <1>2, <1>3, Aligned DEF Extends
    <3>2. CallIndex \in Nat /\ Len(input) \in Nat
      BY <1>2, <1>3, CallFacts, LenProperties DEF Input
    <3>3. \A j \in 1..(CallIndex + 1) : input[j] = delivered'[call.gid][j]
      <4> SUFFICES ASSUME NEW j \in 1..(CallIndex + 1) PROVE input[j] = delivered'[call.gid][j]
        OBVIOUS
      <4>1. j \in 1..CallIndex \/ j = CallIndex + 1
        BY <3>2
      <4> QED
        BY <1>6, <3>1, <4>1
    <3> QED
      BY <1>3, <1>6, <1>7, <3>2, <3>3 DEF Extends
  <2> QED
    BY <2>1, <2>2 DEF Holds
<1>9. \A g \in Gid : Len(delivered'[g]) = IF g \in DOMAIN idx' THEN idx'[g] ELSE 0
  <2>1. idx' = [idx EXCEPT ![call.gid] = idx[call.gid] + 1]
    BY DEF Deliver
  <2>2. \A g \in Gid : Len(delivered[g]) = IF g \in DOMAIN idx THEN idx[g] ELSE 0
    BY <1>2 DEF ReplayInv, Running
  <2>3. ASSUME NEW g \in Gid, g # call.gid
        PROVE  Len(delivered'[g]) = IF g \in DOMAIN idx' THEN idx'[g] ELSE 0
    BY <1>5, <2>1, <2>2, <2>3
  <2>4. call.gid \in DOMAIN idx' /\ idx'[call.gid] = CallIndex + 1
    BY <1>2, <2>1 DEF CallIndex
  <2> QED
    BY <1>6, <2>3, <2>4
<1>10. pc' = "target"
  BY DEF Deliver
<1> QED
  BY <1>4, <1>8, <1>9, <1>10 DEF ReplayInv

LEMMA TooManyReplay ==
    ASSUME PositiveRequests, BaseInv, ReplayInv, TooManyChunks
    PROVE  ReplayInv'
<1>1. PICK input \in Fitted : SetCallInput(input)
  BY DEF TooManyChunks
<1>2. pc = "chunk" /\ input \in Input /\ Extends(input, CallInput, CallIndex)
  BY FittedInPlace DEF TooManyChunks
<1>3. /\ Holds(objs'[cur'], delivered)
      /\ Len(ledger') = Len(corpus')
      /\ \A i \in 1..Len(corpus') : Holds(objs'[corpus'[i]], ledger'[i].delivered)
  BY <1>1, <1>2, WriteReplay DEF TooManyChunks, history
<1> QED
  BY <1>2, <1>3 DEF TooManyChunks, ReplayInv, runHistory, Running

LEMMA NoAbort == PositiveRequests /\ BaseInv /\ ReplayInv => ~AbortOutOfBounds
  BY FittedInPlace DEF AbortOutOfBounds

(* A new run starts from an empty record. *)
LEMMA StartReplay ==
    ASSUME BaseInv, ReplayInv, StaticRun \/ DynamicRun
    PROVE  ReplayInv'
<1>1. /\ pc' = "target" /\ delivered' = EmptyCluster /\ idx' = NoIndex
      /\ UNCHANGED <<corpus, ledger>>
  BY DEF StaticRun, DynamicRun, Prepare, heapVars, history, BaseInv, CleanBetweenRuns
<1>2. /\ cur' \in 1..Len(objs') /\ objs'[cur'] \in Cluster
      /\ \A o \in Object : objs'[o] = objs[o]
  <2>1. HeapInv /\ HeapInv'
    BY StaticRunHeap, DynamicRunHeap DEF BaseInv
  <2>2. \A o \in Object : objs'[o] = objs[o]
    <3>1. CASE StaticRun
      BY <3>1 DEF StaticRun, heapVars
    <3>2. CASE DynamicRun
      <4>1. PICK i \in 1..Len(corpus) : objs' = Append(objs, objs[corpus[i]])
        BY <3>2 DEF DynamicRun, PullCopy
      <4> QED
        BY <2>1, <4>1, Pointers, AppendProperties DEF HeapInv, TypeOK, HeapTypes, Object
    <3> QED
      BY <3>1, <3>2
  <2>3. cur' \in Object'
    <3>1. CASE StaticRun
      BY <2>1, <3>1, DiskLemma, Pointers DEF StaticRun, StaticLeft, HeapInv, TypeOK, HeapTypes, Object, heapVars
    <3>2. CASE DynamicRun
      BY <2>1, <3>2, Pointers, AppendProperties
         DEF DynamicRun, PullCopy, HeapInv, TypeOK, HeapTypes, Object
    <3> QED
      BY <3>1, <3>2
  <2>4. objs' \in Seq(Cluster)
    BY <2>1 DEF HeapInv, TypeOK, HeapTypes
  <2> QED
    BY <2>2, <2>3, <2>4, ElementOfSeq DEF Object
<1>3. Holds(objs'[cur'], delivered')
  BY <1>1, <1>2, HoldsEmpty
<1>4. \A i \in 1..Len(corpus) : corpus[i] \in Object
  BY Pointers DEF BaseInv
<1>5. \A i \in 1..Len(corpus') : Holds(objs'[corpus'[i]], ledger'[i].delivered)
  BY <1>1, <1>2, <1>4 DEF ReplayInv
<1>6. \A g \in Gid : Len(delivered'[g]) = 0 /\ g \notin DOMAIN idx'
  BY <1>1 DEF EmptyCluster, NoIndex
<1> QED
  BY <1>1, <1>3, <1>5, <1>6 DEF ReplayInv

(* A run ends: the record of what it was given joins the ledger exactly if *)
(* its cluster joins the corpus.                                           *)
LEMMA FinishStaticReplay ==
    ASSUME BaseInv, ReplayInv, FinishStatic
    PROVE  ReplayInv'
<1>0. /\ HeapInv /\ cur \in Object /\ objs[cur] \in Cluster /\ pc' = "manager"
      /\ Holds(objs[cur], delivered)
      /\ \A i \in 1..Len(corpus) : corpus[i] \in Object
  BY Pointers DEF BaseInv, ReplayInv, FinishStatic, Running
<1>1. CASE Interesting
  <2>1. /\ objs' = Append(objs, objs[cur]) /\ corpus' = Append(corpus, Len(objs) + 1)
        /\ ledger' = Append(ledger, [mode |-> mode, delivered |-> delivered, found |-> fresh])
    BY <1>1 DEF FinishStatic, PushCopy, Record
  <2>2. /\ \A o \in Object : objs'[o] = objs[o]
        /\ objs'[Len(objs) + 1] = objs[cur]
    BY <1>0, <2>1, AppendProperties DEF HeapInv, TypeOK, HeapTypes, Object
  <2>3. /\ Len(corpus') = Len(corpus) + 1
        /\ \A i \in 1..Len(corpus) : corpus'[i] = corpus[i]
        /\ corpus'[Len(corpus) + 1] = Len(objs) + 1
    BY <2>1, <1>0, AppendProperties DEF HeapInv, TypeOK, HeapTypes
  <2>4. /\ Len(ledger') = Len(ledger) + 1
        /\ \A i \in 1..Len(ledger) : ledger'[i] = ledger[i]
        /\ ledger'[Len(ledger) + 1].delivered = delivered
    BY <2>1, <1>0, AppendProperties DEF HeapInv, TypeOK, RecordTypes
  <2>5. Len(ledger) = Len(corpus) /\ Len(corpus) \in Nat
    BY <1>0, Pointers DEF ReplayInv
  <2>6. ASSUME NEW i \in 1..Len(corpus') PROVE Holds(objs'[corpus'[i]], ledger'[i].delivered)
    <3>1. CASE i \in 1..Len(corpus)
      BY <1>0, <2>2, <2>3, <2>4, <2>5, <3>1 DEF ReplayInv
    <3>2. CASE i = Len(corpus) + 1
      BY <1>0, <2>2, <2>3, <2>4, <2>5, <3>2
    <3> QED
      BY <2>3, <2>5, <3>1, <3>2
  <2> QED
    BY <1>0, <2>3, <2>4, <2>5, <2>6 DEF ReplayInv, Running
<1>2. CASE ~Interesting
  BY <1>0, <1>2 DEF FinishStatic, Record, heapVars, ReplayInv, Running
<1> QED
  BY <1>1, <1>2

LEMMA FinishDynamicReplay ==
    ASSUME BaseInv, ReplayInv, FinishDynamic
    PROVE  ReplayInv'
<1>0. /\ HeapInv /\ cur \in Object /\ cur = Len(objs) /\ pc' = "manager"
      /\ Holds(objs[cur], delivered)
      /\ \A i \in 1..Len(corpus) : corpus[i] \in Object /\ corpus[i] # cur
  BY Pointers DEF BaseInv, HeapInv, OwnObjects, ReplayInv, FinishDynamic, Running
<1>1. CASE Interesting
  <2>1. /\ objs' = objs /\ corpus' = Append(corpus, cur)
        /\ ledger' = Append(ledger, [mode |-> mode, delivered |-> delivered, found |-> fresh])
    BY <1>1 DEF FinishDynamic, Record
  <2>2. /\ Len(corpus') = Len(corpus) + 1
        /\ \A i \in 1..Len(corpus) : corpus'[i] = corpus[i]
        /\ corpus'[Len(corpus) + 1] = cur
    BY <2>1, <1>0, AppendProperties DEF HeapInv, TypeOK, HeapTypes
  <2>3. /\ Len(ledger') = Len(ledger) + 1
        /\ \A i \in 1..Len(ledger) : ledger'[i] = ledger[i]
        /\ ledger'[Len(ledger) + 1].delivered = delivered
    BY <2>1, <1>0, AppendProperties DEF HeapInv, TypeOK, RecordTypes
  <2>4. Len(ledger) = Len(corpus) /\ Len(corpus) \in Nat
    BY <1>0, Pointers DEF ReplayInv
  <2>5. ASSUME NEW i \in 1..Len(corpus') PROVE Holds(objs'[corpus'[i]], ledger'[i].delivered)
    <3>1. CASE i \in 1..Len(corpus)
      BY <2>1, <2>2, <2>3, <2>4, <3>1 DEF ReplayInv
    <3>2. CASE i = Len(corpus) + 1
      BY <1>0, <2>1, <2>2, <2>3, <2>4, <3>2
    <3> QED
      BY <2>2, <2>4, <3>1, <3>2
  <2> QED
    BY <1>0, <2>2, <2>3, <2>4, <2>5 DEF ReplayInv, Running
<1>2. CASE ~Interesting
  <2>1. DropCurrent /\ UNCHANGED <<corpus, ledger>>
    BY <1>2 DEF FinishDynamic, Record
  <2>2. \A i \in 1..Len(corpus) : objs'[corpus[i]] = objs[corpus[i]]
    <3>1. Len(objs) - 1 \in Nat /\ Len(objs) - 1 >= 1
      BY <1>0, Pointers, DiskLemma
    <3>2. \A i \in 1..(Len(objs) - 1) : objs[i] \in Cluster
      BY <1>0, <3>1, Pointers DEF Object
    <3>3. \A i \in 1..(Len(objs) - 1 - 1 + 1) : SubSeq(objs, 1, Len(objs) - 1)[i] = objs[1 + i - 1]
      BY <3>1, <3>2, SubSeqProperties
    <3>4. \A o \in 1..(Len(objs) - 1) : objs'[o] = objs[o]
      BY <2>1, <3>1, <3>3 DEF DropCurrent
    <3>5. \A i \in 1..Len(corpus) : corpus[i] \in 1..(Len(objs) - 1)
      BY <1>0, <3>1 DEF Object
    <3> QED
      BY <3>4, <3>5
  <2> QED
    BY <1>0, <2>1, <2>2 DEF ReplayInv, Running
<1> QED
  BY <1>1, <1>2

(* Every other step leaves the clusters and the record alone. *)
LEMMA QuietReplay ==
    ASSUME BaseInv, ReplayInv, UNCHANGED <<objs, corpus, cur, delivered, ledger>>,
           pc' \in Running \union {"dead"} => pc \in Running \union {"dead"},
           pc' \in Running => pc \in Running /\ UNCHANGED idx,
           pc' # "aborted"
    PROVE  ReplayInv'
<1>1. pc \in Running => cur \in Object
  BY Pointers DEF BaseInv
<1> QED
  BY <1>1 DEF ReplayInv, Object

LEMMA RequestReplay ==
    ASSUME BaseInv, ReplayInv, NEW g \in Gid, NEW r \in Requests, RequestChunk(g, r)
    PROVE  ReplayInv'
<1>1. \A h \in Gid : Len(delivered[h]) = IF h \in DOMAIN idx THEN idx[h] ELSE 0
  BY DEF ReplayInv, RequestChunk, Running
<1>2. \A h \in Gid : Len(delivered'[h]) = IF h \in DOMAIN idx' THEN idx'[h] ELSE 0
  BY <1>1 DEF RequestChunk, runHistory
<1> QED
  BY <1>2 DEF RequestChunk, heapVars, runHistory, history, ReplayInv, Running

LEMMA ReplayStep ==
    ASSUME PositiveRequests, BaseInv, ReplayInv, [Next]_vars
    PROVE  ReplayInv'
<1>0. AllSteps
  BY StepCases
<1> USE DEF heapVars, loopVars, runVars, runHistory, history, Running
<1>1. CASE StaticRun \/ DynamicRun
  BY <1>1, StartReplay
<1>2. CASE \E g \in Gid, r \in Requests : RequestChunk(g, r)
  BY <1>2, RequestReplay
<1>3. CASE Mutate \/ Deliver \/ TooManyChunks \/ AbortOutOfBounds
  BY <1>3, MutateReplay, DeliverReplay, TooManyReplay, NoAbort
<1>4. CASE FinishStatic \/ FinishDynamic
  BY <1>4, FinishStaticReplay, FinishDynamicReplay
<1>5. CASE ManagerReturn \/ CatchException \/ UncaughtException \/ RequestInInit \/ InitReturns
  BY <1>5, QuietReplay
     DEF ManagerReturn, CatchException, UncaughtException, RequestInInit, InitReturns
<1>6. CASE DeathCallback
  BY <1>6, QuietReplay DEF DeathCallback, BaseInv, HeapInv, LoopOK
<1>7. CASE (\E f \in Feature : Register(f)) \/ (\E b \in BOOLEAN : SetDiscard(b))
  BY <1>7, QuietReplay DEF Register, SetDiscard
<1>8. CASE UNCHANGED vars
  BY <1>8, QuietReplay DEF vars, ReplayInv
<1> QED
  BY <1>0, <1>1, <1>2, <1>3, <1>4, <1>5, <1>6, <1>7, <1>8 DEF AllSteps

LEMMA BaseInvariant == Spec => []BaseInv
<1>1. HeapInv /\ CleanBetweenRuns => BaseInv
  BY DEF BaseInv
<1> QED
  BY <1>1, HeapInvariant, CleanHolds, PTL

LEMMA ReplayInvariant == ASSUME PositiveRequests PROVE Spec => []ReplayInv
<1>1. BaseInv /\ ReplayInv /\ [Next]_vars => ReplayInv'
  BY ReplayStep
<1> QED
  BY <1>1, InitReplay, BaseInvariant, PTL DEF Spec

(* Every cluster that is kept, being run or left in a crash file reproduces *)
(* what its run delivered, if every request asks for at least one byte.     *)
THEOREM ReproducibleHolds == ASSUME PositiveRequests PROVE Spec => []Reproducible
<1>1. BaseInv /\ ReplayInv => Reproducible
  <2> SUFFICES ASSUME BaseInv, ReplayInv PROVE Reproducible
    OBVIOUS
  <2>1. /\ delivered \in Cluster /\ ledger \in Seq(LedgerEntry)
        /\ Len(ledger) = Len(corpus)
    BY DEF BaseInv, HeapInv, TypeOK, RecordTypes, ReplayInv
  <2>2. ASSUME NEW i \in 1..Len(corpus) PROVE Reproduces(objs[corpus[i]], ledger[i].delivered)
    <3>1. ledger[i] \in LedgerEntry
      BY <2>1, ElementOfSeq
    <3>2. objs[corpus[i]] \in Cluster /\ ledger[i].delivered \in Cluster
      BY <3>1, Pointers DEF BaseInv, LedgerEntry
    <3> QED
      BY <3>2, HoldsReproduces DEF ReplayInv
  <2>3. ASSUME pc \in Running \union {"dead"} PROVE Reproduces(objs[cur], delivered)
    <3>1. objs[cur] \in Cluster
      BY <2>3, Pointers DEF BaseInv, ReplayInv
    <3> QED
      BY <2>1, <2>3, <3>1, HoldsReproduces DEF ReplayInv
  <2> QED
    BY <2>2, <2>3 DEF Reproducible
<1> QED
  BY <1>1, BaseInvariant, ReplayInvariant, PTL

(* The abort() after the bounds check is never reached, under the same      *)
(* condition.                                                               *)
THEOREM NeverAborts == ASSUME PositiveRequests PROVE Spec => []ChunkWithinBounds
<1>1. ReplayInv => ChunkWithinBounds
  BY DEF ReplayInv, ChunkWithinBounds
<1> QED
  BY <1>1, ReplayInvariant, PTL

(* A mutation changes the chunk it is about and no other, under the same    *)
(* condition.                                                               *)
THEOREM MutatesOnlyThatChunk == ASSUME PositiveRequests PROVE Spec => MutatesThatChunk
<1> DEFINE Only == Mutate => \A i \in 0..MaxChunks : i # CallIndex =>
                                 InputGet(objs'[cur][call.gid], i) = InputGet(CallInput, i)
<1>1. BaseInv /\ ReplayInv /\ [Next]_vars => [Only]_vars
  <2> SUFFICES ASSUME BaseInv, ReplayInv, Mutate, NEW i \in 0..MaxChunks, i # CallIndex
               PROVE  InputGet(objs'[cur][call.gid], i) = InputGet(CallInput, i)
    OBVIOUS
  <2>1. PICK mutated \in ChunksUpTo(MaxChunkLen + 1) :
            SetCallInput(MutateChunk(CallInput, CallIndex, mutated, call.max))
    BY DEF Mutate
  <2>2. HeapInv /\ pc = "chunk" /\ mutated \in Chunk /\ i \in Nat
    BY ChunksUpToLemma, OptionsAssumption DEF Mutate, BaseInv
  <2>3. PICK chunk \in Chunk :
            MutateChunk(CallInput, CallIndex, mutated, call.max) = InputSet(CallInput, CallIndex, chunk)
    BY <2>2, CallFacts, MutateLemma
  <2>4. InputSet(CallInput, CallIndex, chunk) \in Input
    BY <2>2, CallFacts, InputSetLemma
  <2>5. objs'[cur][call.gid] = InputSet(CallInput, CallIndex, chunk)
    BY <2>1, <2>2, <2>3, <2>4, CallFacts, SetCallInputLemma
  <2> QED
    BY <2>2, <2>5, Aligned, InputSetInPlace
<1>2. Spec => [][Only]_vars
  BY <1>1, BaseInvariant, ReplayInvariant, PTL DEF Spec
<1> QED
  BY <1>2 DEF MutatesThatChunk
-----------------------------------------------------------------------------
(***************************************************************************)
(* Executor implements Campaign: every step of the engine is a step of the *)
(* campaign, or none.  So the accounts of the campaign are the engine's,   *)
(* and the files agree with them.                                          *)
(***************************************************************************)

(* The flags of the executor and the driver say what the history says.     *)
AccountInv ==
    /\ Len(ledger) = Len(corpus)
    /\ pc \in {"manager", "done"} => fresh = {}
    /\ pc = "init" => said = "init"
    /\ pc \in Running => /\ said # "init"
                         /\ doDiscard <=> said = "discard"
                         /\ increase <=> fresh # {}

LEMMA InitAccount == Init => AccountInv
  BY DEF Init, AccountInv, Running

(* What the end of a run does to the record. *)
LEMMA RecordAccount ==
    ASSUME BaseInv, AccountInv, FinishStatic \/ FinishDynamic
    PROVE  /\ pc \in Running /\ pc' = "manager" /\ fresh' = {} /\ said' = said /\ seen' = seen
           /\ Interesting => /\ Len(corpus') = Len(corpus) + 1
                             /\ Len(ledger') = Len(corpus) + 1
                             /\ \A i \in 1..Len(corpus) : /\ corpus'[i] = corpus[i]
                                                          /\ ledger'[i] = ledger[i]
                             /\ ledger'[Len(corpus) + 1].found = fresh
           /\ ~Interesting => UNCHANGED <<corpus, ledger>>
           /\ Interesting => ~doDiscard /\ fresh # {}
           /\ ~Interesting => doDiscard \/ fresh = {}
<1>1. /\ pc \in Running /\ pc' = "manager" /\ fresh' = {} /\ said' = said /\ seen' = seen
      /\ Record(Interesting)
  BY DEF FinishStatic, FinishDynamic, Record, Running, sensorVars
<1>2. /\ corpus \in Seq(Object) /\ ledger \in Seq(LedgerEntry) /\ Len(corpus) \in Nat
      /\ Len(ledger) = Len(corpus)
  BY Pointers DEF BaseInv, HeapInv, TypeOK, HeapTypes, RecordTypes, AccountInv
<1>3. ASSUME Interesting
      PROVE  /\ Len(corpus') = Len(corpus) + 1
             /\ Len(ledger') = Len(corpus) + 1
             /\ \A i \in 1..Len(corpus) : /\ corpus'[i] = corpus[i]
                                          /\ ledger'[i] = ledger[i]
             /\ ledger'[Len(corpus) + 1].found = fresh
  <2>1. ledger' = Append(ledger, [mode |-> mode, delivered |-> delivered, found |-> fresh])
    BY <1>1, <1>3 DEF Record
  <2>2. \E o : corpus' = Append(corpus, o)
    BY <1>3 DEF FinishStatic, FinishDynamic, PushCopy
  <2>3. /\ Len(ledger') = Len(corpus) + 1
        /\ \A i \in 1..Len(corpus) : ledger'[i] = ledger[i]
        /\ ledger'[Len(corpus) + 1].found = fresh
    BY <1>2, <2>1, AppendProperties
  <2>4. /\ Len(corpus') = Len(corpus) + 1
        /\ \A i \in 1..Len(corpus) : corpus'[i] = corpus[i]
    BY <1>2, <2>2
  <2> QED
    BY <2>3, <2>4
<1>4. ~Interesting => UNCHANGED <<corpus, ledger>>
  BY <1>1 DEF FinishStatic, FinishDynamic, Record, heapVars
<1>5. /\ Interesting => ~doDiscard /\ fresh # {}
      /\ ~Interesting => doDiscard \/ fresh = {}
  BY <1>1 DEF Interesting, AccountInv
<1> QED
  BY <1>1, <1>3, <1>4, <1>5

LEMMA AccountStep ==
    ASSUME BaseInv, AccountInv, [Next]_vars
    PROVE  AccountInv'
<1>0. AllSteps
  BY StepCases
<1> USE DEF AccountInv, heapVars, runVars, sensorVars, runHistory, history, Running
<1>1. CASE StaticRun \/ DynamicRun
  BY <1>1 DEF StaticRun, DynamicRun, Prepare, ResetFlags
<1>2. CASE ManagerReturn
  BY <1>2 DEF ManagerReturn
<1>3. CASE \E g \in Gid, r \in Requests : RequestChunk(g, r)
  BY <1>3 DEF RequestChunk
<1>4. CASE Mutate \/ Deliver \/ TooManyChunks \/ AbortOutOfBounds
  BY <1>4 DEF Mutate, Deliver, TooManyChunks, AbortOutOfBounds
<1>5. CASE CatchException \/ UncaughtException \/ DeathCallback \/ RequestInInit
  BY <1>5 DEF CatchException, UncaughtException, DeathCallback, RequestInInit
<1>6. CASE \E f \in Feature : Register(f)
  BY <1>6 DEF Register
<1>7. CASE \E b \in BOOLEAN : SetDiscard(b)
  BY <1>7 DEF SetDiscard
<1>8. CASE InitReturns
  BY <1>8 DEF InitReturns
<1>9. CASE FinishStatic \/ FinishDynamic
  BY <1>9, RecordAccount
<1>10. CASE UNCHANGED vars
  BY <1>10 DEF vars
<1> QED
  BY <1>0, <1>1, <1>2, <1>3, <1>4, <1>5, <1>6, <1>7, <1>8, <1>9, <1>10 DEF AllSteps

LEMMA AccountInvariant == Spec => []AccountInv
<1>1. BaseInv /\ AccountInv /\ [Next]_vars => AccountInv'
  BY AccountStep
<1> QED
  BY <1>1, InitAccount, BaseInvariant, PTL DEF Spec
-----------------------------------------------------------------------------
(***************************************************************************)
(* The log of the campaign.                                                *)
(***************************************************************************)
(* As long as the clusters the corpus points to stay, the log stays. *)
LEMMA LogStays ==
    ASSUME UNCHANGED <<corpus, ledger>>,
           \A i \in 1..Len(corpus) : objs'[corpus[i]] = objs[corpus[i]]
    PROVE  Log' = Log
  BY DEF Log

(* Only the ends of runs and the starts of dynamic ones allocate; what      *)
(* GetNextChunk writes is not in the corpus.                                *)
LEMMA ClustersStay ==
    ASSUME BaseInv, AllSteps
    PROVE  \A i \in 1..Len(corpus) : objs'[corpus[i]] = objs[corpus[i]]
<1>0. /\ HeapInv /\ objs \in Seq(Cluster) /\ Len(objs) \in Nat
      /\ \A i \in 1..Len(corpus) : corpus[i] \in Object
  BY Pointers DEF BaseInv, HeapInv, TypeOK, HeapTypes
<1>1. CASE UNCHANGED objs
  BY <1>1
<1>2. CASE \E x \in Cluster : objs' = Append(objs, x)
  BY <1>0, <1>2, AppendProperties DEF Object
<1>3. CASE pc = "chunk" /\ \E input \in Input : SetCallInput(input)
  <2>1. \A i \in 1..Len(corpus) : corpus[i] # cur
    BY <1>0, <1>3 DEF HeapInv, OwnObjects, Running
  <2> QED
    BY <1>0, <1>3, <2>1, SetCallInputLemma
<1>4. CASE FinishDynamic /\ DropCurrent
  <2>1. /\ Len(objs) - 1 \in Nat /\ Len(objs) - 1 >= 1
        /\ \A i \in 1..(Len(objs) - 1) : objs[i] \in Cluster
    BY <1>0, Pointers, DiskLemma DEF Object
  <2>2. \A i \in 1..(Len(objs) - 1 - 1 + 1) : SubSeq(objs, 1, Len(objs) - 1)[i] = objs[1 + i - 1]
    BY <2>1, SubSeqProperties
  <2>3. \A o \in 1..(Len(objs) - 1) : objs'[o] = objs[o]
    BY <1>4, <2>1, <2>2 DEF DropCurrent
  <2>4. \A i \in 1..Len(corpus) : corpus[i] \in 1..(Len(objs) - 1)
    BY <1>0, <1>4, <2>1 DEF HeapInv, OwnObjects, FinishDynamic, Running, Object
  <2> QED
    BY <2>3, <2>4
<1>5. DynamicRun => \E x \in Cluster : objs' = Append(objs, x)
  BY <1>0, Pointers DEF DynamicRun, PullCopy
<1>6. FinishStatic => UNCHANGED objs \/ \E x \in Cluster : objs' = Append(objs, x)
  BY <1>0, Pointers DEF FinishStatic, PushCopy, heapVars, Running
<1>7. FinishDynamic => UNCHANGED objs \/ DropCurrent
  BY DEF FinishDynamic
<1>8. Deliver \/ TooManyChunks \/ AbortOutOfBounds =>
          pc = "chunk" /\ \E input \in Input : SetCallInput(input)
  BY <1>0, FittedLemma DEF Deliver, TooManyChunks, AbortOutOfBounds
<1>9. Mutate => pc = "chunk" /\ \E input \in Input : SetCallInput(input)
  <2> SUFFICES ASSUME Mutate PROVE pc = "chunk" /\ \E input \in Input : SetCallInput(input)
    OBVIOUS
  <2>1. PICK mutated \in ChunksUpTo(MaxChunkLen + 1) :
            SetCallInput(MutateChunk(CallInput, CallIndex, mutated, call.max))
    BY DEF Mutate
  <2>2. pc = "chunk" /\ mutated \in Chunk
    BY ChunksUpToLemma, OptionsAssumption DEF Mutate
  <2>3. MutateChunk(CallInput, CallIndex, mutated, call.max) \in Input
    BY <1>0, <2>2, CallFacts, InputClosed
  <2> QED
    BY <2>1, <2>2, <2>3
<1>10. \/ DynamicRun \/ FinishStatic \/ FinishDynamic \/ Mutate
       \/ Deliver \/ TooManyChunks \/ AbortOutOfBounds \/ UNCHANGED objs
  BY DEF AllSteps, StaticRun, ManagerReturn, RequestChunk, CatchException, UncaughtException,
         Register, SetDiscard, DeathCallback, RequestInInit, InitReturns, vars, heapVars
<1> QED
  BY <1>1, <1>2, <1>3, <1>4, <1>5, <1>6, <1>7, <1>8, <1>9, <1>10

(* The end of a run appends to the log, or leaves it. *)
LEMMA LogGrows ==
    ASSUME BaseInv, AccountInv, FinishStatic \/ FinishDynamic
    PROVE  /\ Interesting => \E e \in Cluster : Log' = Append(Log, [entry |-> e, found |-> fresh])
           /\ ~Interesting => Log' = Log
<1>0. AllSteps
  BY DEF AllSteps
<1>1. Len(corpus) \in Nat
  BY Pointers DEF BaseInv
<1>2. ASSUME Interesting
      PROVE  \E e \in Cluster : Log' = Append(Log, [entry |-> e, found |-> fresh])
  <2> DEFINE e == objs'[corpus'[Len(corpus) + 1]]
             new == [entry |-> e, found |-> fresh]
  <2>1. /\ Len(corpus') = Len(corpus) + 1
        /\ \A i \in 1..Len(corpus) : corpus'[i] = corpus[i] /\ ledger'[i] = ledger[i]
        /\ ledger'[Len(corpus) + 1].found = fresh
    BY <1>2, RecordAccount
  <2>2. Log' = [i \in 1..(Len(corpus) + 1) |->
                   [entry |-> objs'[corpus'[i]], found |-> ledger'[i].found]]
    BY <2>1 DEF Log
  <2>3. \A i \in 1..Len(corpus) : Log'[i] = [entry |-> objs[corpus[i]], found |-> ledger[i].found]
    BY <1>0, <1>1, <2>1, <2>2, ClustersStay
  <2>4. Log'[Len(corpus) + 1] = new
    BY <1>1, <2>1, <2>2
  <2>5. e \in Cluster
    <3>1. HeapInv'
      BY FinishStaticHeap, FinishDynamicHeap DEF BaseInv
    <3>2. objs' \in Seq(Cluster) /\ corpus' \in Seq(1..Len(objs'))
      BY <3>1 DEF HeapInv, TypeOK, HeapTypes, Object
    <3>3. Len(corpus) + 1 \in 1..Len(corpus')
      BY <1>1, <2>1
    <3>4. corpus'[Len(corpus) + 1] \in 1..Len(objs')
      BY <3>2, <3>3, ElementOfSeq
    <3> QED
      BY <3>2, <3>4, ElementOfSeq
  <2> HIDE DEF e
  <2>6. Log' = Append(Log, new)
    <3> DEFINE S == {Log[i] : i \in 1..Len(corpus)} \union {new}
               grown == Append(Log, new)
    <3>1. Log \in Seq(S) /\ Len(Log) = Len(corpus)
      <4>1. Log \in [1..Len(corpus) -> S]
        BY DEF Log
      <4> QED
        BY <1>1, <4>1, SeqDef, LenProperties
    <3>2. /\ grown \in Seq(S) /\ Len(grown) = Len(corpus) + 1
          /\ \A i \in 1..Len(corpus) : grown[i] = Log[i]
          /\ grown[Len(corpus) + 1] = new
      BY <3>1, AppendProperties
    <3>3. \A i \in 1..Len(corpus) : Log[i] = [entry |-> objs[corpus[i]], found |-> ledger[i].found]
      BY DEF Log
    <3>4. /\ Log' \in Seq(S) /\ Len(Log') = Len(corpus) + 1
      <4>1. \A i \in 1..(Len(corpus) + 1) : Log'[i] \in S
        <5>1. \A i \in 1..Len(corpus) : Log'[i] = Log[i]
          BY <2>3, <3>3
        <5> QED
          BY <1>1, <2>4, <5>1
      <4>2. Log' \in [1..(Len(corpus) + 1) -> S]
        BY <2>2, <4>1
      <4>3. Len(corpus) + 1 \in Nat
        BY <1>1
      <4> HIDE DEF S
      <4> QED
        BY <4>2, <4>3, SeqDef, LenProperties
    <3>5. \A i \in 1..Len(Log') : Log'[i] = grown[i]
      <4>1. \A i \in 1..Len(corpus) : Log'[i] = grown[i]
        BY <2>3, <3>2, <3>3
      <4>2. Log'[Len(corpus) + 1] = grown[Len(corpus) + 1]
        BY <2>4, <3>2
      <4> HIDE DEF grown
      <4> QED
        BY <1>1, <3>4, <4>1, <4>2
    <3> HIDE DEF S, grown
    <3>6. Log' = grown
      BY <3>2, <3>4, <3>5, SeqEqual
    <3> QED
      BY <3>6 DEF grown
  <2> QED
    BY <2>5, <2>6
<1>3. ASSUME ~Interesting PROVE Log' = Log
  BY <1>0, <1>3, RecordAccount, ClustersStay, LogStays
<1> QED
  BY <1>2, <1>3
-----------------------------------------------------------------------------
(***************************************************************************)
(* Every step maps to a step of the campaign.                              *)
(***************************************************************************)
excusedNow == said \in {"init", "discard"}
campaignVars == <<Log, seen, fresh, given, excusedNow>>

LEMMA InitMaps == Init => Camp!Init
<1> SUFFICES ASSUME Init PROVE Camp!Init
  OBVIOUS
<1>1. Len(corpus) = 1 /\ corpus[1] = DiskSize + 1 /\ ledger[1].found = {}
  BY DEF Init
<1>2. objs[DiskSize + 1] = EmptyCluster
  BY DiskLemma, AppendProperties DEF Init, DiskSize
<1>3. Log = <<[entry |-> EmptyCluster, found |-> {}]>>
  BY <1>1, <1>2 DEF Log
<1> QED
  BY <1>3 DEF Init, Camp!Init

LEMMA StepMaps ==
    ASSUME BaseInv, AccountInv, [Next]_vars
    PROVE  [Camp!Next]_(Camp!vars)
<1>0. AllSteps
  BY StepCases
<1>1. UNCHANGED <<corpus, ledger>> => Log' = Log
  BY <1>0, ClustersStay, LogStays
<1> USE DEF heapVars, runVars, sensorVars, runHistory, history
<1>2. CASE StaticRun \/ DynamicRun
  <2>1. Log' = Log /\ UNCHANGED <<seen, given>> /\ fresh = {} /\ fresh' = {} /\ said' = "nothing"
    BY <1>1, <1>2 DEF StaticRun, DynamicRun, Prepare, AccountInv
  <2>2. Camp!Excuse(FALSE)
    BY <2>1 DEF Camp!Excuse
  <2> QED
    BY <2>2 DEF Camp!Next
<1>3. CASE \/ ManagerReturn \/ (\E g \in Gid, r \in Requests : RequestChunk(g, r))
           \/ Mutate \/ Deliver \/ TooManyChunks \/ AbortOutOfBounds
           \/ CatchException \/ UncaughtException \/ DeathCallback \/ RequestInInit
           \/ UNCHANGED vars
  <2>1. UNCHANGED <<corpus, ledger, seen, fresh, given, said>>
    BY <1>3 DEF ManagerReturn, RequestChunk, Mutate, Deliver, TooManyChunks, AbortOutOfBounds,
                CatchException, UncaughtException, DeathCallback, RequestInInit, vars
  <2> QED
    BY <1>1, <2>1 DEF Camp!vars
<1>4. CASE \E f \in Feature : Register(f)
  <2>1. PICK f \in Feature : Register(f)
    BY <1>4
  <2>2. Camp!Discover(f)
    BY <1>1, <2>1 DEF Register, Camp!Discover
  <2> QED
    BY <2>2 DEF Camp!Next
<1>5. CASE \E b \in BOOLEAN : SetDiscard(b)
  <2>1. PICK b \in BOOLEAN : SetDiscard(b)
    BY <1>5
  <2>2. Camp!Excuse(b)
    BY <1>1, <2>1 DEF SetDiscard, Camp!Excuse
  <2> QED
    BY <2>2 DEF Camp!Next
<1>6. CASE InitReturns
  <2>1. /\ Log' = Log /\ UNCHANGED <<seen, said>> /\ said = "init"
        /\ given' = given \union fresh /\ fresh' = {}
    BY <1>1, <1>6 DEF InitReturns, AccountInv
  <2>2. CASE fresh = {}
    BY <2>1, <2>2 DEF Camp!vars
  <2>3. CASE fresh # {}
    <3>1. Camp!GiveUp
      BY <2>1, <2>3 DEF Camp!GiveUp
    <3> QED
      BY <3>1 DEF Camp!Next
  <2> QED
    BY <2>2, <2>3
<1>7. CASE FinishStatic \/ FinishDynamic
  <2>1. /\ pc \in Running /\ fresh' = {} /\ UNCHANGED <<seen, said>>
        /\ said # "init"
        /\ doDiscard <=> said = "discard"
        /\ Interesting => ~doDiscard /\ fresh # {}
        /\ ~Interesting => doDiscard \/ fresh = {}
    BY <1>7, RecordAccount DEF AccountInv
  <2>2. given' = IF said = "discard" THEN given \union fresh ELSE given
    BY <1>7 DEF FinishStatic, FinishDynamic, Record
  <2>3. CASE Interesting
    <3>1. PICK e \in Cluster : Log' = Append(Log, [entry |-> e, found |-> fresh])
      BY <1>7, <2>3, LogGrows
    <3>2. Log'[Len(Log')].entry = e
      <4> DEFINE new == [entry |-> e, found |-> fresh]
      <4>1. Len(corpus) \in Nat /\ Log \in Seq({Log[i] : i \in 1..Len(corpus)} \union {new})
        <5>1. Len(corpus) \in Nat
          BY Pointers DEF BaseInv
        <5>2. Log \in [1..Len(corpus) -> {Log[i] : i \in 1..Len(corpus)} \union {new}]
          BY DEF Log
        <5> QED
          BY <5>1, <5>2, SeqDef
      <4>2. Len(Log') = Len(Log) + 1 /\ Log'[Len(Log) + 1] = new
        BY <3>1, <4>1, AppendProperties
      <4> QED
        BY <4>2
    <3>3. Camp!Keep(Log'[Len(Log')].entry)
      BY <2>1, <2>2, <2>3, <3>1, <3>2 DEF Camp!Keep
    <3> QED
      BY <3>3 DEF Camp!Next
  <2>4. CASE ~Interesting /\ doDiscard /\ fresh # {}
    <3>1. Camp!GiveUp
      BY <1>7, <2>1, <2>2, <2>4, LogGrows DEF Camp!GiveUp
    <3> QED
      BY <3>1 DEF Camp!Next
  <2>5. CASE ~Interesting /\ fresh = {}
    BY <1>7, <2>1, <2>2, <2>5, LogGrows DEF Camp!vars
  <2> QED
    BY <2>1, <2>3, <2>4, <2>5
<1> QED
  BY <1>0, <1>2, <1>3, <1>4, <1>5, <1>6, <1>7 DEF AllSteps

(* The engine implements the campaign, whatever the target does. *)
THEOREM ImplementsCampaign == Spec => CampaignSpec
<1>1. BaseInv /\ AccountInv /\ [Next]_vars => [Camp!Next]_(Camp!vars)
  BY StepMaps
<1>2. Spec => Camp!Spec
  BY <1>1, InitMaps, BaseInvariant, AccountInvariant, PTL DEF Spec, Camp!Spec
<1> QED
  BY <1>2 DEF CampaignSpec

(* The theorems about Campaign, for the campaign of the engine. *)
Proved == INSTANCE CampaignProofs WITH
              Entry <- Cluster, FirstEntry <- EmptyCluster,
              log <- Log, known <- seen, pending <- fresh, excused <- said \in {"init", "discard"}

(* Every feature the sensors report has exactly one home, and no entry of  *)
(* the corpus but the first was kept for nothing.                          *)
THEOREM FeaturesAccountedFor == Spec => []FeaturesAccounted
<1>1. Camp!Init => Proved!Init
  BY DEF Camp!Init, Proved!Init
<1>2. [Camp!Next]_(Camp!vars) => [Proved!Next]_(Proved!vars)
  BY DEF Camp!Next, Camp!Discover, Camp!Excuse, Camp!Keep, Camp!GiveUp, Camp!vars,
         Proved!Next, Proved!Discover, Proved!Excuse, Proved!Keep, Proved!GiveUp, Proved!vars
<1>3. CampaignSpec => Proved!Spec
  BY <1>1, <1>2, PTL DEF CampaignSpec, Camp!Spec, Proved!Spec
<1>4. Proved!Spec => [](Proved!TypeOK /\ Proved!Disjoint /\ Proved!NoIdleEntry /\ Proved!Accounted)
  BY DiskLemma, Proved!AccountsHold
<1>5. Proved!Disjoint /\ Proved!NoIdleEntry /\ Proved!Accounted => FeaturesAccounted
  BY DEF FeaturesAccounted, Camp!Disjoint, Camp!NoIdleEntry, Camp!Accounted,
         Proved!Disjoint, Proved!NoIdleEntry, Proved!Accounted
<1> QED
  BY <1>3, <1>4, <1>5, ImplementsCampaign, PTL
-----------------------------------------------------------------------------
(***************************************************************************)
(* The files.                                                              *)
(***************************************************************************)
LEMMA InitSaved == Init => SavedMatchesCorpus
<1> SUFFICES ASSUME Init PROVE SavedMatchesCorpus
  OBVIOUS
<1>1. saved = {} /\ Len(corpus) = 1 /\ ledger[1].mode = "born"
  BY DEF Init
<1>2. {k \in 1..Len(corpus) : ledger[k].mode = "dynamic"} = {}
  BY <1>1
<1> QED
  BY <1>1, <1>2 DEF SavedMatchesCorpus

(* What RecordAccount says, and who made the entry. *)
LEMMA RecordMode ==
    ASSUME BaseInv, AccountInv, FinishStatic \/ FinishDynamic, Interesting
    PROVE  ledger'[Len(corpus) + 1].mode = mode
<1>1. ledger' = Append(ledger, [mode |-> mode, delivered |-> delivered, found |-> fresh])
  BY DEF FinishStatic, FinishDynamic, Record
<1>2. ledger \in Seq(LedgerEntry) /\ Len(ledger) = Len(corpus)
  BY DEF BaseInv, HeapInv, TypeOK, RecordTypes, AccountInv
<1>3. ledger'[Len(corpus) + 1] = [mode |-> mode, delivered |-> delivered, found |-> fresh]
  BY <1>1, <1>2, AppendProperties
<1> QED
  BY <1>3

LEMMA SavedStep ==
    ASSUME BaseInv, AccountInv, SavedMatchesCorpus, [Next]_vars
    PROVE  SavedMatchesCorpus'
<1> DEFINE Dynamic == {k \in 1..Len(corpus) : ledger[k].mode = "dynamic"}
<1>0. /\ AllSteps /\ Len(corpus) \in Nat
      /\ saved = IF WorkDir THEN {objs[corpus[i]] : i \in Dynamic} ELSE {}
      /\ \A i \in 1..Len(corpus) : objs'[corpus[i]] = objs[corpus[i]]
  BY StepCases, ClustersStay, Pointers DEF SavedMatchesCorpus, BaseInv
<1>1. CASE UNCHANGED <<corpus, ledger, saved>>
  <2>1. Dynamic' = Dynamic
    BY <1>1
  <2>2. {objs'[corpus'[i]] : i \in Dynamic'} = {objs[corpus[i]] : i \in Dynamic}
    BY <1>0, <1>1, <2>1
  <2> QED
    BY <1>0, <1>1, <2>2 DEF SavedMatchesCorpus
<1>2. CASE (FinishStatic \/ FinishDynamic) /\ Interesting
  <2>1. /\ Len(corpus') = Len(corpus) + 1
        /\ \A i \in 1..Len(corpus) : corpus'[i] = corpus[i] /\ ledger'[i] = ledger[i]
        /\ ledger'[Len(corpus) + 1].mode = mode
    BY <1>2, RecordAccount, RecordMode
  <2>2. CASE FinishStatic
    <3>1. Dynamic' = Dynamic
      BY <1>0, <2>1, <2>2 DEF FinishStatic
    <3>2. saved' = saved
      BY <2>2 DEF FinishStatic, fileVars
    <3>3. {objs'[corpus'[i]] : i \in Dynamic'} = {objs[corpus[i]] : i \in Dynamic}
      BY <1>0, <2>1, <3>1
    <3> QED
      BY <1>0, <3>2, <3>3 DEF SavedMatchesCorpus
  <2>3. CASE FinishDynamic
    <3>1. Dynamic' = Dynamic \union {Len(corpus) + 1}
      BY <1>0, <2>1, <2>3 DEF FinishDynamic
    <3>2. corpus' = Append(corpus, cur) /\ objs' = objs /\ WriteNew
      BY <1>2, <2>3 DEF FinishDynamic
    <3>3. corpus'[Len(corpus) + 1] = cur
      BY <3>2, AppendProperties, Pointers DEF BaseInv, HeapInv, TypeOK, HeapTypes, FinishDynamic, Running
    <3>4. {objs'[corpus'[i]] : i \in Dynamic'} = {objs[corpus[i]] : i \in Dynamic} \union {objs[cur]}
      BY <2>1, <3>1, <3>2, <3>3
    <3> HIDE DEF Dynamic
    <3>5. saved' = IF WorkDir THEN {objs'[corpus'[i]] : i \in Dynamic'} ELSE {}
      BY <1>0, <3>2, <3>4 DEF WriteNew
    <3> QED
      BY <3>5 DEF SavedMatchesCorpus, Dynamic
  <2> QED
    BY <1>2, <2>2, <2>3
<1>3. UNCHANGED <<corpus, ledger, saved>> \/ ((FinishStatic \/ FinishDynamic) /\ Interesting)
  <2>1. CASE (FinishStatic \/ FinishDynamic) /\ ~Interesting
    BY <2>1, RecordAccount DEF FinishStatic, FinishDynamic, fileVars
  <2>2. CASE StaticRun \/ DynamicRun \/ ManagerReturn
    BY <2>2 DEF StaticRun, DynamicRun, Prepare, ManagerReturn, heapVars, fileVars, history
  <2>3. CASE \/ (\E g \in Gid, r \in Requests : RequestChunk(g, r))
             \/ Mutate \/ Deliver \/ TooManyChunks \/ AbortOutOfBounds
    BY <2>3 DEF RequestChunk, Mutate, Deliver, TooManyChunks, AbortOutOfBounds,
                heapVars, fileVars, history
  <2>4. CASE \/ CatchException \/ UncaughtException \/ DeathCallback \/ RequestInInit \/ InitReturns
             \/ (\E f \in Feature : Register(f)) \/ (\E b \in BOOLEAN : SetDiscard(b))
             \/ UNCHANGED vars
    BY <2>4 DEF CatchException, UncaughtException, DeathCallback, RequestInInit, InitReturns,
                Register, SetDiscard, vars, heapVars, fileVars, history
  <2> QED
    BY <1>0, <2>1, <2>2, <2>3, <2>4 DEF AllSteps
<1> QED
  BY <1>1, <1>2, <1>3

(* The working directory holds exactly the entries dynamic runs added, as  *)
(* the corpus still has them.                                              *)
THEOREM SavedHolds == Spec => []SavedMatchesCorpus
<1>1. BaseInv /\ AccountInv /\ SavedMatchesCorpus /\ [Next]_vars => SavedMatchesCorpus'
  BY SavedStep
<1> QED
  BY <1>1, InitSaved, BaseInvariant, AccountInvariant, PTL DEF Spec
=============================================================================
