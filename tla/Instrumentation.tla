-------------------------- MODULE Instrumentation --------------------------
(***************************************************************************)
(* The built-in sensors and what feeds them: the malloc hooks and the      *)
(* callbacks of the compiler's instrumentation (libvfuzz-runtime/src/      *)
(* interface), Driver::builtin_..., and the sensors under libvfuzz-core/   *)
(* src/sensor/sensor with AllocationTracker and ValueBitMap.               *)
(*                                                                         *)
(* Sensors has the container with combinations, and takes a sensor to be   *)
(* a source of values.  Here it is the other way round: every built-in     *)
(* sensor in detail, none of them combined, and a cycle that stops in one  *)
(* step.  A target uses some of the sensors; it turns them on and off      *)
(* while it runs.                                                          *)
(*                                                                         *)
(* The C library's allocator is external: it answers with any address that *)
(* is not in use.  The engine takes its memory from it as the target does, *)
(* through the same hooks, and at any time.  The target has one thread.    *)
(***************************************************************************)
EXTENDS Processors, Sequences, Folds

CONSTANTS
    Uses,     \* the sets of built-in sensors that a target may use
    PC,       \* places in the code, from 1; a guard has the number of its PC
    Guards,   \* what a guard is called with: [pc, caller, depth]
    Compares, \* what a comparison is called with: [pc, a, b]
    Switches, \* what a switch is called with: [pc, val, cases]
    Calls,    \* what an indirect call is called with: [pc, callee]
    Memcmps,  \* comparisons of memory or strings: [pc, length, common]
    ArgBits,  \* bits of an argument of a comparison
    Boring,   \* 256: a switch over smaller values is ignored
    MaxCompared, \* 64: bytes of memory that are looked at
    Address,  \* of memory
    Sizes,    \* of allocations
    TrackSize, \* 3: callers in a flow trace
    PCMask,   \* 4096: places that the value profile tells apart
    MapSize,  \* 65536: bits of a value profile
    MapPrime, \* 65371
    MaxEvents, \* bound of the model: events in a cycle, by what is used
    MaxCycles \* bound of the model: cycles, likewise

Builtin == {"coverage", "depth", "unique", "flow", "intensity", "auto",
            "single", "global", "profile", "cmp"}

Power[i \in 0..ArgBits] == IF i = 0 THEN 1 ELSE 2 * Power[i - 1]
Arg == 0..(Power[ArgBits] - 1)

(* The sum of a function's values. *)
Total(f) == MapThenFoldSet(+, 0, LAMBDA a : f[a], LAMBDA s : CHOOSE a \in s : TRUE, DOMAIN f)

ASSUME InstrumentationAssumption ==
    /\ Uses \subseteq SUBSET Builtin
    /\ PC \subseteq Nat \ {0}
    /\ Guards \subseteq [pc : PC, caller : Nat \ {0}, depth : Nat \ {0}]
    /\ Compares \subseteq [pc : PC, a : Arg, b : Arg]
    /\ Switches \subseteq [pc : PC, val : Arg, cases : Seq(Arg) \ {<<>>}]
    /\ \A s \in Switches : s.pc..(s.pc + Len(s.cases)) \subseteq PC
    /\ Calls \subseteq [pc : PC, callee : Nat]
    /\ Memcmps \subseteq [pc : PC, length : Nat, common : Nat]
    /\ \A m \in Memcmps : m.common <= m.length
    /\ Sizes \subseteq Nat
    /\ {TrackSize, PCMask, MapSize, MapPrime} \subseteq Nat \ {0}
    /\ {Boring, MaxCompared} \subseteq Nat
    /\ {MaxEvents, MaxCycles} \subseteq [Uses -> Nat] /\ ArgBits \in Nat

VARIABLES
    pc,         \* "idle", "recording", or in a callback, "flagged" or "plain"
    uses,       \* the sensors of this target
    off,        \* BaseSensor::disabled
    memory,     \* of the processors
    news,       \* sensorData->increase > 0
    inLib,      \* malloc_hooks_in_lib
    heap,       \* blocks that are allocated
    tracker,    \* AllocationTracker: allocMap, curAlloc, allTimeMax
    val,        \* CodeIntensitySensor
    intensity,  \* AutoCodeIntensitySensor::PCToIntensity
    stack,      \* StackSensor: stackDepthRecord, stackDepthBase
    flow,       \* FlowtraceSensor: callers and index of its tracker, stackTraces
    bits,       \* ValueProfileSensor::ValueProfileMap
    (* history *)
    log,        \* what each sensor that was on was told in this cycle
    past,       \* ... in the cycles before
    peak, best, \* the most memory in use in this cycle, and in those before
    reported,   \* the most that a cycle before this one could report
    lost,       \* where a block went in this cycle and the tracker did not hear
    upset,      \* ... it ever happened
    events, cycles

ofGuards == <<val, intensity, stack, flow>>
ofHeap == <<heap, tracker, peak, best, reported, lost, upset>>
bounds == <<events, cycles>>
vars == <<pc, uses, off, memory, news, inLib, ofHeap, ofGuards, bits, log, past, bounds>>

(* Sensors with a processor: the built-in ones, and those that "auto"       *)
(* sensors create with sensor_callback for every PC.                        *)
AutoBuiltin == {"auto", "single", "cmp"}
Sensor == ((Builtin \ AutoBuiltin) \X {0}) \union (AutoBuiltin \X PC)

(* Driver::createBuiltin, and what the auto sensors give sensor_callback *)
TypeOf(b) == CASE b \in {"coverage", "unique", "profile"} -> "unique"
               [] b = "cmp" -> "lowest"
               [] OTHER -> "highest"

None == [a \in {} |-> 0]

Init == /\ pc = "idle" /\ uses \in Uses
        /\ off = [b \in Builtin |-> TRUE]
        /\ memory = [s \in Sensor |-> InitialMemory(TypeOf(s[1]))]
        /\ news = FALSE
        /\ inLib = FALSE
        /\ heap = None /\ tracker = [map |-> None, cur |-> 0, max |-> 0]
        /\ val = 0 /\ intensity = [p \in PC |-> 0]
        /\ stack = [b \in {"depth", "unique"} |-> [record |-> 0, base |-> 0]]
        /\ flow = [callers |-> [i \in 0..(TrackSize - 1) |-> 0], index |-> 0, traces |-> {}]
        /\ bits = {}
        /\ log = [b \in uses |-> <<>>] /\ past = [b \in uses |-> {}]
        /\ peak = 0 /\ best = 0 /\ reported = 0 /\ lost = {} /\ upset = FALSE
        /\ events = 0 /\ cycles = 0

(* BaseSensor::isEffectivelyEnabled, while a cycle is recorded *)
On(b) == b \in uses /\ ~off[b]

(* Values reach the processors; nothing here is part of a combination. *)
Deliver(in) ==
    /\ memory' = [s \in Sensor |-> IF s \in DOMAIN in THEN Remember(TypeOf(s[1]), memory[s], in[s])
                                                      ELSE memory[s]]
    /\ news' = (news \/ \E s \in DOMAIN in : Counts(TypeOf(s[1]), memory[s], in[s]))

(* A call of the target: what sensors are told of it, if they are on. *)
Event(told) ==
    /\ pc = "recording"
    /\ events < MaxEvents[uses]
    /\ events' = events + 1
    /\ log' = [b \in uses |-> IF b \in DOMAIN told /\ On(b) THEN Append(log[b], told[b]) ELSE log[b]]
-----------------------------------------------------------------------------
(***************************************************************************)
(* The cycle.                                                              *)
(***************************************************************************)
(* ValueBitMap::Reset, FlowTracker::Reset.  The slips go on with what the   *)
(* last cycle left.                                                        *)
KeepBits == bits
ClearBits == {}
KeepCallers == flow.callers
ClearCallers == [i \in 0..(TrackSize - 1) |-> 0]

(* Driver::StartRecord: start() of every sensor, also of those that are off. *)
StartRecord ==
    /\ pc = "idle" /\ cycles < MaxCycles[uses]
    /\ pc' = "recording" /\ cycles' = cycles + 1 /\ events' = 0
    /\ news' = FALSE
    /\ tracker' = [tracker EXCEPT !.map = None, !.cur = 0]
    /\ val' = 0 /\ intensity' = [p \in PC |-> 0]
    /\ flow' = [flow EXCEPT !.callers = ClearCallers]
    /\ bits' = ClearBits
    /\ past' = [b \in uses |-> IF off[b] /\ b = "profile" THEN past[b] ELSE past[b] \union {log[b]}]
    /\ log' = [b \in uses |-> <<>>]
    /\ best' = (IF peak > best THEN peak ELSE best) /\ peak' = 0
    /\ reported' = IF On("global") THEN best' ELSE reported
    /\ heap' = [a \in DOMAIN heap |-> [heap[a] EXCEPT !.known = FALSE]]
    /\ lost' = {}
    /\ UNCHANGED <<uses, off, memory, inLib, stack, upset>>

(* Driver::StopRecord: stop() of the two sensors that report then.          *)
Late(b, in) == IF On(b) THEN in ELSE {}

StopRecord ==
    /\ pc = "recording"
    /\ pc' = "idle"
    /\ LET most == Late("global", {tracker.max})
           shown == Late("profile", bits)
           global == <<"global", 0>>
           profile == <<"profile", 0>> IN
       /\ news' = (\/ news
                   \/ \E v \in most : Counts("highest", memory[global], v)
                   \/ ~(shown \subseteq memory[profile]))
       /\ memory' = [memory EXCEPT ![profile] = @ \union shown,
                                   ![global] = IF \E v \in most : Counts("highest", @, v)
                                               THEN most ELSE @]
    /\ UNCHANGED <<uses, off, inLib, ofHeap, ofGuards, bits, log, past, bounds>>

(* sensor_enable and sensor_disable *)
SetOff(b) ==
    /\ pc = "recording" /\ b \in uses
    /\ Event(None)
    /\ off' = [off EXCEPT ![b] = ~@]
    /\ UNCHANGED <<pc, uses, memory, news, inLib, ofHeap, ofGuards, bits, past, cycles>>
-----------------------------------------------------------------------------
(***************************************************************************)
(* The hooks of the allocator.  Zero bytes are answered with a pointer     *)
(* that free() knows and no sensor hears of.                               *)
(***************************************************************************)
Usage(h) == Total([a \in {b \in DOMAIN h : h[b].known} |-> h[a].size])

With(f, a, v) == [b \in DOMAIN f \union {a} |-> IF b = a THEN v ELSE f[b]]
Without(f, a) == [b \in DOMAIN f \ {a} |-> f[b]]

(* Does a hook tell the driver, and does the tracker hear of it? *)
Hooked == pc # "idle" /\ ~inLib
Tracking == Hooked /\ On("global")

(* ... and should it?  Not of what a callback does that sets the flag.      *)
Counted == pc \in {"recording", "plain"} /\ On("global")
Lose(places) == lost' = places /\ upset' = (upset \/ places # {})

(* AllocationTracker::AddMalloc.  The slip adds a known address again. *)
AddAgain(a, size) ==
    LET cur == tracker.cur + size IN
    [map |-> With(tracker.map, a, size), cur |-> cur, max |-> IF cur > tracker.max THEN cur ELSE tracker.max]
AddMalloc(a, size) ==
    LET cur == tracker.cur + size IN
    IF a \in DOMAIN tracker.map THEN tracker
    ELSE [map |-> With(tracker.map, a, size), cur |-> cur,
          max |-> IF cur > tracker.max THEN cur ELSE tracker.max]

(* AllocationTracker::AddFree *)
AddFree(a) ==
    IF a \in DOMAIN tracker.map
    THEN [tracker EXCEPT !.map = Without(@, a), !.cur = @ - tracker.map[a]]
    ELSE tracker

(* malloc_hook_malloc, called at p *)
HookMalloc(p, a, size, owner) ==
    /\ a \in Address \ DOMAIN heap
    /\ heap' = With(heap, a, [size |-> size, known |-> Counted, of |-> owner])
    /\ tracker' = IF Tracking THEN AddMalloc(a, size) ELSE tracker
    /\ Deliver(IF Hooked /\ On("single") THEN [s \in {<<"single", p>>} |-> size] ELSE None)
    /\ peak' = IF Counted /\ Usage(heap') > peak THEN Usage(heap') ELSE peak
    /\ UNCHANGED <<best, reported, lost, upset>>

Malloc(p, a, size) ==
    /\ size > 0
    /\ Event([b \in {"single"} |-> [pc |-> p, size |-> size]])
    /\ HookMalloc(p, a, size, "target")
    /\ UNCHANGED <<pc, uses, off, inLib, ofGuards, bits, past, cycles>>

(* The engine's own: its chunks and clusters, what it answers a request     *)
(* with, the sensors and names that callbacks create.                      *)
EngineMalloc(p, a, size) ==
    /\ size > 0
    /\ Hooked => events < MaxEvents[uses]
    /\ events' = IF Hooked THEN events + 1 ELSE events
    /\ log' = IF Hooked /\ On("single") THEN [log EXCEPT !["single"] = Append(@, [pc |-> p, size |-> size])]
                                        ELSE log
    /\ HookMalloc(p, a, size, "engine")
    /\ UNCHANGED <<pc, uses, off, inLib, ofGuards, bits, past, cycles>>

(* malloc_hook_realloc tells nobody, whether the block moves or not. *)
Realloc(a, b, size) ==
    /\ size > 0
    /\ a \in DOMAIN heap /\ heap[a].of = "target" /\ b \in (Address \ DOMAIN heap) \union {a}
    /\ Event(None)
    /\ heap' = With(Without(heap, a), b, [size |-> size, known |-> FALSE, of |-> "target"])
    /\ Lose(IF heap[a].known THEN lost \union {a} ELSE lost)
    /\ UNCHANGED <<pc, uses, off, memory, news, inLib, tracker, peak, best, reported, ofGuards, bits, past, cycles>>

(* malloc_hook_free, of a block of whoever runs: the target or the engine   *)
(* in a cycle and between two, the engine alone in a callback.             *)
Running == IF pc \in {"idle", "recording"} THEN {"target", "engine"} ELSE {"engine"}

Free(a) ==
    /\ a \in DOMAIN heap /\ heap[a].of \in Running
    /\ heap' = Without(heap, a)
    /\ tracker' = IF Tracking THEN AddFree(a) ELSE tracker
    /\ Lose(IF Counted THEN lost \ {a}
            ELSE IF pc # "idle" /\ heap[a].known THEN lost \union {a} ELSE lost)
    /\ UNCHANGED <<pc, uses, off, memory, news, inLib, peak, best, reported, ofGuards, bits, log, past, bounds>>
-----------------------------------------------------------------------------
(***************************************************************************)
(* Callbacks of the instrumentation, in two steps: what the engine         *)
(* allocates and frees in between is heard of unless the callback has set  *)
(* malloc_hooks_in_lib.                                                    *)
(***************************************************************************)
StackAfter(b, depth) ==
    IF On(b) /\ depth > stack[b].record
    THEN [record |-> depth, base |-> IF stack[b].base = 0 THEN depth ELSE stack[b].base]
    ELSE stack[b]

(* FlowTracker::Add and GetTrack, the latest caller first *)
FlowAfter(caller) ==
    LET index == (flow.index + 1) % TrackSize
        callers == [flow.callers EXCEPT ![index] = caller]
        track == [i \in 0..(TrackSize - 1) |-> callers[(index + TrackSize - i) % TrackSize]] IN
    IF On("flow") THEN [callers |-> callers, index |-> index, traces |-> flow.traces \union {track}]
                  ELSE flow

(* __sanitizer_cov_trace_pc_guard *)
Guard(g) ==
    /\ Event([b \in {"coverage", "depth", "unique", "flow", "intensity", "auto"} |-> g])
    /\ inLib' = TRUE
    /\ pc' = "flagged"
    /\ val' = IF On("intensity") THEN val + 1 ELSE val
    /\ intensity' = IF On("auto") THEN [intensity EXCEPT ![g.pc] = @ + 1] ELSE intensity
    /\ stack' = [b \in DOMAIN stack |-> StackAfter(b, g.depth)]
    /\ flow' = FlowAfter(g.caller)
    /\ LET told == [s \in Sensor |->
                      CASE s[1] = "coverage" -> g.pc
                        [] s[1] = "intensity" -> val'
                        [] s[1] = "auto" -> intensity'[s[2]]
                        [] s[1] \in DOMAIN stack -> stack'[s[1]].record - stack'[s[1]].base
                        [] s[1] = "flow" -> Cardinality(flow'.traces)
                        [] OTHER -> 0]
           hears == {s \in Sensor : /\ On(s[1])
                                    /\ \/ s[1] \in {"coverage", "intensity", "flow"}
                                       \/ s[1] \in DOMAIN stack /\ stack'[s[1]] # stack[s[1]]
                                       \/ s = <<"auto", g.pc>>} IN
       Deliver([s \in hears |-> told[s]])
    /\ UNCHANGED <<uses, off, ofHeap, bits, past, cycles>>

(* What the value profile makes of a comparison: a place in the code and    *)
(* something about what happened there, in a number.                        *)
Differ(a, b) == {i \in 0..(ArgBits - 1) : (a \div Power[i]) % 2 # (b \div Power[i]) % 2}
Distance(a, b) == Cardinality(Differ(a, b)) + 1

Seen(of, p, by) == [of |-> of, pc |-> p, by |-> by]

Index(seen) ==
    LET place == seen.pc % PCMask IN
    (CASE seen.of = "cmp" -> (place + 1) * seen.by
       [] seen.of = "call" -> (place + (seen.by % PCMask) * PCMask) % MapPrime
       [] seen.of = "memory" -> place + seen.by * PCMask) % MapSize

Profile(seen) == bits' = IF On("profile") THEN bits \union {Index(seen)} ELSE bits

Difference(c) == IF c.a > c.b THEN c.a - c.b ELSE c.b - c.a

(* Driver::builtin_HandleCmp; CMPDiffSensor takes the difference *)
HandleCmp(c) ==
    LET seen == Seen("cmp", c.pc, Distance(c.a, c.b)) IN
    /\ Event([b \in {"cmp", "profile"} |-> IF b = "cmp" THEN c ELSE seen])
    /\ Profile(seen)
    /\ Deliver(IF On("cmp") THEN [s \in {<<"cmp", c.pc>>} |-> Difference(c)] ELSE None)
    /\ UNCHANGED <<uses, off, ofHeap, ofGuards, past, cycles>>

(* __sanitizer_cov_trace_cmp1 and so on.  The slip forgets the flag. *)
UnflaggedCmp(c) == HandleCmp(c) /\ pc' = "flagged" /\ UNCHANGED inLib
TraceCmp(c) == HandleCmp(c) /\ pc' = "flagged" /\ inLib' = TRUE

(* __sanitizer_cov_trace_div4, div8 and gep, which do not set it. *)
TraceDiv(c) == c.b = 0 /\ HandleCmp(c) /\ pc' = "plain" /\ UNCHANGED inLib

(* __sanitizer_cov_trace_switch: compared with zero is what the value       *)
(* differs by from the first case above it, or from the last of all.        *)
Xor(a, b) == Total([i \in Differ(a, b) |-> Power[i]])

TraceSwitch(s) ==
    LET number == Len(s.cases)
        above == {i \in 1..number : s.val < s.cases[i]}
        i == IF above = {} THEN number + 1 ELSE CHOOSE n \in above : \A k \in above : n <= k
        token == Xor(s.val, s.cases[IF above = {} THEN number ELSE i]) IN
    /\ s.cases[number] >= Boring \/ s.val >= Boring
    /\ HandleCmp([pc |-> s.pc + i - 1, a |-> token, b |-> 0])
    /\ pc' = "plain" /\ UNCHANGED inLib

(* __sanitizer_cov_trace_pc_indir, and the hooks of memcmp, strncmp and     *)
(* strcmp, which come to the length of the shorter string and of the common *)
(* prefix: the value profile alone hears of them.                          *)
ProfileOnly(seen) ==
    /\ Event([b \in {"profile"} |-> seen])
    /\ Profile(seen)
    /\ pc' = "plain"
    /\ UNCHANGED <<uses, off, memory, news, inLib, ofHeap, ofGuards, past, cycles>>

TraceIndir(call) == ProfileOnly(Seen("call", call.pc, call.callee % PCMask))

HookMemcmp(m) ==
    /\ m.length > 1
    /\ ProfileOnly(Seen("memory", m.pc, IF m.common > MaxCompared THEN MaxCompared ELSE m.common))

(* The callback returns.  The slip leaves the flag set. *)
LeaveFlagged == /\ pc \in {"flagged", "plain"} /\ pc' = "recording" /\ UNCHANGED inLib
Leave == /\ pc \in {"flagged", "plain"} /\ pc' = "recording"
         /\ inLib' = IF pc = "flagged" THEN FALSE ELSE inLib

Return == /\ Leave
          /\ UNCHANGED <<uses, off, memory, news, ofHeap, ofGuards, bits, log, past, bounds>>

Over == pc = "idle" /\ cycles = MaxCycles[uses] /\ UNCHANGED vars

(* What no sensor of the target hears of is left out. *)
UsesAny(kinds) == uses \intersect kinds # {}

Next == \/ StartRecord \/ StopRecord
        \/ \E b \in Builtin : SetOff(b)
        \/ /\ UsesAny({"single", "global"})
           /\ \/ \E p \in PC, a \in Address, size \in Sizes : Malloc(p, a, size) \/ EngineMalloc(p, a, size)
              \/ \E a, b \in Address, size \in Sizes : Realloc(a, b, size)
              \/ \E a \in Address : Free(a)
        \/ /\ UsesAny({"coverage", "depth", "unique", "flow", "intensity", "auto"})
           /\ \E g \in Guards : Guard(g)
        \/ /\ UsesAny({"cmp", "profile"})
           /\ \/ \E c \in Compares : TraceCmp(c) \/ TraceDiv(c)
              \/ \E s \in Switches : TraceSwitch(s)
        \/ /\ UsesAny({"profile"})
           /\ \/ \E call \in Calls : TraceIndir(call)
              \/ \E m \in Memcmps : HookMemcmp(m)
        \/ Return \/ Over

Spec == Init /\ [][Next]_vars
-----------------------------------------------------------------------------
(***************************************************************************)
(* Properties                                                              *)
(***************************************************************************)
TypeOK ==
    /\ pc \in {"idle", "recording", "flagged", "plain"}
    /\ DOMAIN heap \subseteq Address /\ \A a \in DOMAIN heap : heap[a].size \in Sizes
    /\ DOMAIN tracker.map \subseteq Address
    /\ {tracker.cur, tracker.max, val, peak, best, reported} \subseteq Nat
    /\ \A s \in Sensor : memory[s] \subseteq Nat
    /\ \A b \in DOMAIN stack : stack[b].base \in 0..stack[b].record
    /\ flow.index \in DOMAIN flow.callers
    /\ inLib <=> pc = "flagged"

(* curAlloc is the sum of what is in allocMap (allocationtracker.cpp:20-51), *)
(* so it never wraps: not when a block is reallocated behind the tracker's  *)
(* back and its old address answered again, nor when blocks of earlier     *)
(* cycles, or such as the tracker never saw, are freed.                    *)
CurrentIsSum == tracker.cur = Total(tracker.map)

(* What the tracker holds in a cycle is what was allocated in it and is     *)
(* still there, of the target or of the engine, heard of while the sensor  *)
(* was on; nothing of what the engine allocated in callbacks that set      *)
(* malloc_hooks_in_lib.  It holds too much only where a block went that    *)
(* was reallocated, or freed where the tracker did not hear, and no free   *)
(* of that address has been heard of since.                                *)
TrackedIsLive ==
    pc # "idle" =>
        LET known == {a \in DOMAIN heap : heap[a].known} IN
        /\ DOMAIN tracker.map = known \union lost
        /\ \A a \in known \ lost : tracker.map[a] = heap[a].size

(* The README's conditions (README.md:21-47), on what a sensor that was on  *)
(* was told, in the cycle and in those before.                             *)
Told(logs) == UNION {{l[i] : i \in DOMAIN l} : l \in logs}
Times(l, p) == Cardinality({i \in DOMAIN l : l[i].pc = p})
Window(l, n) == [i \in 0..(TrackSize - 1) |-> IF n > i THEN l[n - i].caller ELSE 0]
Windows(logs) == UNION {{Window(l, n) : n \in DOMAIN l} : l \in logs}

(* Everything in log[b][n] is preceded by this. *)
Before(b, n) == Told(past[b]) \union {log[b][i] : i \in 1..(n - 1)}

Documented(b) ==
    LET now == log[b] IN
    CASE b = "coverage" -> \E n \in DOMAIN now : \A t \in Before(b, n) : now[n].pc # t.pc
      [] b = "depth" -> \E n \in DOMAIN now : /\ Before(b, n) # {}
                                              /\ \A t \in Before(b, n) : now[n].depth > t.depth
      [] b = "intensity" -> \A l \in past[b] : Len(now) > Len(l)
      [] b = "auto" -> \E p \in PC : Times(now, p) > 0 /\ \A l \in past[b] : Times(now, p) > Times(l, p)
      [] b = "single" -> \E n \in DOMAIN now : \A t \in Before(b, n) :
                             now[n].pc = t.pc => now[n].size > t.size
      [] b = "global" -> On(b) /\ peak > best
      [] b = "cmp" -> \E n \in DOMAIN now : \A t \in Before(b, n) :
                             now[n].pc = t.pc => Difference(now[n]) < Difference(t)
      [] b = "flow" -> ~(Windows({now}) \subseteq Windows(past[b]))

Exact == Builtin \ {"unique", "profile"}

(* A peak of an earlier cycle that had the sensor off when it stopped.      *)
Owed == On("global") /\ best > reported

(* For the built-in sensors, StopRecord() returns true exactly if the      *)
(* condition that the README has for a sensor of the target holds, or the  *)
(* peak of an earlier cycle is still owed (the tracker keeps its maximum,  *)
(* allocationglobalmax.cpp:12-16): through sensors being turned off and on *)
(* at any time, callers wrapping around in the flow trace, and addresses   *)
(* being reused.  As long as the tracker heard where its blocks went.      *)
NewsAsDocumented ==
    pc = "idle" /\ cycles > 0 /\ uses \subseteq Exact /\ ~upset =>
        (news <=> (\E b \in uses : Documented(b)) \/ Owed)

(* "Returns true if new data was registered during this cycle"             *)
(* (driver.cpp:112): no news without what the README asks for in the cycle *)
(* itself.                                                                 *)
NewsOfThisCycle ==
    pc = "idle" /\ cycles > 0 /\ uses \subseteq Exact /\ ~upset =>
        (news => \E b \in uses : Documented(b))

(* A value profile has no news without a comparison, call or prefix of      *)
(* memory that is new at its place, also when the sensor is turned off and  *)
(* on: all kinds share one bit map, reset in every cycle (valuebitmap.h:25). *)
ProfileNewsIsNew ==
    pc = "idle" /\ cycles > 0 /\ uses = {"profile"} /\ news =>
        ~(Told({log["profile"]}) \subseteq Told(past["profile"]))

(* "Add to corpus if total of unique stack pointers observed is higher      *)
(* than before" (README.md:31), while the sensor is on.                    *)
UniqueStacksCount ==
    pc = "idle" /\ cycles > 0 /\ "unique" \in uses =>
        \A n \in DOMAIN log["unique"] :
            (\A t \in Before("unique", n) : t.depth # log["unique"][n].depth) => news
=============================================================================
