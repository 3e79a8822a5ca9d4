------------------------------ MODULE Sensors ------------------------------
(***************************************************************************)
(* sensor::Driver, sensor::Container and SensorProcessor                   *)
(* (libvfuzz-runtime/src/sensor, libvfuzz-core/src/sensor).                *)
(*                                                                         *)
(* Every ID has a sensor with a processor behind it.  A value the          *)
(* processor counts as news goes to the driver's data, where it makes the  *)
(* cycle count, or, once the sensor is part of a combination, to the       *)
(* combined sensor, which keeps it until the cycle stops and then receives *)
(* the cross product of what its two parts reported.                       *)
(*                                                                         *)
(* Calls of the target and of the instrumentation reach the container only *)
(* while a cycle is recorded (g_sensor_driver is set), in any order.  A    *)
(* call may throw; the target catches that or the process is terminated.   *)
(*                                                                         *)
(* Names of sensors only reach the logs and are left out.  So is the       *)
(* flag BaseSensor::stopped: outside a cycle no call reaches a sensor.     *)
(* A subordinated sensor sends under its address instead of its ID, which  *)
(* tells a combined sensor which part a value is from; here the part is    *)
(* told directly.  Operators called slips are mistakes, see Executor.      *)
(***************************************************************************)
EXTENDS Processors, Sequences

CONSTANTS
    Id,         \* sensor IDs, in the order of the map
    Width,      \* 2^32: what is left of a value when two are packed into one
    Builtins,   \* the sensors the driver creates: [id, kind, type]
    Bindings,   \* those the target may create: [id, kind, type, off]
    Customs,    \* sensor_callback: [id, type]
    Combos,     \* sensor_combine: [id, id1, id2, type]
    Values,     \* what custom sensors and instrumentation send
    MaxEvents   \* bound of the model: events in one cycle

Data == 0

Kinds == {"custom", "pc", "late", "pair"}
Binding == [id : Id, kind : {"pc", "late"}, type : {"unique", "noop"}]
Combo == [id : Id, id1 : Id, id2 : Id, type : ProcessorType]

ASSUME SensorsAssumption ==
    /\ Id \subseteq Nat \ {Data}
    /\ Width \in Nat \ {0}
    /\ Builtins \subseteq Binding
    /\ \A b \in Bindings : [id |-> b.id, kind |-> b.kind, type |-> b.type] \in Binding
    /\ \A b \in Bindings : b.off \in BOOLEAN
    /\ Customs \subseteq [id : Id, type : ProcessorType]
    /\ Combos \subseteq Combo
    /\ Values \subseteq Nat
    /\ MaxEvents \in Nat

VARIABLES
    pc,       \* "idle", "recording", "stopping" or "terminated"
    sensors,  \* Container::IDToSensorProcessor, see Sensor
    pending,  \* Container::pending_CombineSensors
    increase, \* sensorData->increase > 0
    thrown,   \* why the last call threw, or "no"
    at,       \* loop variable of Container::Stop
    left,     \* what the sensor being stopped has yet to deliver
    events,   \* events of this cycle, bounded by MaxEvents
    asked     \* history: the combinations asked for without an exception

vars == <<pc, sensors, pending, increase, thrown, at, left, events, asked>>

(* A sensor and its processor.  A pair has parts; a late one (the value     *)
(* profile) holds its values until it is stopped.  The last two fields are  *)
(* history.                                                                *)
Sensor == [kind : Kinds,
           type : ProcessorType,
           parts : Seq(Id),
           parent : Id \union {Data}, \* where onReady leads
           off : BOOLEAN,             \* disabled
           memory : SUBSET Nat,       \* of the processor
           held : SUBSET Nat,
           first : Seq(Nat),          \* sensorDataSensor1
           second : Seq(Nat),         \* sensorDataSensor2
           heard : SUBSET Nat,        \* all its processor ever received
           reported : SUBSET Nat]     \* to its parent in this cycle

New(kind, type, off, parts, held) ==
    [kind |-> kind, type |-> type, parts |-> parts, parent |-> Data, off |-> off,
     memory |-> InitialMemory(type), held |-> held, first |-> <<>>, second |-> <<>>,
     heard |-> {}, reported |-> {}]

(* AddSensorProcessor for an ID that is not there. *)
With(s, id, sensor) == [i \in DOMAIN s \union {id} |-> IF i = id THEN sensor ELSE s[i]]

(* Driver::Driver: the built-in sensors, all disabled. *)
Init == /\ pc = "idle"
        /\ sensors = [i \in {b.id : b \in Builtins} |->
                        LET b == CHOOSE c \in Builtins : c.id = i IN New(b.kind, b.type, TRUE, <<>>, {})]
        /\ pending = [i \in {} |-> 0]
        /\ increase = FALSE
        /\ thrown = "no"
        /\ at = Data
        /\ left = {}
        /\ events = 0
        /\ asked = {}
-----------------------------------------------------------------------------
(***************************************************************************)
(* Values: from a sensor through its processor to the parent.              *)
(***************************************************************************)
(* in maps sensors to the value their processor receives. *)
News(s, in) == {i \in DOMAIN in : Counts(s[i].type, s[i].memory, in[i])}
Report(s, in, i) == Reported(s[i].type, s[i].memory, in[i])

(* SensorProcessor::internalReceiveInput: does part k of pair i report now? *)
(* A sensor combined with itself is always taken for the first part.        *)
FromPart(s, in, i, k) ==
    /\ s[i].kind = "pair"
    /\ s[i].parts[k] \in News(s, in)
    /\ s[s[i].parts[k]].parent = i
    /\ k = 2 => s[i].parts[1] # s[i].parts[2]

Received(s, in) ==
    [i \in DOMAIN s |->
        [s[i] EXCEPT
            !.memory = IF i \in DOMAIN in THEN Remember(s[i].type, @, in[i]) ELSE @,
            !.heard = IF i \in DOMAIN in THEN @ \union {in[i]} ELSE @,
            !.reported = IF i \in News(s, in) THEN @ \union {Report(s, in, i)} ELSE @,
            !.first = IF FromPart(s, in, i, 1) THEN Append(@, Report(s, in, s[i].parts[1])) ELSE @,
            !.second = IF FromPart(s, in, i, 2) THEN Append(@, Report(s, in, s[i].parts[2])) ELSE @]]

(* BaseSensor::propagate or CustomSensor::Update, and all that follows. *)
Deliver(s, in) ==
    /\ sensors' = Received(s, in)
    /\ increase' = (increase \/ \E i \in News(s, in) : s[i].parent = Data)

Nothing == [i \in {} |-> 0]
-----------------------------------------------------------------------------
(***************************************************************************)
(* The cycle.                                                              *)
(***************************************************************************)
(* Driver::StartRecord.  Buffers of combined sensors are not cleared here. *)
StartRecord ==
    /\ pc = "idle"
    /\ pc' = "recording"
    /\ increase' = FALSE
    /\ events' = 0
    /\ sensors' = [i \in DOMAIN sensors |-> [sensors[i] EXCEPT !.held = {}, !.reported = {}]]
    /\ UNCHANGED <<pending, thrown, at, left, asked>>

(* What stopping a sensor delivers to its processor: the values held, in   *)
(* ascending order, or the product of the two buffers, row by row.  The    *)
(* slip pairs the values off.                                              *)
ItemsInStep(s, i) ==
    CASE s[i].kind = "late" /\ ~s[i].off -> {0} \X s[i].held
      [] s[i].kind = "pair" /\ ~s[i].off ->
            {item \in (1..Len(s[i].first)) \X (1..Len(s[i].second)) : item[1] = item[2]}
      [] OTHER                           -> {}

Items(s, i) ==
    CASE s[i].kind = "late" /\ ~s[i].off -> {0} \X s[i].held
      [] s[i].kind = "pair" /\ ~s[i].off -> (1..Len(s[i].first)) \X (1..Len(s[i].second))
      [] OTHER                           -> {}

Packed(v, w) == (v % Width) * Width + (w % Width)

ItemValue(s, i, item) ==
    IF s[i].kind = "pair" THEN Packed(s[i].first[item[1]], s[i].second[item[2]]) ELSE item[2]

NotAfter(a, b) == a[1] < b[1] \/ (a[1] = b[1] /\ a[2] <= b[2])

(* The sensor with the least ID of a set is stopped next, if there is one. *)
StopNext(s, ids) ==
    \/ \E i \in ids : /\ \A j \in ids : i <= j
                      /\ pc' = "stopping"
                      /\ at' = i
                      /\ left' = Items(s, i)
    \/ ids = {} /\ pc' = "idle" /\ at' = Data /\ left' = {}

(* Driver::StopRecord begins: the target has returned. *)
StopRecord ==
    /\ pc = "recording"
    /\ thrown = "no"
    /\ StopNext(sensors, DOMAIN sensors)
    /\ UNCHANGED <<sensors, pending, increase, thrown, events, asked>>

(* One value that SensorProcessor::Stop, or stop() of a late sensor, delivers. *)
StopDelivers ==
    /\ pc = "stopping"
    /\ \E item \in left :
          /\ \A other \in left : NotAfter(item, other)
          /\ Deliver(sensors, [i \in {at} |-> ItemValue(sensors, at, item)])
          /\ left' = left \ {item}
    /\ UNCHANGED <<pc, pending, thrown, at, events, asked>>

(* The buffers are cleared, also those of a disabled sensor (the slip       *)
(* leaves them their content), and the loop goes on.                        *)
KeptWhenOff(s, i) ==
    [s EXCEPT ![i] = IF @.off THEN @ ELSE [@ EXCEPT !.first = <<>>, !.second = <<>>]]

Cleared(s, i) == [s EXCEPT ![i] = [@ EXCEPT !.first = <<>>, !.second = <<>>]]

StopEnds ==
    /\ pc = "stopping"
    /\ left = {}
    /\ sensors' = Cleared(sensors, at)
    /\ StopNext(sensors, {i \in DOMAIN sensors : i > at})
    /\ UNCHANGED <<pending, increase, thrown, events, asked>>
-----------------------------------------------------------------------------
(***************************************************************************)
(* Calls of the target while the cycle is recorded.                        *)
(***************************************************************************)
Callable == pc = "recording" /\ thrown = "no"

(* Container::CombineSensors, on the sensors s. *)
Ready(s, c) == {c.id1, c.id2} \subseteq DOMAIN s
Duplicate(s, c) == Ready(s, c) /\ c.id \in DOMAIN s

Combined(s, c) ==
    [i \in DOMAIN s \union {c.id} |->
        IF i = c.id THEN New("pair", c.type, FALSE, <<c.id1, c.id2>>, {})
        ELSE IF i \in {c.id1, c.id2} THEN [s[i] EXCEPT !.parent = c.id, !.reported = {}]
        ELSE s[i]]

(* An ID that is taken is noticed before the parts are touched.  The slip   *)
(* notices it after that.                                                  *)
AfterTakingParts(s, c) ==
    IF Ready(s, c)
    THEN [Combined(s, c) EXCEPT ![c.id] = IF c.id \in DOMAIN s THEN s[c.id] ELSE @]
    ELSE s

AfterCombine(s, c) == IF Ready(s, c) /\ ~Duplicate(s, c) THEN Combined(s, c) ELSE s

(* The request waits under both of its parts, over what waited there.  The *)
(* slip files it under one.                                                *)
FiledOnce(s, c) ==
    IF Ready(s, c)
    THEN IF Duplicate(s, c) THEN pending
         ELSE [i \in DOMAIN pending \ {c.id1, c.id2} |-> pending[i]]
    ELSE [i \in DOMAIN pending \union {c.id1} |-> IF i = c.id1 THEN c ELSE pending[i]]

Filed(s, c) ==
    IF Ready(s, c)
    THEN IF Duplicate(s, c) THEN pending
         ELSE [i \in DOMAIN pending \ {c.id1, c.id2} |-> pending[i]]
    ELSE [i \in DOMAIN pending \union {c.id1, c.id2} |->
            IF i \in {c.id1, c.id2} THEN c ELSE pending[i]]

(* sensor_combine *)
CombineSensors(c) ==
    /\ Callable
    /\ sensors' = AfterCombine(sensors, c)
    /\ pending' = Filed(sensors, c)
    /\ IF Duplicate(sensors, c)
       THEN thrown' = "duplicate" /\ UNCHANGED asked
       ELSE asked' = asked \union {c} /\ UNCHANGED thrown
    /\ UNCHANGED <<pc, increase, at, left, events>>

(* sensor_callback for an ID that is somebody else's, or with another type. *)
CallbackRefused(c) ==
    /\ Callable
    /\ c.id \in DOMAIN sensors
    /\ \/ sensors[c.id].kind # "custom" /\ thrown' = "should never happen"
       \/ sensors[c.id].kind = "custom" /\ sensors[c.id].type # c.type /\ thrown' = "other type"
    /\ UNCHANGED <<pc, sensors, pending, increase, at, left, events, asked>>

(* sensor_callback: the sensor is there or is created, a combination that  *)
(* waits for it is tried, and the value is sent.                           *)
Created(c) ==
    IF c.id \in DOMAIN sensors THEN sensors
    ELSE With(sensors, c.id, New("custom", c.type, FALSE, <<>>, {}))

Callback(c, v) ==
    /\ Callable
    /\ events < MaxEvents
    /\ c.id \in DOMAIN sensors => sensors[c.id].kind = "custom" /\ sensors[c.id].type = c.type
    /\ c.id \in DOMAIN pending => ~Duplicate(Created(c), pending[c.id])
    /\ LET s == IF c.id \in DOMAIN pending THEN AfterCombine(Created(c), pending[c.id])
                                           ELSE Created(c)
       IN Deliver(s, IF s[c.id].off THEN Nothing ELSE [i \in {c.id} |-> v])
    /\ pending' = IF c.id \in DOMAIN pending THEN Filed(Created(c), pending[c.id]) ELSE pending
    /\ events' = events + 1
    /\ UNCHANGED <<pc, thrown, at, left, asked>>

(* ... and when that combination's own ID is taken, nothing is sent. *)
CallbackDuplicate(c) ==
    /\ Callable
    /\ c.id \in DOMAIN sensors => sensors[c.id].kind = "custom" /\ sensors[c.id].type = c.type
    /\ c.id \in DOMAIN pending
    /\ Duplicate(Created(c), pending[c.id])
    /\ sensors' = Created(c)
    /\ thrown' = "duplicate"
    /\ UNCHANGED <<pc, pending, increase, at, left, events, asked>>

(* sensor_bind_builtin (disabled) and sensor_from_core_builtin (enabled).   *)
(* The bit map of a late sensor is not initialised before the next cycle.  *)
Uninitialised(kind) == IF kind = "late" THEN SUBSET Values ELSE {{}}

Bind(b) ==
    /\ Callable
    /\ IF b.id \in DOMAIN sensors
       THEN thrown' = "duplicate" /\ UNCHANGED sensors
       ELSE /\ \E held \in Uninitialised(b.kind) :
                  sensors' = With(sensors, b.id, New(b.kind, b.type, b.off, <<>>, held))
            /\ UNCHANGED thrown
    /\ UNCHANGED <<pc, pending, increase, at, left, events, asked>>

(* sensor_enable and sensor_disable; an unknown ID is ignored. *)
SetOff(id, off) ==
    /\ Callable
    /\ id \in DOMAIN sensors
    /\ sensors' = [sensors EXCEPT ![id].off = off]
    /\ UNCHANGED <<pc, pending, increase, thrown, at, left, events, asked>>

(* sensor_get_value: a SensorProcessor never gets a last value. *)
GetValue(id) ==
    /\ Callable
    /\ thrown' = IF id \in DOMAIN sensors THEN "unset sensor" ELSE "non-existing"
    /\ UNCHANGED <<pc, sensors, pending, increase, at, left, events, asked>>

(* Instrumentation: all enabled sensors of a kind see the value. *)
Listening(kind) == {i \in DOMAIN sensors : sensors[i].kind = kind /\ ~sensors[i].off}

AddPC(v) ==
    /\ Callable
    /\ events < MaxEvents
    /\ Deliver(sensors, [i \in Listening("pc") |-> v])
    /\ events' = events + 1
    /\ UNCHANGED <<pc, pending, thrown, at, left, asked>>

AddLate(v) ==
    /\ Callable
    /\ events < MaxEvents
    /\ sensors' = [i \in DOMAIN sensors |->
                     [sensors[i] EXCEPT !.held = IF i \in Listening("late") THEN @ \union {v} ELSE @]]
    /\ events' = events + 1
    /\ UNCHANGED <<pc, pending, increase, thrown, at, left, asked>>

(* The target handles the exception, or nobody does. *)
Caught == /\ pc = "recording"
          /\ thrown # "no"
          /\ thrown' = "no"
          /\ UNCHANGED <<pc, sensors, pending, increase, at, left, events, asked>>

Uncaught == /\ pc = "recording"
            /\ thrown # "no"
            /\ pc' = "terminated"
            /\ UNCHANGED <<sensors, pending, increase, thrown, at, left, events, asked>>

Halted == pc = "terminated" /\ UNCHANGED vars

Next == \/ StartRecord
        \/ StopRecord
        \/ StopDelivers
        \/ StopEnds
        \/ \E c \in Combos : CombineSensors(c)
        \/ \E c \in Customs : CallbackRefused(c) \/ CallbackDuplicate(c)
        \/ \E c \in Customs, v \in Values : Callback(c, v)
        \/ \E b \in Bindings : Bind(b)
        \/ \E id \in Id, off \in BOOLEAN : SetOff(id, off)
        \/ \E id \in Id : GetValue(id)
        \/ \E v \in Values : AddPC(v) \/ AddLate(v)
        \/ Caught
        \/ Uncaught
        \/ Halted

Spec == Init /\ [][Next]_vars
-----------------------------------------------------------------------------
TypeOK ==
    /\ pc \in {"idle", "recording", "stopping", "terminated"}
    /\ DOMAIN sensors \subseteq Id
    /\ sensors \in [DOMAIN sensors -> Sensor]
    /\ \A i \in DOMAIN sensors : IsFiniteSet(sensors[i].memory)
    /\ DOMAIN pending \subseteq Id
    /\ pending \in [DOMAIN pending -> Combos]
    /\ increase \in BOOLEAN
    /\ thrown \in {"no", "duplicate", "should never happen", "other type", "unset sensor",
                   "non-existing"}
    /\ at \in DOMAIN sensors \union {Data}
    /\ left \subseteq Nat \X Nat
    /\ events \in 0..MaxEvents
    /\ asked \subseteq Combos
-----------------------------------------------------------------------------
(***************************************************************************)
(* Properties                                                              *)
(***************************************************************************)
Part(s, i, k) == s[i].parts[k]

(* A sensor reports to one place only, and a combined sensor gets values   *)
(* from nothing but its own parts (processor/sensor.cpp:59-69): a parent is *)
(* always a pair that names the child, and a pair's parts exist.           *)
Routed ==
    \A i \in DOMAIN sensors :
        /\ sensors[i].kind = "pair" =>
              /\ Len(sensors[i].parts) = 2
              /\ \A k \in {1, 2} : Part(sensors, i, k) \in DOMAIN sensors \ {i}
        /\ sensors[i].parent # Data =>
              /\ sensors[i].parent \in DOMAIN sensors
              /\ sensors[sensors[i].parent].kind = "pair"
              /\ \E k \in {1, 2} : Part(sensors, sensors[i].parent, k) = i

(* Part k of pair i is still its own, and delivers nothing after pair i    *)
(* was stopped: it delivers at once, or has the smaller ID.                *)
InTime(s, i, k) == Part(s, i, k) < i \/ s[Part(s, i, k)].kind \in {"custom", "pc"}
Feeds(s, i, k) == /\ s[Part(s, i, k)].parent = i
                  /\ InTime(s, i, k)
                  /\ k = 2 => Part(s, i, 1) # Part(s, i, 2)

(* Has sensor i been stopped since the cycle began? *)
Stopped(i) == pc = "idle" \/ (pc = "stopping" /\ i < at)

Buffer(s, i, k) == IF k = 1 THEN s[i].first ELSE s[i].second

Elements(seq) == {seq[n] : n \in 1..Len(seq)}

(* "Returns true if new data was registered during this cycle"             *)
(* (driver.cpp:112): what a combined sensor has buffered is exactly what   *)
(* its parts reported to it in this cycle, and nothing once it has been    *)
(* stopped, although nothing clears the buffers when a cycle starts.  For  *)
(* parts that deliver in time.                                             *)
BuffersOfThisCycle ==
    \A i \in DOMAIN sensors : sensors[i].kind = "pair" =>
        \A k \in {1, 2} : Feeds(sensors, i, k) =>
            IF Stopped(i) THEN Buffer(sensors, i, k) = <<>>
            ELSE Elements(Buffer(sensors, i, k)) = sensors[Part(sensors, i, k)].reported

(* When a combined sensor has been stopped, its processor was given every   *)
(* combination of what its parts reported in this cycle, unless it is      *)
(* disabled (processor/sensor.cpp:105-126).                                *)
ProductHeard ==
    pc = "stopping" /\ left = {} /\ sensors[at].kind = "pair" /\ ~sensors[at].off =>
        (Feeds(sensors, at, 1) /\ Feeds(sensors, at, 2) =>
            \A v \in sensors[Part(sensors, at, 1)].reported, w \in sensors[Part(sensors, at, 2)].reported :
                Packed(v, w) \in sensors[at].heard)

(* "new data was registered during this cycle" again, without the condition *)
(* on the order of IDs: a combined sensor receives products of what its     *)
(* parts reported in this cycle.                                            *)
CombinesThisCycle ==
    \A item \in left : sensors[at].kind = "pair" =>
        /\ sensors[at].first[item[1]] \in sensors[Part(sensors, at, 1)].reported
        /\ sensors[at].second[item[2]] \in sensors[Part(sensors, at, 2)].reported

(* A request that shares neither its ID nor a part with another one. *)
Sole(c) == \A d \in asked \ {c} : d.id # c.id /\ {d.id1, d.id2} \intersect {c.id1, c.id2} = {}

Made(c) ==
    /\ c.id \in DOMAIN sensors
    /\ sensors[c.id].kind = "pair"
    /\ sensors[c.id].parts = <<c.id1, c.id2>>

Waiting(c) == \A i \in {c.id1, c.id2} : i \in DOMAIN pending /\ pending[i] = c

(* A combination asked for is made, or waits under both of its parts, and  *)
(* that only while a part is missing, unless its ID is taken or a part is  *)
(* no custom sensor (container.cpp:154-160, 212-215): no order of the      *)
(* callbacks that create the parts loses it.                               *)
NotForgotten ==
    \A c \in asked : Sole(c) =>
        \/ Made(c)
        \/ /\ Waiting(c)
           /\ \/ ~Ready(sensors, c)
              \/ c.id \in DOMAIN sensors
              \/ \E i \in {c.id1, c.id2} : sensors[i].kind # "custom"

(* The memory of every processor is what the values it was ever given make  *)
(* it, whatever the order and the cycle they came in, and however the      *)
(* sensor was combined or disabled in between.                             *)
MemoryMatches ==
    \A i \in DOMAIN sensors : Matches(sensors[i].type, sensors[i].memory, sensors[i].heard)

(* "add inputs to the corpus" (README.md:15): the cycle counts exactly if a *)
(* sensor that is not part of another was given a value that beats all it  *)
(* was given before.  (A noop processor counts everything, so the property *)
(* looks at steps without one that reports to the data.)                   *)
HeardBefore(i) == IF i \in DOMAIN sensors THEN sensors[i].heard ELSE {}

BeatsAll(i) == sensors'[i].parent = Data /\ Beats(sensors'[i].type, sensors'[i].heard, HeardBefore(i))

NoNoopAtTop == \A i \in DOMAIN sensors : sensors[i].parent = Data => sensors[i].type # "noop"

IncreaseIsNews ==
    [][~(pc = "idle") /\ NoNoopAtTop' =>
        (increase' <=> increase \/ \E i \in DOMAIN sensors' : BeatsAll(i))]_vars
=============================================================================
