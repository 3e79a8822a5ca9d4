--------------------------- MODULE SensorsProofs ---------------------------
(***************************************************************************)
(* Proofs about Sensors, for any IDs, sensors, combinations and values.    *)
(***************************************************************************)
EXTENDS Sensors, SequenceTheorems, FiniteSetTheorems, TLAPS

(***************************************************************************)
(* Operators on tables of sensors, and on what is delivered to them.       *)
(***************************************************************************)
SensorsOK(s) == /\ DOMAIN s \subseteq Id
                /\ s \in [DOMAIN s -> Sensor]
                /\ \A i \in DOMAIN s : IsFiniteSet(s[i].memory)

InOK(s, in) == DOMAIN in \subseteq DOMAIN s /\ \A i \in DOMAIN in : in[i] \in Nat

(* A new sensor is a sensor, and has at most one value in its memory.      *)
LEMMA NewOK ==
    ASSUME NEW kind \in Kinds, NEW type \in ProcessorType, NEW off \in BOOLEAN,
           NEW parts \in Seq(Id), NEW held \in SUBSET Nat
    PROVE  /\ New(kind, type, off, parts, held) \in Sensor
           /\ IsFiniteSet(New(kind, type, off, parts, held).memory)
<1>1. InitialMemory(type) \in SUBSET Nat /\ IsFiniteSet(InitialMemory(type))
    <2>1. IsFiniteSet({}) /\ IsFiniteSet({0})
        BY FS_EmptySet, FS_Singleton
    <2> QED BY <2>1 DEF InitialMemory
<1>2. <<>> \in Seq(Nat)
    OBVIOUS
<1>3. New(kind, type, off, parts, held).memory = InitialMemory(type)
    BY DEF New
<1>4. ASSUME NEW m \in SUBSET Nat
      PROVE  [kind |-> kind, type |-> type, parts |-> parts, parent |-> Data, off |-> off,
              memory |-> m, held |-> held, first |-> <<>>, second |-> <<>>,
              heard |-> {}, reported |-> {}] \in Sensor
    BY <1>2 DEF Sensor
<1>5. New(kind, type, off, parts, held) \in Sensor
    BY <1>1, <1>4 DEF New
<1> QED BY <1>1, <1>3, <1>5

(* What a processor remembers and reports. *)
LEMMA RememberOK ==
    ASSUME NEW type \in ProcessorType, NEW memory \in SUBSET Nat, IsFiniteSet(memory),
           NEW v \in Nat
    PROVE  /\ Remember(type, memory, v) \in SUBSET Nat
           /\ IsFiniteSet(Remember(type, memory, v))
           /\ Reported(type, memory, v) \in Nat
<1>1. IsFiniteSet(memory \union {v}) /\ IsFiniteSet({v})
    BY FS_AddElement, FS_Singleton
<1>2. Cardinality(memory) + 1 \in Nat
    BY FS_CardinalityType
<1> QED BY <1>1, <1>2 DEF Remember, Reported

(* Delivering values keeps a table of sensors a table of sensors. *)
LEMMA ReceivedOK ==
    ASSUME NEW s, NEW in, SensorsOK(s), InOK(s, in)
    PROVE  DOMAIN Received(s, in) = DOMAIN s /\ SensorsOK(Received(s, in))
<1> DEFINE r == Received(s, in)
<1>1. DOMAIN r = DOMAIN s
    BY DEF Received
<1>2. ASSUME NEW i \in DOMAIN s  PROVE r[i] \in Sensor /\ IsFiniteSet(r[i].memory)
    <2>1. s[i] \in Sensor /\ IsFiniteSet(s[i].memory)
        BY <1>2 DEF SensorsOK
    <2>2. ASSUME NEW j \in DOMAIN in
          PROVE  /\ Remember(s[j].type, s[j].memory, in[j]) \in SUBSET Nat
                 /\ IsFiniteSet(Remember(s[j].type, s[j].memory, in[j]))
                 /\ Report(s, in, j) \in Nat
                 /\ in[j] \in Nat
        <3>1. s[j] \in Sensor /\ IsFiniteSet(s[j].memory) /\ in[j] \in Nat
            BY <2>2 DEF SensorsOK, InOK
        <3>2. s[j].type \in ProcessorType /\ s[j].memory \in SUBSET Nat
            BY <3>1 DEF Sensor
        <3> QED BY <3>1, <3>2, RememberOK DEF Report
    <2>3. ASSUME NEW k \in {1, 2}, FromPart(s, in, i, k)
          PROVE  Report(s, in, s[i].parts[k]) \in Nat
        <3>1. s[i].parts[k] \in DOMAIN in
            BY <2>3 DEF FromPart, News
        <3> QED BY <3>1, <2>2
    <2>4. ASSUME i \in News(s, in)  PROVE i \in DOMAIN in
        BY <2>4 DEF News
    <2> DEFINE t == s[i]
               mem == IF i \in DOMAIN in THEN Remember(t.type, t.memory, in[i]) ELSE t.memory
               hrd == IF i \in DOMAIN in THEN t.heard \union {in[i]} ELSE t.heard
               rep == IF i \in News(s, in) THEN t.reported \union {Report(s, in, i)} ELSE t.reported
               fst == IF FromPart(s, in, i, 1) THEN Append(t.first, Report(s, in, t.parts[1])) ELSE t.first
               snd == IF FromPart(s, in, i, 2) THEN Append(t.second, Report(s, in, t.parts[2])) ELSE t.second
    <2>5. r[i] = [t EXCEPT !.memory = mem, !.heard = hrd, !.reported = rep, !.first = fst, !.second = snd]
        BY <2>1 DEF Received, Sensor
    <2>6. mem \in SUBSET Nat /\ IsFiniteSet(mem)
        BY <2>1, <2>2 DEF Sensor
    <2>7. hrd \in SUBSET Nat
        BY <2>1, <2>2 DEF Sensor
    <2>8. rep \in SUBSET Nat
        BY <2>1, <2>2, <2>4 DEF Sensor
    <2>9. fst \in Seq(Nat)
        BY <2>1, <2>3 DEF Sensor
    <2>10. snd \in Seq(Nat)
        BY <2>1, <2>3 DEF Sensor
    <2> HIDE DEF mem, hrd, rep, fst, snd
    <2> QED BY <2>1, <2>5, <2>6, <2>7, <2>8, <2>9, <2>10 DEF Sensor
<1>3. r \in [DOMAIN r -> Sensor]
    BY <1>1, <1>2 DEF Received
<1> QED BY <1>1, <1>2, <1>3 DEF SensorsOK

(* Adding a sensor under an ID. *)
LEMMA WithOK ==
    ASSUME NEW s, SensorsOK(s), NEW id \in Id, NEW sensor \in Sensor, IsFiniteSet(sensor.memory)
    PROVE  DOMAIN With(s, id, sensor) = DOMAIN s \union {id} /\ SensorsOK(With(s, id, sensor))
BY DEF With, SensorsOK

(* The fields of a request to combine. *)
LEMMA ComboFields ==
    ASSUME NEW c \in Combos
    PROVE  c.id \in Id /\ c.id1 \in Id /\ c.id2 \in Id /\ c.type \in ProcessorType
BY SensorsAssumption DEF SensorsAssumption, Combo

(* Combining two sensors. *)
LEMMA CombinedOK ==
    ASSUME NEW s, SensorsOK(s), NEW c \in Combos, Ready(s, c), ~Duplicate(s, c)
    PROVE  DOMAIN Combined(s, c) = DOMAIN s \union {c.id} /\ SensorsOK(Combined(s, c))
<1> DEFINE r == Combined(s, c)
           pair == New("pair", c.type, FALSE, <<c.id1, c.id2>>, {})
<1>1. c.id \in Id /\ c.id1 \in Id /\ c.id2 \in Id /\ c.type \in ProcessorType
    BY ComboFields
<1>2. c.id \notin DOMAIN s
    BY DEF Duplicate
<1>3. DOMAIN r = DOMAIN s \union {c.id}
    BY DEF Combined
<1>4. pair \in Sensor /\ IsFiniteSet(pair.memory)
    <2>1. "pair" \in Kinds /\ FALSE \in BOOLEAN /\ <<c.id1, c.id2>> \in Seq(Id) /\ {} \in SUBSET Nat
        BY <1>1 DEF Kinds
    <2> QED BY <1>1, <2>1, NewOK
<1> HIDE DEF pair
<1>5. ASSUME NEW i \in DOMAIN s
      PROVE  r[i] \in Sensor /\ IsFiniteSet(r[i].memory)
    <2>1. s[i] \in Sensor /\ IsFiniteSet(s[i].memory)
        BY DEF SensorsOK
    <2>2. r[i] = s[i] \/ r[i] = [s[i] EXCEPT !.parent = c.id, !.reported = {}]
        BY <1>2 DEF Combined
    <2>3. [s[i] EXCEPT !.parent = c.id, !.reported = {}] \in Sensor
        BY <2>1, <1>1 DEF Sensor
    <2>4. [s[i] EXCEPT !.parent = c.id, !.reported = {}].memory = s[i].memory
        BY <2>1 DEF Sensor
    <2> QED BY <2>1, <2>2, <2>3, <2>4
<1>6. r[c.id] = pair
    BY DEF Combined, pair
<1>7. \A i \in DOMAIN r : r[i] \in Sensor /\ IsFiniteSet(r[i].memory)
    BY <1>3, <1>4, <1>5, <1>6
<1>8. r \in [DOMAIN r -> Sensor]
    BY <1>7 DEF Combined
<1>9. DOMAIN r \subseteq Id
    BY <1>1, <1>3 DEF SensorsOK
<1> QED BY <1>3, <1>7, <1>8, <1>9 DEF SensorsOK

LEMMA AfterCombineOK ==
    ASSUME NEW s, SensorsOK(s), NEW c \in Combos
    PROVE  DOMAIN s \subseteq DOMAIN AfterCombine(s, c) /\ SensorsOK(AfterCombine(s, c))
<1>1. CASE Ready(s, c) /\ ~Duplicate(s, c)
    BY <1>1, CombinedOK DEF AfterCombine
<1>2. CASE ~(Ready(s, c) /\ ~Duplicate(s, c))
    BY <1>2 DEF AfterCombine
<1> QED BY <1>1, <1>2

(* The table of requests keeps its type. *)
LEMMA FiledOK ==
    ASSUME NEW s, NEW c \in Combos, DOMAIN pending \subseteq Id, pending \in [DOMAIN pending -> Combos]
    PROVE  DOMAIN Filed(s, c) \subseteq Id /\ Filed(s, c) \in [DOMAIN Filed(s, c) -> Combos]
<1>1. c.id1 \in Id /\ c.id2 \in Id
    BY ComboFields
<1>2. CASE Ready(s, c) /\ Duplicate(s, c)
    BY <1>2 DEF Filed
<1>3. CASE Ready(s, c) /\ ~Duplicate(s, c)
    BY <1>3 DEF Filed
<1>4. CASE ~Ready(s, c)
    <2> DEFINE f == [i \in DOMAIN pending \union {c.id1, c.id2} |-> IF i \in {c.id1, c.id2} THEN c ELSE pending[i]]
    <2>1. Filed(s, c) = f
        BY <1>4 DEF Filed
    <2>2. DOMAIN f \subseteq Id /\ f \in [DOMAIN f -> Combos]
        BY <1>1
    <2> QED BY <2>1, <2>2
<1> QED BY <1>2, <1>3, <1>4

(* A callback creates the sensor it needs. *)
LEMMA CreatedOK ==
    ASSUME NEW s, s = sensors, SensorsOK(s), NEW c \in Customs
    PROVE  /\ DOMAIN Created(c) = DOMAIN s \union {c.id}
           /\ SensorsOK(Created(c))
<1>1. c.id \in Id /\ c.type \in ProcessorType
    BY SensorsAssumption DEF SensorsAssumption
<1>2. /\ New("custom", c.type, FALSE, <<>>, {}) \in Sensor
      /\ IsFiniteSet(New("custom", c.type, FALSE, <<>>, {}).memory)
    <2>1. "custom" \in Kinds /\ FALSE \in BOOLEAN /\ <<>> \in Seq(Id) /\ {} \in SUBSET Nat
        BY DEF Kinds
    <2> QED BY <1>1, <2>1, NewOK
<1>3. CASE c.id \in DOMAIN s
    BY <1>3 DEF Created
<1>4. CASE c.id \notin DOMAIN s
    BY <1>1, <1>2, <1>4, WithOK DEF Created
<1> QED BY <1>3, <1>4

(* What is delivered when a sensor stops are natural numbers. *)
LEMMA ItemsOK ==
    ASSUME NEW s, SensorsOK(s), NEW i \in DOMAIN s, NEW item \in Items(s, i)
    PROVE  item \in Nat \X Nat /\ ItemValue(s, i, item) \in Nat
<1>1. s[i] \in Sensor
    BY DEF SensorsOK
<1>2. CASE s[i].kind = "late" /\ ~s[i].off
    BY <1>1, <1>2 DEF Items, ItemValue, Sensor
<1>3. CASE s[i].kind = "pair" /\ ~s[i].off
    <2>1. item \in (1..Len(s[i].first)) \X (1..Len(s[i].second))
        BY <1>3 DEF Items
    <2>2. s[i].first \in Seq(Nat) /\ s[i].second \in Seq(Nat)
        BY <1>1 DEF Sensor
    <2>3. item[1] \in 1..Len(s[i].first) /\ item[2] \in 1..Len(s[i].second) /\ item = <<item[1], item[2]>>
        BY <2>1
    <2>4. s[i].first[item[1]] \in Nat /\ s[i].second[item[2]] \in Nat
        BY <2>2, <2>3, ElementOfSeq
    <2>5. \A v, w \in Nat : Packed(v, w) \in Nat
        BY SensorsAssumption DEF SensorsAssumption, Packed
    <2>6. Packed(s[i].first[item[1]], s[i].second[item[2]]) \in Nat
        BY <2>4, <2>5
    <2>7. item \in Nat \X Nat
        BY <2>2, <2>3
    <2> QED BY <1>3, <2>6, <2>7 DEF ItemValue
<1>4. CASE ~(s[i].kind = "late" /\ ~s[i].off) /\ ~(s[i].kind = "pair" /\ ~s[i].off)
    BY <1>4 DEF Items
<1> QED BY <1>2, <1>3, <1>4

(* Deliveries add to what is still to be delivered, and take nothing away. *)
LEMMA ItemsGrow ==
    ASSUME NEW s, NEW in, SensorsOK(s), InOK(s, in), NEW i \in DOMAIN s
    PROVE  Items(s, i) \subseteq Items(Received(s, in), i)
<1> DEFINE r == Received(s, in)
<1>1. s[i] \in Sensor /\ r[i] \in Sensor
    BY ReceivedOK DEF SensorsOK
<1>2. r[i].kind = s[i].kind /\ r[i].off = s[i].off /\ r[i].held = s[i].held
    BY <1>1 DEF Received, Sensor
<1>3. s[i].first \in Seq(Nat) /\ s[i].second \in Seq(Nat)
    BY <1>1 DEF Sensor
<1>4. Len(s[i].first) \in Nat /\ Len(r[i].first) \in Nat /\ Len(s[i].first) <= Len(r[i].first)
    <2>1. r[i].first = IF FromPart(s, in, i, 1) THEN Append(s[i].first, Report(s, in, s[i].parts[1])) ELSE s[i].first
        BY <1>1 DEF Received, Sensor
    <2>2. r[i].first \in Seq(Nat)
        BY <1>1 DEF Sensor
    <2> HIDE DEF r
    <2> QED BY <1>3, <2>1, <2>2
<1>5. Len(s[i].second) \in Nat /\ Len(r[i].second) \in Nat /\ Len(s[i].second) <= Len(r[i].second)
    <2>1. r[i].second = IF FromPart(s, in, i, 2) THEN Append(s[i].second, Report(s, in, s[i].parts[2])) ELSE s[i].second
        BY <1>1 DEF Received, Sensor
    <2>2. r[i].second \in Seq(Nat)
        BY <1>1 DEF Sensor
    <2> HIDE DEF r
    <2> QED BY <1>3, <2>1, <2>2
<1>6. 1..Len(s[i].first) \subseteq 1..Len(r[i].first) /\ 1..Len(s[i].second) \subseteq 1..Len(r[i].second)
    BY <1>4, <1>5
<1> HIDE DEF r
<1>7. Items(s, i) \subseteq Items(r, i)
    BY <1>2, <1>6 DEF Items
<1> QED BY <1>7 DEF r
-----------------------------------------------------------------------------
(***************************************************************************)
(* Types.  A sensor is being stopped exactly in pc "stopping", and what is *)
(* left to deliver is some of its items.                                   *)
(***************************************************************************)
LeftOK ==
    /\ pc = "stopping" => at \in DOMAIN sensors /\ left \subseteq Items(sensors, at)
    /\ pc # "stopping" => at = Data /\ left = {}

TypeInv == TypeOK /\ LeftOK

LEMMA TypeOKSensors == ASSUME TypeOK PROVE SensorsOK(sensors)
BY DEF TypeOK, SensorsOK

(* The loop over the sensors moves on to one of those that remain, or ends. *)
LEMMA StopNextOK ==
    ASSUME NEW s, NEW ids \in SUBSET DOMAIN s, SensorsOK(s), StopNext(s, ids)
    PROVE  /\ pc' \in {"stopping", "idle"}
           /\ pc' = "stopping" => at' \in ids /\ left' = Items(s, at')
           /\ pc' # "stopping" => at' = Data /\ left' = {}
           /\ at' \in DOMAIN s \union {Data}
           /\ left' \subseteq Nat \X Nat
<1>1. CASE ids = {} /\ pc' = "idle" /\ at' = Data /\ left' = {}
    BY <1>1
<1>2. ASSUME NEW i \in ids, pc' = "stopping", at' = i, left' = Items(s, i)
      PROVE  /\ at' \in ids /\ left' = Items(s, at') /\ at' \in DOMAIN s
             /\ left' \subseteq Nat \X Nat
    BY <1>2, ItemsOK
<1> QED BY <1>1, <1>2 DEF StopNext

(* Delivering something keeps the types, and what is left to deliver. *)
LEMMA DeliverOK ==
    ASSUME NEW s, NEW in, SensorsOK(s), InOK(s, in), Deliver(s, in), increase \in BOOLEAN
    PROVE  /\ sensors' = Received(s, in)
           /\ DOMAIN sensors' = DOMAIN s
           /\ SensorsOK(sensors')
           /\ increase' \in BOOLEAN
<1>1. sensors' = Received(s, in)
    BY DEF Deliver
<1>2. increase' \in BOOLEAN
    BY DEF Deliver
<1> QED BY <1>1, <1>2, ReceivedOK

LEMMA InitTypes == Init => TypeInv
<1> SUFFICES ASSUME Init PROVE TypeInv
    OBVIOUS
<1>1. ASSUME NEW i \in DOMAIN sensors
      PROVE  i \in Id /\ sensors[i] \in Sensor /\ IsFiniteSet(sensors[i].memory)
    <2> DEFINE b == CHOOSE c \in Builtins : c.id = i
    <2>1. b \in Builtins /\ b.id = i
        BY DEF Init
    <2>2. b.id \in Id /\ b.kind \in Kinds /\ b.type \in ProcessorType
        BY <2>1, SensorsAssumption DEF SensorsAssumption, Binding, Kinds, ProcessorType
    <2>3. sensors[i] = New(b.kind, b.type, TRUE, <<>>, {})
        BY DEF Init
    <2>4. TRUE \in BOOLEAN /\ <<>> \in Seq(Id) /\ {} \in SUBSET Nat
        OBVIOUS
    <2> HIDE DEF b
    <2> QED BY <2>1, <2>2, <2>3, <2>4, NewOK
<1>2. sensors \in [DOMAIN sensors -> Sensor]
    BY <1>1 DEF Init
<1>3. DOMAIN pending \subseteq Id /\ pending \in [DOMAIN pending -> Combos]
    BY DEF Init
<1>4. events \in 0..MaxEvents
    BY SensorsAssumption DEF Init, SensorsAssumption
<1>5. TypeOK
    BY <1>1, <1>2, <1>3, <1>4 DEF TypeOK, Init
<1>6. LeftOK
    BY DEF LeftOK, Init
<1> QED BY <1>5, <1>6 DEF TypeInv

LEMMA CycleTypes ==
    ASSUME TypeInv, StartRecord \/ StopRecord \/ StopDelivers \/ StopEnds
    PROVE  TypeInv'
<1> USE DEF TypeInv
<1>0. SensorsOK(sensors)
    BY TypeOKSensors
<1>1. CASE StartRecord
    <2>1. ASSUME NEW i \in DOMAIN sensors
          PROVE  /\ sensors'[i] \in Sensor
                 /\ IsFiniteSet(sensors'[i].memory)
        <3>1. sensors[i] \in Sensor /\ IsFiniteSet(sensors[i].memory)
            BY <1>0 DEF SensorsOK
        <3>2. sensors'[i] = [sensors[i] EXCEPT !.held = {}, !.reported = {}]
            BY <1>1 DEF StartRecord
        <3> QED BY <3>1, <3>2 DEF Sensor
    <2>2. DOMAIN sensors' = DOMAIN sensors /\ sensors' \in [DOMAIN sensors' -> Sensor]
        BY <1>1, <2>1 DEF StartRecord
    <2>3. at = Data /\ left = {}
        BY <1>1 DEF StartRecord, LeftOK
    <2>4. /\ pc' = "recording" /\ increase' = FALSE /\ events' = 0
          /\ UNCHANGED <<pending, thrown, at, left, asked>>
        BY <1>1 DEF StartRecord
    <2>5. events' \in 0..MaxEvents
        BY <2>4, SensorsAssumption DEF SensorsAssumption
    <2>6. TypeOK'
        BY <2>1, <2>2, <2>3, <2>4, <2>5 DEF TypeOK
    <2> QED BY <2>3, <2>4, <2>6 DEF LeftOK
<1>2. CASE StopRecord
    <2>1. StopNext(sensors, DOMAIN sensors)
        BY <1>2 DEF StopRecord
    <2>2. /\ pc' \in {"stopping", "idle"}
          /\ pc' = "stopping" => at' \in DOMAIN sensors /\ left' = Items(sensors, at')
          /\ pc' # "stopping" => at' = Data /\ left' = {}
          /\ at' \in DOMAIN sensors \union {Data}
          /\ left' \subseteq Nat \X Nat
        BY <1>0, <2>1, StopNextOK
    <2>3. TypeOK'
        BY <1>2, <2>2 DEF StopRecord, TypeOK
    <2>4. LeftOK'
        BY <1>2, <2>2 DEF StopRecord, LeftOK
    <2> QED BY <2>3, <2>4
<1>3. CASE StopDelivers
    <2>1. PICK item \in left : /\ Deliver(sensors, [i \in {at} |-> ItemValue(sensors, at, item)])
                               /\ left' = left \ {item}
        BY <1>3 DEF StopDelivers
    <2> DEFINE in == [i \in {at} |-> ItemValue(sensors, at, item)]
    <2>2. at \in DOMAIN sensors /\ left \subseteq Items(sensors, at)
        BY <1>3 DEF StopDelivers, LeftOK
    <2>3. InOK(sensors, in)
        BY <1>0, <2>1, <2>2, ItemsOK DEF InOK
    <2>4. increase \in BOOLEAN
        BY DEF TypeOK
    <2>5. /\ sensors' = Received(sensors, in)
          /\ DOMAIN sensors' = DOMAIN sensors
          /\ SensorsOK(sensors')
          /\ increase' \in BOOLEAN
        BY <1>0, <2>1, <2>3, <2>4, DeliverOK
    <2>6. left' \subseteq Items(sensors', at)
        BY <1>0, <2>1, <2>2, <2>3, <2>5, ItemsGrow
    <2>7. left' \subseteq Nat \X Nat
        BY <2>1 DEF TypeOK
    <2>8. TypeOK'
        BY <1>3, <2>5, <2>7 DEF StopDelivers, TypeOK, SensorsOK
    <2> QED BY <1>3, <2>2, <2>5, <2>6, <2>8 DEF StopDelivers, LeftOK
<1>4. CASE StopEnds
    <2>1. at \in DOMAIN sensors
        BY <1>4 DEF StopEnds, LeftOK
    <2>2. ASSUME NEW i \in DOMAIN sensors
          PROVE  sensors'[i] \in Sensor /\ IsFiniteSet(sensors'[i].memory)
        <3>1. sensors[i] \in Sensor /\ IsFiniteSet(sensors[i].memory)
            BY <1>0 DEF SensorsOK
        <3>2. sensors'[i] = sensors[i] \/ sensors'[i] = [sensors[i] EXCEPT !.first = <<>>, !.second = <<>>]
            BY <1>4, <2>1 DEF StopEnds, Cleared
        <3>3. <<>> \in Seq(Nat)
            OBVIOUS
        <3> QED BY <3>1, <3>2, <3>3 DEF Sensor
    <2>3. DOMAIN sensors' = DOMAIN sensors /\ sensors' \in [DOMAIN sensors' -> Sensor]
        BY <1>4, <2>2 DEF StopEnds, Cleared
    <2>4. SensorsOK(sensors')
        BY <1>0, <2>2, <2>3 DEF SensorsOK
    <2>5. StopNext(sensors, {i \in DOMAIN sensors : i > at})
        BY <1>4 DEF StopEnds
    <2> DEFINE rest == {i \in DOMAIN sensors : i > at}
    <2>6. /\ pc' \in {"stopping", "idle"}
          /\ pc' = "stopping" => at' \in rest /\ left' = Items(sensors, at')
          /\ pc' # "stopping" => at' = Data /\ left' = {}
          /\ at' \in DOMAIN sensors \union {Data}
          /\ left' \subseteq Nat \X Nat
        <3>1. rest \in SUBSET DOMAIN sensors
            OBVIOUS
        <3> HIDE DEF rest
        <3>2. StopNext(sensors, rest)
            BY <2>5 DEF rest
        <3> QED BY <1>0, <3>1, <3>2, StopNextOK
    <2>7. TypeOK'
        BY <1>4, <2>3, <2>4, <2>6 DEF StopEnds, TypeOK, SensorsOK
    <2>8. pc' = "stopping" => Items(sensors', at') = Items(sensors, at')
        <3>1. ASSUME pc' = "stopping"  PROVE sensors'[at'] = sensors[at']
            <4>1. at \in Nat /\ at' \in Nat /\ at' > at
                BY <2>1, <2>6, <3>1, SensorsAssumption DEF TypeOK, SensorsAssumption
            <4> QED BY <1>4, <2>6, <3>1, <4>1 DEF StopEnds, Cleared
        <3> QED BY <3>1 DEF Items
    <2>9. LeftOK'
        BY <2>3, <2>6, <2>8 DEF LeftOK
    <2> QED BY <2>7, <2>9
<1> QED BY <1>1, <1>2, <1>3, <1>4

(* A call of the target leaves pc alone and nothing is left to deliver. *)
LEMMA CallKeepsLeft ==
    ASSUME TypeInv, pc # "stopping", pc' # "stopping", UNCHANGED <<at, left>>
    PROVE  LeftOK' /\ (DOMAIN sensors \subseteq DOMAIN sensors' => at' \in DOMAIN sensors' \union {Data})
           /\ left' \subseteq Nat \X Nat
BY DEF TypeInv, TypeOK, LeftOK

(* One more event is within the bound. *)
LEMMA EventsBounded ==
    ASSUME TypeOK, events < MaxEvents, events' = events + 1
    PROVE  events' \in 0..MaxEvents
<1>1. events \in 0..MaxEvents
    BY DEF TypeOK
<1>2. MaxEvents \in Nat
    BY SensorsAssumption DEF SensorsAssumption
<1> QED BY <1>1, <1>2

LEMMA CombineTypes ==
    ASSUME TypeInv, NEW c \in Combos, CombineSensors(c)
    PROVE  TypeInv'
<1> USE DEF TypeInv
<1>1. DOMAIN sensors \subseteq DOMAIN sensors' /\ SensorsOK(sensors')
    BY TypeOKSensors, AfterCombineOK DEF CombineSensors
<1>2. DOMAIN pending' \subseteq Id /\ pending' \in [DOMAIN pending' -> Combos]
    BY FiledOK DEF CombineSensors, TypeOK
<1>3. thrown' \in {thrown, "duplicate"} /\ asked' \subseteq asked \union {c}
    BY DEF CombineSensors
<1>4. /\ pc = "recording" /\ UNCHANGED <<pc, increase, at, left, events>>
    BY DEF CombineSensors, Callable
<1>5. LeftOK' /\ at' \in DOMAIN sensors' \union {Data} /\ left' \subseteq Nat \X Nat
    BY <1>1, <1>4, CallKeepsLeft
<1>6. TypeOK'
    BY <1>1, <1>2, <1>3, <1>4, <1>5 DEF TypeOK, SensorsOK
<1> QED BY <1>5, <1>6

LEMMA CallbackTypes ==
    ASSUME TypeInv, NEW c \in Customs, NEW v \in Values, Callback(c, v)
    PROVE  TypeInv'
<1> USE DEF TypeInv
<1> DEFINE s == IF c.id \in DOMAIN pending THEN AfterCombine(Created(c), pending[c.id]) ELSE Created(c)
           in == IF s[c.id].off THEN Nothing ELSE [i \in {c.id} |-> v]
<1>1. DOMAIN Created(c) = DOMAIN sensors \union {c.id} /\ SensorsOK(Created(c))
    BY TypeOKSensors, CreatedOK
<1>2. c.id \in DOMAIN pending => pending[c.id] \in Combos
    BY DEF TypeOK
<1>3. DOMAIN sensors \union {c.id} \subseteq DOMAIN s /\ SensorsOK(s)
    BY <1>1, <1>2, AfterCombineOK
<1> HIDE DEF s
<1>4. InOK(s, in)
    BY <1>3, SensorsAssumption DEF InOK, Nothing, SensorsAssumption
<1>5. Deliver(s, in) /\ increase \in BOOLEAN
    BY DEF Callback, s, TypeOK
<1> HIDE DEF in
<1>6. DOMAIN sensors' = DOMAIN s /\ SensorsOK(sensors') /\ increase' \in BOOLEAN
    BY <1>3, <1>4, <1>5, DeliverOK
<1>7. DOMAIN pending' \subseteq Id /\ pending' \in [DOMAIN pending' -> Combos]
    <2>1. CASE c.id \in DOMAIN pending
        <3>1. pending' = Filed(Created(c), pending[c.id])
            BY <2>1 DEF Callback
        <3> QED BY <1>2, <2>1, <3>1, FiledOK DEF TypeOK
    <2>2. CASE c.id \notin DOMAIN pending
        BY <2>2 DEF Callback, TypeOK
    <2> QED BY <2>1, <2>2
<1>8. /\ pc = "recording" /\ events < MaxEvents /\ events' = events + 1
      /\ UNCHANGED <<pc, thrown, at, left, asked>>
    BY DEF Callback, Callable
<1>9. LeftOK' /\ at' \in DOMAIN sensors' \union {Data} /\ left' \subseteq Nat \X Nat
    BY <1>3, <1>6, <1>8, CallKeepsLeft
<1>10. events' \in 0..MaxEvents
    BY <1>8, EventsBounded
<1>11. TypeOK'
    BY <1>6, <1>7, <1>8, <1>9, <1>10 DEF TypeOK, SensorsOK
<1> QED BY <1>9, <1>11

LEMMA RefusedTypes ==
    ASSUME TypeInv, NEW c \in Customs, CallbackRefused(c) \/ CallbackDuplicate(c)
    PROVE  TypeInv'
<1> USE DEF TypeInv
<1>1. DOMAIN Created(c) = DOMAIN sensors \union {c.id} /\ SensorsOK(Created(c))
    BY TypeOKSensors, CreatedOK
<1>2. sensors' = sensors \/ sensors' = Created(c)
    BY DEF CallbackRefused, CallbackDuplicate
<1>3. DOMAIN sensors \subseteq DOMAIN sensors' /\ SensorsOK(sensors')
    BY <1>1, <1>2, TypeOKSensors
<1>4. /\ pc = "recording" /\ UNCHANGED <<pc, pending, increase, at, left, events, asked>>
      /\ thrown' \in {"should never happen", "other type", "duplicate"}
    BY DEF CallbackRefused, CallbackDuplicate, Callable
<1>5. LeftOK' /\ at' \in DOMAIN sensors' \union {Data} /\ left' \subseteq Nat \X Nat
    BY <1>3, <1>4, CallKeepsLeft
<1>6. TypeOK'
    BY <1>3, <1>4, <1>5 DEF TypeOK, SensorsOK
<1> QED BY <1>5, <1>6

LEMMA BindTypes ==
    ASSUME TypeInv, NEW b \in Bindings, Bind(b)
    PROVE  TypeInv'
<1> USE DEF TypeInv
<1>1. /\ pc = "recording" /\ UNCHANGED <<pc, pending, increase, at, left, events, asked>>
      /\ thrown' \in {thrown, "duplicate"}
    BY DEF Bind, Callable
<1>2. DOMAIN sensors \subseteq DOMAIN sensors' /\ SensorsOK(sensors')
    <2>1. CASE b.id \in DOMAIN sensors
        BY <2>1, TypeOKSensors DEF Bind
    <2>2. CASE b.id \notin DOMAIN sensors
        <3>1. PICK held \in Uninitialised(b.kind) :
                sensors' = With(sensors, b.id, New(b.kind, b.type, b.off, <<>>, held))
            BY <2>2 DEF Bind
        <3>2. b.id \in Id /\ b.kind \in Kinds /\ b.type \in ProcessorType /\ b.off \in BOOLEAN
            <4>1. [id |-> b.id, kind |-> b.kind, type |-> b.type] \in Binding /\ b.off \in BOOLEAN
                BY SensorsAssumption DEF SensorsAssumption
            <4> QED BY <4>1 DEF Binding, Kinds, ProcessorType
        <3>3. held \in SUBSET Nat
            BY SensorsAssumption DEF Uninitialised, SensorsAssumption
        <3>4. <<>> \in Seq(Id)
            OBVIOUS
        <3>5. /\ New(b.kind, b.type, b.off, <<>>, held) \in Sensor
              /\ IsFiniteSet(New(b.kind, b.type, b.off, <<>>, held).memory)
            BY <3>2, <3>3, <3>4, NewOK
        <3> DEFINE sensor == New(b.kind, b.type, b.off, <<>>, held)
        <3>6. sensor \in Sensor /\ IsFiniteSet(sensor.memory) /\ sensors' = With(sensors, b.id, sensor)
            BY <3>1, <3>5
        <3> HIDE DEF sensor
        <3>7. SensorsOK(sensors)
            BY TypeOKSensors
        <3>8. /\ DOMAIN With(sensors, b.id, sensor) = DOMAIN sensors \union {b.id}
              /\ SensorsOK(With(sensors, b.id, sensor))
            BY <3>2, <3>6, <3>7, WithOK
        <3> QED BY <3>6, <3>8
    <2> QED BY <2>1, <2>2
<1>3. LeftOK' /\ at' \in DOMAIN sensors' \union {Data} /\ left' \subseteq Nat \X Nat
    BY <1>1, <1>2, CallKeepsLeft
<1>4. TypeOK'
    BY <1>1, <1>2, <1>3 DEF TypeOK, SensorsOK
<1> QED BY <1>3, <1>4

LEMMA SetOffTypes ==
    ASSUME TypeInv, NEW id \in Id, NEW off \in BOOLEAN, SetOff(id, off)
    PROVE  TypeInv'
<1> USE DEF TypeInv
<1>1. /\ pc = "recording" /\ UNCHANGED <<pc, pending, increase, thrown, at, left, events, asked>>
    BY DEF SetOff, Callable
<1>2. ASSUME NEW i \in DOMAIN sensors
      PROVE  sensors'[i] \in Sensor /\ IsFiniteSet(sensors'[i].memory)
    <2>1. sensors[i] \in Sensor /\ IsFiniteSet(sensors[i].memory)
        BY DEF TypeOK
    <2>2. sensors'[i] = sensors[i] \/ sensors'[i] = [sensors[i] EXCEPT !.off = off]
        BY DEF SetOff
    <2> QED BY <2>1, <2>2 DEF Sensor
<1>3. DOMAIN sensors' = DOMAIN sensors /\ sensors' \in [DOMAIN sensors' -> Sensor]
    BY <1>2 DEF SetOff
<1>4. LeftOK' /\ at' \in DOMAIN sensors' \union {Data} /\ left' \subseteq Nat \X Nat
    BY <1>1, <1>3, CallKeepsLeft
<1>5. TypeOK'
    BY <1>1, <1>2, <1>3, <1>4 DEF TypeOK
<1> QED BY <1>4, <1>5

LEMMA InstrumentationTypes ==
    ASSUME TypeInv, NEW v \in Values, AddPC(v) \/ AddLate(v)
    PROVE  TypeInv'
<1> USE DEF TypeInv
<1>0. v \in Nat
    BY SensorsAssumption DEF SensorsAssumption
<1>1. /\ pc = "recording" /\ events < MaxEvents /\ events' = events + 1
      /\ UNCHANGED <<pc, pending, thrown, at, left, asked>>
    BY DEF AddPC, AddLate, Callable
<1>2. DOMAIN sensors' = DOMAIN sensors /\ SensorsOK(sensors') /\ increase' \in BOOLEAN
    <2>1. CASE AddPC(v)
        <3> DEFINE in == [i \in Listening("pc") |-> v]
        <3>1. InOK(sensors, in)
            BY <1>0 DEF InOK, Listening
        <3>2. Deliver(sensors, in) /\ increase \in BOOLEAN
            BY <2>1 DEF AddPC, TypeOK
        <3> HIDE DEF in
        <3> QED BY <3>1, <3>2, DeliverOK, TypeOKSensors
    <2>2. CASE AddLate(v)
        <3>1. ASSUME NEW i \in DOMAIN sensors
              PROVE  sensors'[i] \in Sensor /\ IsFiniteSet(sensors'[i].memory)
            <4>1. sensors[i] \in Sensor /\ IsFiniteSet(sensors[i].memory)
                BY DEF TypeOK
            <4>2. \/ sensors'[i] = [sensors[i] EXCEPT !.held = sensors[i].held \union {v}]
                  \/ sensors'[i] = [sensors[i] EXCEPT !.held = sensors[i].held]
                BY <2>2, <4>1 DEF AddLate, Sensor
            <4>3. sensors[i].held \union {v} \in SUBSET Nat /\ sensors[i].held \in SUBSET Nat
                BY <1>0, <4>1 DEF Sensor
            <4> QED BY <4>1, <4>2, <4>3 DEF Sensor
        <3>2. DOMAIN sensors' = DOMAIN sensors /\ sensors' \in [DOMAIN sensors' -> Sensor]
            BY <2>2, <3>1 DEF AddLate
        <3>3. increase' \in BOOLEAN
            BY <2>2 DEF AddLate, TypeOK
        <3> QED BY <3>1, <3>2, <3>3, TypeOKSensors DEF SensorsOK
    <2> QED BY <2>1, <2>2 DEF AddPC, AddLate
<1>3. LeftOK' /\ at' \in DOMAIN sensors' \union {Data} /\ left' \subseteq Nat \X Nat
    BY <1>1, <1>2, CallKeepsLeft
<1>4. events' \in 0..MaxEvents
    BY <1>1, EventsBounded
<1>5. TypeOK'
    BY <1>1, <1>2, <1>3, <1>4 DEF TypeOK, SensorsOK
<1> QED BY <1>3, <1>5

(* A step that leaves the sensors alone and at most throws, catches or ends. *)
LEMMA QuietTypes ==
    ASSUME TypeInv, (\E id \in Id : GetValue(id)) \/ Caught \/ Uncaught \/ UNCHANGED vars
    PROVE  TypeInv'
BY DEF TypeInv, GetValue, Callable, Caught, Uncaught, vars, TypeOK, LeftOK

LEMMA NextTypes ==
    ASSUME TypeInv, [Next]_vars
    PROVE  TypeInv'
BY CycleTypes, CombineTypes, CallbackTypes, RefusedTypes, BindTypes, SetOffTypes,
   InstrumentationTypes, QuietTypes
   DEF Next, Halted

(* Every variable keeps its type, whatever the target calls. *)
THEOREM SensorsTypeCorrect == Spec => []TypeOK
<1>1. Init => TypeInv
    BY InitTypes
<1>2. TypeInv /\ [Next]_vars => TypeInv'
    BY NextTypes
<1>3. TypeInv => TypeOK
    BY DEF TypeInv
<1> QED BY <1>1, <1>2, <1>3, PTL DEF Spec
-----------------------------------------------------------------------------
(***************************************************************************)
(* Memories.                                                               *)
(***************************************************************************)
MatchesAll(s) == \A i \in DOMAIN s : Matches(s[i].type, s[i].memory, s[i].heard)

(* A new processor remembers nothing it was not given. *)
LEMMA NewMatches ==
    ASSUME NEW type \in ProcessorType
    PROVE  Matches(type, InitialMemory(type), {})
BY DEF Matches, InitialMemory, ProcessorType

(* Receiving a value keeps memory and values in agreement. *)
LEMMA RememberMatches ==
    ASSUME NEW type \in ProcessorType, NEW memory, NEW heard \in SUBSET Nat, NEW v \in Nat,
           Matches(type, memory, heard)
    PROVE  Matches(type, Remember(type, memory, v), heard \union {v})
<1>1. CASE type = "highest"
    <2>1. PICK m \in heard \union {0} : memory = {m} /\ \A u \in heard : u <= m
        BY <1>1 DEF Matches
    <2>2. m \in Nat
        BY <2>1
    <2>3. CASE v > m
        <3>1. Remember(type, memory, v) = {v}
            BY <1>1, <2>1, <2>3 DEF Remember, Counts
        <3>2. \A u \in heard \union {v} : u <= v
            BY <2>1, <2>2, <2>3
        <3> QED BY <1>1, <3>1, <3>2 DEF Matches
    <2>4. CASE ~(v > m)
        <3>1. Remember(type, memory, v) = {m}
            BY <1>1, <2>1, <2>4 DEF Remember, Counts
        <3>2. \A u \in heard \union {v} : u <= m
            BY <2>1, <2>2, <2>4
        <3> QED BY <1>1, <2>1, <3>1, <3>2 DEF Matches
    <2> QED BY <2>3, <2>4
<1>2. CASE type = "lowest" /\ heard = {}
    <2>1. Remember(type, memory, v) = {v}
        BY <1>2 DEF Matches, Remember, Counts
    <2> QED BY <1>2, <2>1 DEF Matches
<1>3. CASE type = "lowest" /\ heard # {}
    <2>1. PICK m \in heard : memory = {m} /\ \A u \in heard : m <= u
        BY <1>3 DEF Matches
    <2>2. m \in Nat
        BY <2>1
    <2>3. CASE v < m
        <3>1. Remember(type, memory, v) = {v}
            BY <1>3, <2>1, <2>3 DEF Remember, Counts
        <3>2. \A u \in heard \union {v} : v <= u
            BY <2>1, <2>2, <2>3
        <3> QED BY <1>3, <3>1, <3>2 DEF Matches
    <2>4. CASE ~(v < m)
        <3>1. Remember(type, memory, v) = {m}
            BY <1>3, <2>1, <2>4 DEF Remember, Counts
        <3>2. \A u \in heard \union {v} : m <= u
            BY <2>1, <2>2, <2>4
        <3> QED BY <1>3, <2>1, <3>1, <3>2 DEF Matches
    <2> QED BY <2>3, <2>4
<1>4. CASE type \in {"unique", "noop"}
    BY <1>4 DEF Matches, Remember
<1> QED BY <1>1, <1>2, <1>3, <1>4 DEF ProcessorType

(* Given that, a processor counts a value exactly if it beats those before. *)
LEMMA CountsBeats ==
    ASSUME NEW type \in ProcessorType \ {"noop"}, NEW memory, NEW heard \in SUBSET Nat, NEW v \in Nat,
           Matches(type, memory, heard)
    PROVE  Counts(type, memory, v) <=> Beats(type, heard \union {v}, heard)
<1>1. CASE type = "highest"
    <2>1. PICK m \in heard \union {0} : memory = {m} /\ \A u \in heard : u <= m
        BY <1>1 DEF Matches
    <2>2. m \in Nat
        BY <2>1
    <2>3. ASSUME v > m  PROVE v > 0 /\ \A u \in heard : v > u
        BY <2>1, <2>2, <2>3
    <2>4. ASSUME NEW w \in heard \union {v}, w > 0, \A u \in heard : w > u  PROVE v > m
        <3>1. w = v
            BY <2>4
        <3> QED BY <2>1, <2>2, <2>4, <3>1
    <2> QED BY <1>1, <2>1, <2>3, <2>4 DEF Counts, Beats
<1>2. CASE type = "lowest"
    <2>1. ASSUME NEW w \in heard \union {v}, \A u \in heard : w < u  PROVE w = v
        BY <2>1
    <2>2. Beats(type, heard \union {v}, heard) <=> \A u \in heard : v < u
        BY <1>2, <2>1 DEF Beats
    <2>3. (\A l \in memory : v < l) <=> \A u \in heard : v < u
        <3>1. CASE heard = {}
            BY <1>2, <3>1 DEF Matches
        <3>2. CASE heard # {}
            <4>1. PICK m \in heard : memory = {m} /\ \A u \in heard : m <= u
                BY <1>2, <3>2 DEF Matches
            <4>2. ASSUME v < m, NEW u \in heard  PROVE v < u
                <5>1. m \in Nat /\ u \in Nat /\ m <= u
                    BY <4>1, <4>2
                <5> QED BY <4>2, <5>1
            <4> QED BY <4>1, <4>2
        <3> QED BY <3>1, <3>2
    <2> QED BY <1>2, <2>2, <2>3 DEF Counts
<1>3. CASE type = "unique"
    BY <1>3 DEF Matches, Counts, Beats
<1> QED BY <1>1, <1>2, <1>3 DEF ProcessorType

(***************************************************************************)
(* Every step either changes no memory, except that new sensors appear, or *)
(* does that and then delivers values.                                     *)
(***************************************************************************)
Same(x, y) == /\ x.kind = y.kind /\ x.type = y.type /\ x.parts = y.parts
              /\ x.memory = y.memory /\ x.heard = y.heard

Fresh(x) == x.type \in ProcessorType /\ x.memory = InitialMemory(x.type) /\ x.heard = {}

Grown(s, t) == /\ DOMAIN s \subseteq DOMAIN t
               /\ \A i \in DOMAIN s : Same(s[i], t[i])
               /\ \A i \in DOMAIN t \ DOMAIN s : Fresh(t[i])

LEMMA GrownTransitive ==
    ASSUME NEW s, NEW t, NEW u, Grown(s, t), Grown(t, u)
    PROVE  Grown(s, u)
BY DEF Grown, Same, Fresh

LEMMA WithGrown ==
    ASSUME NEW s, NEW id, id \notin DOMAIN s, NEW kind, NEW type \in ProcessorType, NEW off,
           NEW parts, NEW held
    PROVE  Grown(s, With(s, id, New(kind, type, off, parts, held)))
<1> DEFINE x == New(kind, type, off, parts, held)
<1>1. Fresh(x)
    BY DEF Fresh, New
<1> HIDE DEF x
<1>2. Grown(s, With(s, id, x))
    BY <1>1 DEF Grown, With, Same
<1> QED BY <1>2 DEF x

LEMMA CreatedGrown ==
    ASSUME NEW c \in Customs
    PROVE  Grown(sensors, Created(c))
<1>1. CASE c.id \in DOMAIN sensors
    BY <1>1 DEF Created, Grown, Same
<1>2. CASE c.id \notin DOMAIN sensors
    <2>1. c.type \in ProcessorType
        BY SensorsAssumption DEF SensorsAssumption
    <2> QED BY <1>2, <2>1, WithGrown DEF Created
<1> QED BY <1>1, <1>2

LEMMA AfterCombineGrown ==
    ASSUME NEW s, SensorsOK(s), NEW c \in Combos
    PROVE  Grown(s, AfterCombine(s, c))
<1>1. CASE Ready(s, c) /\ ~Duplicate(s, c)
    <2> DEFINE r == Combined(s, c)
    <2>1. c.id \notin DOMAIN s /\ DOMAIN r = DOMAIN s \union {c.id}
        BY <1>1, CombinedOK DEF Duplicate
    <2>2. ASSUME NEW i \in DOMAIN s  PROVE Same(s[i], r[i])
        <3>1. s[i] \in Sensor
            BY DEF SensorsOK
        <3>2. r[i] = s[i] \/ r[i] = [s[i] EXCEPT !.parent = c.id, !.reported = {}]
            BY <2>1 DEF Combined
        <3> QED BY <3>1, <3>2 DEF Same, Sensor
    <2>3. Fresh(r[c.id])
        <3>1. r[c.id] = New("pair", c.type, FALSE, <<c.id1, c.id2>>, {})
            BY DEF Combined
        <3> QED BY <3>1, ComboFields DEF Fresh, New
    <2>4. AfterCombine(s, c) = r
        BY <1>1 DEF AfterCombine
    <2> HIDE DEF r
    <2> QED BY <2>1, <2>2, <2>3, <2>4 DEF Grown
<1>2. CASE ~(Ready(s, c) /\ ~Duplicate(s, c))
    BY <1>2 DEF AfterCombine, Grown, Same
<1> QED BY <1>1, <1>2

(* The table on which a callback delivers its value. *)
Prepared(c) == IF c.id \in DOMAIN pending THEN AfterCombine(Created(c), pending[c.id]) ELSE Created(c)

Sent(c, v) == IF Prepared(c)[c.id].off THEN Nothing ELSE [i \in {c.id} |-> v]

LEMMA PreparedOK ==
    ASSUME TypeOK, NEW c \in Customs, NEW v \in Values
    PROVE  /\ DOMAIN sensors \union {c.id} \subseteq DOMAIN Prepared(c)
           /\ SensorsOK(Prepared(c))
           /\ Grown(sensors, Prepared(c))
           /\ InOK(Prepared(c), Sent(c, v))
           /\ Callback(c, v) => Deliver(Prepared(c), Sent(c, v))
<1>1. DOMAIN Created(c) = DOMAIN sensors \union {c.id} /\ SensorsOK(Created(c))
    BY TypeOKSensors, CreatedOK
<1>2. c.id \in DOMAIN pending => pending[c.id] \in Combos
    BY DEF TypeOK
<1>3. DOMAIN sensors \union {c.id} \subseteq DOMAIN Prepared(c) /\ SensorsOK(Prepared(c))
    BY <1>1, <1>2, AfterCombineOK DEF Prepared
<1>4. Grown(sensors, Prepared(c))
    BY <1>1, <1>2, CreatedGrown, AfterCombineGrown, GrownTransitive DEF Prepared
<1>5. InOK(Prepared(c), Sent(c, v))
    BY <1>3, SensorsAssumption DEF InOK, Sent, Nothing, SensorsAssumption
<1>6. Callback(c, v) => Deliver(Prepared(c), Sent(c, v))
    BY DEF Callback, Prepared, Sent
<1> QED BY <1>3, <1>4, <1>5, <1>6

(* Delivering values changes memory and values heard together. *)
LEMMA ReceivedFields ==
    ASSUME NEW s, NEW in, SensorsOK(s), NEW i \in DOMAIN s
    PROVE  LET r == Received(s, in) IN
           /\ r[i].kind = s[i].kind /\ r[i].type = s[i].type /\ r[i].parts = s[i].parts
           /\ r[i].parent = s[i].parent /\ r[i].off = s[i].off /\ r[i].held = s[i].held
           /\ i \in DOMAIN in => /\ r[i].memory = Remember(s[i].type, s[i].memory, in[i])
                                 /\ r[i].heard = s[i].heard \union {in[i]}
           /\ i \notin DOMAIN in => r[i].memory = s[i].memory /\ r[i].heard = s[i].heard
           /\ i \in News(s, in) => r[i].reported = s[i].reported \union {Report(s, in, i)}
           /\ i \notin News(s, in) => r[i].reported = s[i].reported
           /\ FromPart(s, in, i, 1) => r[i].first = Append(s[i].first, Report(s, in, s[i].parts[1]))
           /\ ~FromPart(s, in, i, 1) => r[i].first = s[i].first
           /\ FromPart(s, in, i, 2) => r[i].second = Append(s[i].second, Report(s, in, s[i].parts[2]))
           /\ ~FromPart(s, in, i, 2) => r[i].second = s[i].second
<1>1. s[i] \in Sensor
    BY DEF SensorsOK
<1> DEFINE t == s[i]
           mem == IF i \in DOMAIN in THEN Remember(t.type, t.memory, in[i]) ELSE t.memory
           hrd == IF i \in DOMAIN in THEN t.heard \union {in[i]} ELSE t.heard
           rep == IF i \in News(s, in) THEN t.reported \union {Report(s, in, i)} ELSE t.reported
           fst == IF FromPart(s, in, i, 1) THEN Append(t.first, Report(s, in, t.parts[1])) ELSE t.first
           snd == IF FromPart(s, in, i, 2) THEN Append(t.second, Report(s, in, t.parts[2])) ELSE t.second
           r == Received(s, in)
<1>2. r[i] = [t EXCEPT !.memory = mem, !.heard = hrd, !.reported = rep, !.first = fst, !.second = snd]
    BY <1>1 DEF Received, Sensor
<1> HIDE DEF mem, hrd, rep, fst, snd, r
<1>3. /\ r[i].kind = t.kind /\ r[i].type = t.type /\ r[i].parts = t.parts
      /\ r[i].parent = t.parent /\ r[i].off = t.off /\ r[i].held = t.held
      /\ r[i].memory = mem /\ r[i].heard = hrd /\ r[i].reported = rep
      /\ r[i].first = fst /\ r[i].second = snd
    BY <1>1, <1>2 DEF Sensor
<1>4. /\ i \in DOMAIN in => mem = Remember(t.type, t.memory, in[i]) /\ hrd = t.heard \union {in[i]}
      /\ i \notin DOMAIN in => mem = t.memory /\ hrd = t.heard
    BY DEF mem, hrd
<1>5. /\ i \in News(s, in) => rep = t.reported \union {Report(s, in, i)}
      /\ i \notin News(s, in) => rep = t.reported
    BY DEF rep
<1>6. /\ FromPart(s, in, i, 1) => fst = Append(t.first, Report(s, in, t.parts[1]))
      /\ ~FromPart(s, in, i, 1) => fst = t.first
      /\ FromPart(s, in, i, 2) => snd = Append(t.second, Report(s, in, t.parts[2]))
      /\ ~FromPart(s, in, i, 2) => snd = t.second
    BY DEF fst, snd
<1> QED BY <1>3, <1>4, <1>5, <1>6 DEF r

LEMMA GrownMatches ==
    ASSUME NEW s, NEW t, Grown(s, t), MatchesAll(s)
    PROVE  MatchesAll(t)
<1> SUFFICES ASSUME NEW i \in DOMAIN t  PROVE Matches(t[i].type, t[i].memory, t[i].heard)
    BY DEF MatchesAll
<1>1. CASE i \in DOMAIN s
    BY <1>1 DEF Grown, Same, MatchesAll
<1>2. CASE i \notin DOMAIN s
    <2>1. t[i].type \in ProcessorType /\ t[i].memory = InitialMemory(t[i].type) /\ t[i].heard = {}
        BY <1>2 DEF Grown, Fresh
    <2> QED BY <2>1, NewMatches
<1> QED BY <1>1, <1>2

LEMMA ReceivedMatches ==
    ASSUME NEW s, NEW in, SensorsOK(s), InOK(s, in), MatchesAll(s)
    PROVE  MatchesAll(Received(s, in))
<1> DEFINE r == Received(s, in)
<1>1. DOMAIN r = DOMAIN s
    BY DEF Received
<1> SUFFICES ASSUME NEW i \in DOMAIN s  PROVE Matches(r[i].type, r[i].memory, r[i].heard)
    BY <1>1 DEF MatchesAll
<1>2. s[i].type \in ProcessorType /\ s[i].heard \in SUBSET Nat /\ Matches(s[i].type, s[i].memory, s[i].heard)
    BY DEF SensorsOK, Sensor, MatchesAll
<1> HIDE DEF r
<1>3. CASE i \in DOMAIN in
    <2>1. in[i] \in Nat
        BY <1>3 DEF InOK
    <2>2. Matches(s[i].type, Remember(s[i].type, s[i].memory, in[i]), s[i].heard \union {in[i]})
        BY <1>2, <2>1, RememberMatches
    <2>3. /\ r[i].type = s[i].type
          /\ r[i].memory = Remember(s[i].type, s[i].memory, in[i])
          /\ r[i].heard = s[i].heard \union {in[i]}
        BY <1>3, ReceivedFields DEF r
    <2> QED BY <2>2, <2>3
<1>4. CASE i \notin DOMAIN in
    BY <1>2, <1>4, ReceivedFields DEF r
<1> QED BY <1>3, <1>4

(* A step that only grows the table.  One that ends no cycle reports nothing. *)
Grows == Grown(sensors, sensors') /\ (pc = "idle" \/ UNCHANGED increase)

Delivers == \E s, in : Grown(sensors, s) /\ SensorsOK(s) /\ InOK(s, in) /\ Deliver(s, in)

LEMMA Untouched == UNCHANGED <<sensors, increase>> => Grows
BY DEF Grows, Grown, Same

LEMMA StepKinds ==
    ASSUME TypeInv, [Next]_vars
    PROVE  Grows \/ Delivers
<1>0. TypeOK /\ LeftOK /\ SensorsOK(sensors)
    BY TypeOKSensors DEF TypeInv
<1>1. CASE StartRecord
    <2>1. ASSUME NEW i \in DOMAIN sensors  PROVE Same(sensors[i], sensors'[i])
        <3>1. sensors[i] \in Sensor
            BY <1>0 DEF SensorsOK
        <3>2. sensors'[i] = [sensors[i] EXCEPT !.held = {}, !.reported = {}]
            BY <1>1 DEF StartRecord
        <3> QED BY <3>1, <3>2 DEF Same, Sensor
    <2>2. DOMAIN sensors' = DOMAIN sensors /\ pc = "idle"
        BY <1>1 DEF StartRecord
    <2> QED BY <2>1, <2>2 DEF Grows, Grown
<1>2. CASE StopRecord
    BY <1>2, Untouched DEF StopRecord
<1>3. CASE StopDelivers
    <2>1. PICK item \in left : Deliver(sensors, [i \in {at} |-> ItemValue(sensors, at, item)])
        BY <1>3 DEF StopDelivers
    <2> DEFINE in == [i \in {at} |-> ItemValue(sensors, at, item)]
    <2>2. at \in DOMAIN sensors /\ left \subseteq Items(sensors, at)
        BY <1>0, <1>3 DEF StopDelivers, LeftOK
    <2>3. InOK(sensors, in)
        BY <1>0, <2>1, <2>2, ItemsOK DEF InOK
    <2>4. Grown(sensors, sensors)
        BY DEF Grown, Same
    <2> HIDE DEF in
    <2>5. Deliver(sensors, in)
        BY <2>1 DEF in
    <2> QED BY <1>0, <2>3, <2>4, <2>5 DEF Delivers
<1>4. CASE StopEnds
    <2>1. at \in DOMAIN sensors
        BY <1>0, <1>4 DEF StopEnds, LeftOK
    <2>2. ASSUME NEW i \in DOMAIN sensors  PROVE Same(sensors[i], sensors'[i])
        <3>1. sensors[i] \in Sensor
            BY <1>0 DEF SensorsOK
        <3>2. sensors'[i] = sensors[i] \/ sensors'[i] = [sensors[i] EXCEPT !.first = <<>>, !.second = <<>>]
            BY <1>4, <2>1 DEF StopEnds, Cleared
        <3> QED BY <3>1, <3>2 DEF Same, Sensor
    <2>3. DOMAIN sensors' = DOMAIN sensors /\ UNCHANGED increase
        BY <1>4 DEF StopEnds, Cleared
    <2> QED BY <2>2, <2>3 DEF Grows, Grown
<1>5. ASSUME NEW c \in Combos, CombineSensors(c)  PROVE Grows
    BY <1>0, <1>5, AfterCombineGrown DEF CombineSensors, Grows
<1>6. ASSUME NEW c \in Customs, CallbackRefused(c) \/ CallbackDuplicate(c)  PROVE Grows
    BY <1>6, CreatedGrown, Untouched DEF CallbackRefused, CallbackDuplicate, Grows
<1>7. ASSUME NEW c \in Customs, NEW v \in Values, Callback(c, v)  PROVE Delivers
    BY <1>0, <1>7, PreparedOK DEF Delivers
<1>8. ASSUME NEW b \in Bindings, Bind(b)  PROVE Grows
    <2>1. CASE b.id \in DOMAIN sensors
        BY <1>8, <2>1, Untouched DEF Bind
    <2>2. CASE b.id \notin DOMAIN sensors
        <3>1. PICK held \in Uninitialised(b.kind) :
                sensors' = With(sensors, b.id, New(b.kind, b.type, b.off, <<>>, held))
            BY <1>8, <2>2 DEF Bind
        <3>2. b.type \in ProcessorType
            <4>1. [id |-> b.id, kind |-> b.kind, type |-> b.type] \in Binding
                BY SensorsAssumption DEF SensorsAssumption
            <4> QED BY <4>1 DEF Binding, ProcessorType
        <3>3. Grown(sensors, With(sensors, b.id, New(b.kind, b.type, b.off, <<>>, held)))
            BY <2>2, <3>2, WithGrown
        <3>4. UNCHANGED increase
            BY <1>8 DEF Bind
        <3> QED BY <3>1, <3>3, <3>4 DEF Grows
    <2> QED BY <2>1, <2>2
<1>9. ASSUME NEW id \in Id, NEW off \in BOOLEAN, SetOff(id, off)  PROVE Grows
    <2>1. ASSUME NEW i \in DOMAIN sensors  PROVE Same(sensors[i], sensors'[i])
        <3>1. sensors[i] \in Sensor
            BY <1>0 DEF SensorsOK
        <3>2. sensors'[i] = sensors[i] \/ sensors'[i] = [sensors[i] EXCEPT !.off = off]
            BY <1>9 DEF SetOff
        <3> QED BY <3>1, <3>2 DEF Same, Sensor
    <2>2. DOMAIN sensors' = DOMAIN sensors /\ UNCHANGED increase
        BY <1>9 DEF SetOff
    <2> QED BY <2>1, <2>2 DEF Grows, Grown
<1>10. ASSUME NEW v \in Values, AddPC(v)  PROVE Delivers
    <2> DEFINE in == [i \in Listening("pc") |-> v]
    <2>1. InOK(sensors, in)
        BY SensorsAssumption DEF InOK, Listening, SensorsAssumption
    <2>2. Grown(sensors, sensors)
        BY DEF Grown, Same
    <2> HIDE DEF in
    <2>3. Deliver(sensors, in)
        BY <1>10 DEF AddPC, in
    <2> QED BY <1>0, <2>1, <2>2, <2>3 DEF Delivers
<1>11. ASSUME NEW v \in Values, AddLate(v)  PROVE Grows
    <2>1. ASSUME NEW i \in DOMAIN sensors  PROVE Same(sensors[i], sensors'[i])
        <3>1. sensors[i] \in Sensor
            BY <1>0 DEF SensorsOK
        <3>2. \/ sensors'[i] = [sensors[i] EXCEPT !.held = sensors[i].held \union {v}]
              \/ sensors'[i] = [sensors[i] EXCEPT !.held = sensors[i].held]
            BY <1>11, <3>1 DEF AddLate, Sensor
        <3> QED BY <3>1, <3>2 DEF Same, Sensor
    <2>2. DOMAIN sensors' = DOMAIN sensors /\ UNCHANGED increase
        BY <1>11 DEF AddLate
    <2> QED BY <2>1, <2>2 DEF Grows, Grown
<1>12. CASE (\E id \in Id : GetValue(id)) \/ Caught \/ Uncaught \/ UNCHANGED vars
    BY <1>12, Untouched DEF GetValue, Caught, Uncaught, vars
<1> QED BY <1>1, <1>2, <1>3, <1>4, <1>5, <1>6, <1>7, <1>8, <1>9, <1>10, <1>11, <1>12 DEF Next, Halted

(* The memory of every processor is that of the values it was given.       *)
THEOREM MemoryHolds == Spec => []MemoryMatches
<1>1. Init => MatchesAll(sensors)
    <2> SUFFICES ASSUME Init, NEW i \in DOMAIN sensors
                 PROVE  Matches(sensors[i].type, sensors[i].memory, sensors[i].heard)
        BY DEF MatchesAll
    <2> DEFINE b == CHOOSE c \in Builtins : c.id = i
    <2>1. b \in Builtins
        BY DEF Init
    <2>2. b.type \in ProcessorType
        BY <2>1, SensorsAssumption DEF SensorsAssumption, Binding, ProcessorType
    <2>3. sensors[i] = New(b.kind, b.type, TRUE, <<>>, {})
        BY DEF Init
    <2> HIDE DEF b
    <2>4. sensors[i].type = b.type /\ sensors[i].memory = InitialMemory(b.type) /\ sensors[i].heard = {}
        BY <2>3 DEF New
    <2> QED BY <2>2, <2>4, NewMatches
<1>2. TypeInv /\ MatchesAll(sensors) /\ [Next]_vars => MatchesAll(sensors)'
    <2> SUFFICES ASSUME TypeInv, MatchesAll(sensors), [Next]_vars  PROVE MatchesAll(sensors')
        BY DEF MatchesAll
    <2>1. CASE Grows
        BY <2>1, GrownMatches DEF Grows
    <2>2. CASE Delivers
        <3>1. PICK s, in : Grown(sensors, s) /\ SensorsOK(s) /\ InOK(s, in) /\ Deliver(s, in)
            BY <2>2 DEF Delivers
        <3>2. MatchesAll(s) /\ sensors' = Received(s, in)
            BY <3>1, GrownMatches DEF Deliver
        <3> QED BY <3>1, <3>2, ReceivedMatches
    <2> QED BY <2>1, <2>2, StepKinds
<1>3. MatchesAll(sensors) => MemoryMatches
    BY DEF MatchesAll, MemoryMatches
<1> QED BY <1>1, <1>2, <1>3, InitTypes, NextTypes, PTL DEF Spec

(* Nothing beats itself. *)
LEMMA NothingBeatsItself ==
    ASSUME NEW type \in ProcessorType \ {"noop"}, NEW h \in SUBSET Nat
    PROVE  ~Beats(type, h, h)
BY DEF Beats, ProcessorType

LEMMA IncreaseStep ==
    ASSUME TypeInv, MatchesAll(sensors), [Next]_vars, pc # "idle", NoNoopAtTop'
    PROVE  increase' <=> increase \/ \E i \in DOMAIN sensors' : BeatsAll(i)
<1>1. /\ \A i \in DOMAIN sensors' : sensors'[i].type \in ProcessorType /\ sensors'[i].heard \in SUBSET Nat
      /\ increase \in BOOLEAN
    BY NextTypes DEF TypeInv, TypeOK, Sensor
<1>2. \A i \in DOMAIN sensors' : sensors'[i].parent = Data => sensors'[i].type \in ProcessorType \ {"noop"}
    BY <1>1 DEF NoNoopAtTop
<1>3. CASE Grows
    <2>1. ASSUME NEW i \in DOMAIN sensors', BeatsAll(i)  PROVE FALSE
        <3>1. sensors'[i].heard = HeardBefore(i)
            BY <1>3 DEF Grows, Grown, Same, Fresh, HeardBefore
        <3> QED BY <1>1, <1>2, <2>1, <3>1, NothingBeatsItself DEF BeatsAll
    <2> QED BY <1>3, <2>1 DEF Grows
<1>4. CASE Delivers
    <2>1. PICK s, in : Grown(sensors, s) /\ SensorsOK(s) /\ InOK(s, in) /\ Deliver(s, in)
        BY <1>4 DEF Delivers
    <2>2. /\ sensors' = Received(s, in) /\ DOMAIN sensors' = DOMAIN s
          /\ increase' = (increase \/ \E i \in News(s, in) : s[i].parent = Data)
        BY <2>1 DEF Deliver, Received
    <2>3. MatchesAll(s)
        BY <2>1, GrownMatches
    <2>4. ASSUME NEW i \in DOMAIN s
          PROVE  /\ s[i].type \in ProcessorType /\ s[i].heard \in SUBSET Nat
                 /\ Matches(s[i].type, s[i].memory, s[i].heard)
                 /\ s[i].heard = HeardBefore(i)
                 /\ sensors'[i].type = s[i].type /\ sensors'[i].parent = s[i].parent
        <3>1. s[i].heard = HeardBefore(i)
            BY <2>1 DEF Grown, Same, Fresh, HeardBefore
        <3>2. s[i].type \in ProcessorType /\ s[i].heard \in SUBSET Nat
            BY <2>1 DEF SensorsOK, Sensor
        <3> QED BY <2>1, <2>2, <2>3, <3>1, <3>2, ReceivedFields DEF MatchesAll
    <2>5. ASSUME NEW i \in DOMAIN s, s[i].parent = Data
          PROVE  i \in News(s, in) <=> Beats(sensors'[i].type, sensors'[i].heard, HeardBefore(i))
        <3>1. s[i].type \in ProcessorType \ {"noop"}
            BY <1>2, <2>2, <2>4, <2>5
        <3>2. CASE i \in DOMAIN in
            <4>1. in[i] \in Nat
                BY <2>1, <3>2 DEF InOK
            <4>2. sensors'[i].heard = s[i].heard \union {in[i]}
                BY <2>1, <2>2, <3>2, ReceivedFields
            <4>3. Counts(s[i].type, s[i].memory, in[i]) <=> Beats(s[i].type, s[i].heard \union {in[i]}, s[i].heard)
                BY <2>4, <3>1, <4>1, CountsBeats
            <4>4. i \in News(s, in) <=> Counts(s[i].type, s[i].memory, in[i])
                BY <3>2 DEF News
            <4> QED BY <2>4, <4>2, <4>3, <4>4
        <3>3. CASE i \notin DOMAIN in
            <4>1. sensors'[i].heard = s[i].heard
                BY <2>1, <2>2, <3>3, ReceivedFields
            <4>2. i \notin News(s, in)
                BY <3>3 DEF News
            <4>3. ~Beats(s[i].type, s[i].heard, s[i].heard)
                BY <2>4, <3>1, NothingBeatsItself
            <4> QED BY <2>4, <4>1, <4>2, <4>3
        <3> QED BY <3>2, <3>3
    <2>6. ASSUME NEW i \in DOMAIN s
          PROVE  BeatsAll(i) <=> i \in News(s, in) /\ s[i].parent = Data
        BY <2>4, <2>5 DEF BeatsAll
    <2>7. News(s, in) \subseteq DOMAIN s
        BY <2>1 DEF News, InOK
    <2> QED BY <2>2, <2>6, <2>7
<1> QED BY <1>3, <1>4, StepKinds

(* A cycle counts exactly if a sensor at the top was given a value that     *)
(* beats all before it, while no noop processor is there.                  *)
THEOREM IncreaseHolds == Spec => IncreaseIsNews
<1>1. Spec => []TypeInv
    BY InitTypes, NextTypes, PTL DEF Spec
<1>2. MemoryMatches <=> MatchesAll(sensors)
    BY DEF MatchesAll, MemoryMatches
<1>3. TypeInv /\ MemoryMatches /\ [Next]_vars =>
         [~(pc = "idle") /\ NoNoopAtTop' =>
            (increase' <=> increase \/ \E i \in DOMAIN sensors' : BeatsAll(i))]_vars
    BY <1>2, IncreaseStep
<1> QED BY <1>1, <1>3, MemoryHolds, PTL DEF Spec, IncreaseIsNews
-----------------------------------------------------------------------------
(***************************************************************************)
(* Proofs about the ways values take in Sensors, the buffers of combined   *)
(* sensors, and the requests to combine.                                   *)
(***************************************************************************)

(***************************************************************************)
(* Routes.  RoutedIn is Routed for any table; only a new combination makes *)
(* a new route.                                                            *)
(***************************************************************************)
RouteOK(s, i) ==
    /\ s[i].kind = "pair" =>
          /\ Len(s[i].parts) = 2
          /\ \A k \in {1, 2} : Part(s, i, k) \in DOMAIN s \ {i}
    /\ s[i].parent # Data =>
          /\ s[i].parent \in DOMAIN s
          /\ s[s[i].parent].kind = "pair"
          /\ \E k \in {1, 2} : Part(s, s[i].parent, k) = i

RoutedIn(s) == \A i \in DOMAIN s : RouteOK(s, i)

SameShape(s, t) ==
    /\ DOMAIN t = DOMAIN s
    /\ \A i \in DOMAIN s : /\ t[i].kind = s[i].kind /\ t[i].parts = s[i].parts
                           /\ t[i].parent = s[i].parent

LEMMA SameShapeRouted ==
    ASSUME NEW s, NEW t, SameShape(s, t), RoutedIn(s)
    PROVE  RoutedIn(t)
BY DEF SameShape, RoutedIn, RouteOK, Part

LEMMA ReceivedShape ==
    ASSUME NEW s, NEW in, SensorsOK(s)
    PROVE  SameShape(s, Received(s, in))
<1>1. DOMAIN Received(s, in) = DOMAIN s
    BY DEF Received
<1>2. ASSUME NEW i \in DOMAIN s
      PROVE  /\ Received(s, in)[i].kind = s[i].kind /\ Received(s, in)[i].parts = s[i].parts
             /\ Received(s, in)[i].parent = s[i].parent
    BY ReceivedFields
<1> QED BY <1>1, <1>2 DEF SameShape

(* A sensor that is no combination and reports to the data. *)
LEMMA WithRouted ==
    ASSUME NEW s, NEW id, id \notin DOMAIN s, RoutedIn(s),
           NEW kind, kind # "pair", NEW type, NEW off, NEW parts, NEW held
    PROVE  RoutedIn(With(s, id, New(kind, type, off, parts, held)))
<1> DEFINE x == New(kind, type, off, parts, held)
           t == With(s, id, x)
<1>1. x.kind # "pair" /\ x.parent = Data
    BY DEF New
<1> HIDE DEF x
<1>2. DOMAIN t = DOMAIN s \union {id} /\ t[id] = x /\ \A i \in DOMAIN s : t[i] = s[i]
    BY DEF With
<1> HIDE DEF t
<1>3. ASSUME NEW i \in DOMAIN s  PROVE RouteOK(t, i)
    <2>1. RouteOK(s, i) /\ t[i] = s[i]
        BY <1>2 DEF RoutedIn
    <2>2. s[i].parent # Data => t[s[i].parent] = s[s[i].parent]
        BY <1>2, <2>1 DEF RouteOK
    <2> QED BY <1>2, <2>1, <2>2 DEF RouteOK, Part
<1>4. RouteOK(t, id)
    BY <1>1, <1>2 DEF RouteOK
<1>5. RoutedIn(t)
    BY <1>2, <1>3, <1>4 DEF RoutedIn
<1> QED BY <1>5 DEF t, x

LEMMA CreatedRouted ==
    ASSUME NEW c \in Customs, RoutedIn(sensors)
    PROVE  RoutedIn(Created(c))
<1>1. CASE c.id \in DOMAIN sensors
    BY <1>1 DEF Created
<1>2. CASE c.id \notin DOMAIN sensors
    BY <1>2, WithRouted DEF Created
<1> QED BY <1>1, <1>2

(* What a combination changes: the new pair, and its parts.                *)
CombinedShape(s, c, r) ==
    /\ c.id \notin DOMAIN s /\ c.id1 \in DOMAIN s /\ c.id2 \in DOMAIN s
    /\ DOMAIN r = DOMAIN s \union {c.id}
    /\ r[c.id].kind = "pair" /\ r[c.id].parts = <<c.id1, c.id2>> /\ r[c.id].parent = Data
    /\ r[c.id].first = <<>> /\ r[c.id].second = <<>>
    /\ \A i \in DOMAIN s : /\ r[i].kind = s[i].kind /\ r[i].parts = s[i].parts
                           /\ r[i].first = s[i].first /\ r[i].second = s[i].second
    /\ \A i \in {c.id1, c.id2} : r[i].parent = c.id /\ r[i].reported = {}
    /\ \A i \in DOMAIN s \ {c.id1, c.id2} : r[i] = s[i]

LEMMA CombinedFields ==
    ASSUME NEW s, SensorsOK(s), NEW c \in Combos, Ready(s, c), ~Duplicate(s, c),
           NEW r, r = Combined(s, c)
    PROVE  CombinedShape(s, c, r)
<1>1. c.id \notin DOMAIN s /\ c.id1 \in DOMAIN s /\ c.id2 \in DOMAIN s
    BY DEF Ready, Duplicate
<1>2. DOMAIN r = DOMAIN s \union {c.id}
    BY DEF Combined
<1>3. r[c.id] = New("pair", c.type, FALSE, <<c.id1, c.id2>>, {})
    BY DEF Combined
<1>4. /\ r[c.id].kind = "pair" /\ r[c.id].parts = <<c.id1, c.id2>> /\ r[c.id].parent = Data
      /\ r[c.id].first = <<>> /\ r[c.id].second = <<>>
    BY <1>3 DEF New
<1>5. \A i \in {c.id1, c.id2} : r[i] = [s[i] EXCEPT !.parent = c.id, !.reported = {}]
    BY <1>1 DEF Combined
<1>6. \A i \in DOMAIN s \ {c.id1, c.id2} : r[i] = s[i]
    BY <1>1 DEF Combined
<1>7. \A i \in DOMAIN s : s[i] \in Sensor
    BY DEF SensorsOK
<1>8. ASSUME NEW i \in {c.id1, c.id2}
      PROVE  /\ r[i].parent = c.id /\ r[i].reported = {}
             /\ r[i].kind = s[i].kind /\ r[i].parts = s[i].parts
             /\ r[i].first = s[i].first /\ r[i].second = s[i].second
    <2>1. s[i] \in Sensor
        BY <1>1, <1>7
    <2>2. r[i] = [s[i] EXCEPT !.parent = c.id, !.reported = {}]
        BY <1>5
    <2> QED BY <2>1, <2>2 DEF Sensor
<1>9. ASSUME NEW i \in DOMAIN s
      PROVE  /\ r[i].kind = s[i].kind /\ r[i].parts = s[i].parts
             /\ r[i].first = s[i].first /\ r[i].second = s[i].second
    BY <1>6, <1>8
<1>10. \A i \in {c.id1, c.id2} : r[i].parent = c.id /\ r[i].reported = {}
    BY <1>8
<1>11. \A i \in DOMAIN s : /\ r[i].kind = s[i].kind /\ r[i].parts = s[i].parts
                          /\ r[i].first = s[i].first /\ r[i].second = s[i].second
    BY <1>9
<1> QED BY <1>1, <1>2, <1>4, <1>6, <1>10, <1>11, Zenon DEF CombinedShape

LEMMA AfterCombineRouted ==
    ASSUME NEW s, SensorsOK(s), NEW c \in Combos, RoutedIn(s)
    PROVE  RoutedIn(AfterCombine(s, c))
<1>1. CASE Ready(s, c) /\ ~Duplicate(s, c)
    <2> DEFINE r == Combined(s, c)
    <2>0. CombinedShape(s, c, r)
        BY <1>1, CombinedFields
    <2> HIDE DEF r
    <2>1. /\ c.id \notin DOMAIN s /\ DOMAIN r = DOMAIN s \union {c.id}
          /\ c.id1 \in DOMAIN s /\ c.id2 \in DOMAIN s
          /\ r[c.id].kind = "pair" /\ r[c.id].parts = <<c.id1, c.id2>> /\ r[c.id].parent = Data
          /\ \A i \in DOMAIN s : r[i].kind = s[i].kind /\ r[i].parts = s[i].parts
          /\ \A i \in {c.id1, c.id2} : r[i].parent = c.id
          /\ \A i \in DOMAIN s \ {c.id1, c.id2} : r[i] = s[i]
        BY <2>0 DEF CombinedShape
    <2>2. RouteOK(r, c.id)
        BY <2>1 DEF RouteOK, Part
    <2>3. ASSUME NEW i \in DOMAIN s  PROVE RouteOK(r, i)
        <3>1. RouteOK(s, i)
            BY DEF RoutedIn
        <3>2. r[i].kind = "pair" => Len(r[i].parts) = 2 /\ \A k \in {1, 2} : Part(r, i, k) \in DOMAIN r \ {i}
            BY <2>1, <3>1 DEF RouteOK, Part
        <3>3. CASE i \in {c.id1, c.id2}
            <4>1. \E k \in {1, 2} : Part(r, c.id, k) = i
                BY <2>1, <3>3 DEF Part
            <4> QED BY <2>1, <3>2, <3>3, <4>1 DEF RouteOK
        <3>4. CASE i \notin {c.id1, c.id2} /\ s[i].parent # Data
            <4> DEFINE p == s[i].parent
            <4>1. p \in DOMAIN s /\ s[p].kind = "pair" /\ \E k \in {1, 2} : Part(s, p, k) = i
                BY <3>1, <3>4 DEF RouteOK
            <4>2. r[i].parent = p /\ p \in DOMAIN r /\ r[p].kind = "pair" /\ \E k \in {1, 2} : Part(r, p, k) = i
                BY <2>1, <3>4, <4>1 DEF Part
            <4> QED BY <3>2, <4>2 DEF RouteOK
        <3>5. CASE i \notin {c.id1, c.id2} /\ s[i].parent = Data
            BY <2>1, <3>2, <3>5 DEF RouteOK
        <3> QED BY <3>3, <3>4, <3>5
    <2>4. AfterCombine(s, c) = r
        BY <1>1 DEF AfterCombine, r
    <2> QED BY <2>1, <2>2, <2>3, <2>4 DEF RoutedIn
<1>2. CASE ~(Ready(s, c) /\ ~Duplicate(s, c))
    BY <1>2 DEF AfterCombine
<1> QED BY <1>1, <1>2

LEMMA PreparedRouted ==
    ASSUME TypeOK, NEW c \in Customs, RoutedIn(sensors)
    PROVE  RoutedIn(Prepared(c))
<1>1. SensorsOK(Created(c)) /\ RoutedIn(Created(c))
    BY TypeOKSensors, CreatedOK, CreatedRouted
<1>2. c.id \in DOMAIN pending => pending[c.id] \in Combos
    BY DEF TypeOK
<1> QED BY <1>1, <1>2, AfterCombineRouted DEF Prepared

LEMMA RoutedStep ==
    ASSUME TypeInv, RoutedIn(sensors), [Next]_vars
    PROVE  RoutedIn(sensors')
<1>0. TypeOK /\ LeftOK /\ SensorsOK(sensors)
    BY TypeOKSensors DEF TypeInv
<1>1. CASE StartRecord \/ StopEnds \/ (\E id \in Id, off \in BOOLEAN : SetOff(id, off))
           \/ (\E v \in Values : AddLate(v))
    <2>1. ASSUME NEW i \in DOMAIN sensors
          PROVE  /\ sensors'[i].kind = sensors[i].kind /\ sensors'[i].parts = sensors[i].parts
                 /\ sensors'[i].parent = sensors[i].parent
        <3>1. sensors[i] \in Sensor
            BY <1>0 DEF SensorsOK
        <3>2. CASE StartRecord
            <4>1. sensors'[i] = [sensors[i] EXCEPT !.held = {}, !.reported = {}]
                BY <3>2 DEF StartRecord
            <4> QED BY <3>1, <4>1 DEF Sensor
        <3>3. CASE StopEnds
            <4>1. at \in DOMAIN sensors
                BY <1>0, <3>3 DEF StopEnds, LeftOK
            <4>2. sensors'[i] = sensors[i] \/ sensors'[i] = [sensors[i] EXCEPT !.first = <<>>, !.second = <<>>]
                BY <3>3, <4>1 DEF StopEnds, Cleared
            <4> QED BY <3>1, <4>2 DEF Sensor
        <3>4. ASSUME NEW id \in Id, NEW off \in BOOLEAN, SetOff(id, off)
              PROVE  sensors'[i] = sensors[i] \/ sensors'[i] = [sensors[i] EXCEPT !.off = off]
            BY <3>4 DEF SetOff
        <3>5. ASSUME NEW v \in Values, AddLate(v)
              PROVE  \E h : sensors'[i] = [sensors[i] EXCEPT !.held = h]
            <4>1. \/ sensors'[i] = [sensors[i] EXCEPT !.held = sensors[i].held \union {v}]
                  \/ sensors'[i] = [sensors[i] EXCEPT !.held = sensors[i].held]
                BY <3>1, <3>5 DEF AddLate, Sensor
            <4> QED BY <4>1
        <3> QED BY <1>1, <3>1, <3>2, <3>3, <3>4, <3>5 DEF Sensor
    <2>2. DOMAIN sensors' = DOMAIN sensors
        BY <1>1 DEF StartRecord, StopEnds, Cleared, SetOff, AddLate
    <2> QED BY <2>1, <2>2, SameShapeRouted DEF SameShape
<1>2. ASSUME NEW s, NEW in, RoutedIn(s), SensorsOK(s), Deliver(s, in)  PROVE RoutedIn(sensors')
    BY <1>2, ReceivedShape, SameShapeRouted DEF Deliver
<1>3. CASE StopDelivers
    BY <1>0, <1>2, <1>3 DEF StopDelivers
<1>4. ASSUME NEW v \in Values, AddPC(v)  PROVE RoutedIn(sensors')
    BY <1>0, <1>2, <1>4 DEF AddPC
<1>5. ASSUME NEW c \in Customs, NEW v \in Values, Callback(c, v)  PROVE RoutedIn(sensors')
    BY <1>0, <1>2, <1>5, PreparedOK, PreparedRouted
<1>6. ASSUME NEW c \in Combos, CombineSensors(c)  PROVE RoutedIn(sensors')
    BY <1>0, <1>6, AfterCombineRouted DEF CombineSensors
<1>7. ASSUME NEW c \in Customs, CallbackRefused(c) \/ CallbackDuplicate(c)  PROVE RoutedIn(sensors')
    BY <1>7, CreatedRouted DEF CallbackRefused, CallbackDuplicate
<1>8. ASSUME NEW b \in Bindings, Bind(b)  PROVE RoutedIn(sensors')
    <2>1. CASE b.id \in DOMAIN sensors
        BY <1>8, <2>1 DEF Bind
    <2>2. CASE b.id \notin DOMAIN sensors
        <3>1. PICK held \in Uninitialised(b.kind) :
                sensors' = With(sensors, b.id, New(b.kind, b.type, b.off, <<>>, held))
            BY <1>8, <2>2 DEF Bind
        <3>2. b.kind # "pair"
            <4>1. [id |-> b.id, kind |-> b.kind, type |-> b.type] \in Binding
                BY SensorsAssumption DEF SensorsAssumption
            <4> QED BY <4>1 DEF Binding
        <3>3. RoutedIn(With(sensors, b.id, New(b.kind, b.type, b.off, <<>>, held)))
            BY <2>2, <3>2, WithRouted
        <3> QED BY <3>1, <3>3
    <2> QED BY <2>1, <2>2
<1>9. CASE UNCHANGED sensors
    BY <1>9
<1> QED BY <1>1, <1>3, <1>4, <1>5, <1>6, <1>7, <1>8, <1>9
        DEF Next, Halted, StopRecord, GetValue, Caught, Uncaught, vars

LEMMA InitRouted == Init => RoutedIn(sensors)
<1> SUFFICES ASSUME Init, NEW i \in DOMAIN sensors  PROVE RouteOK(sensors, i)
    BY DEF RoutedIn
<1> DEFINE b == CHOOSE c \in Builtins : c.id = i
<1>1. b \in Builtins
    BY DEF Init
<1>2. b.kind # "pair"
    BY <1>1, SensorsAssumption DEF SensorsAssumption, Binding
<1>3. sensors[i] = New(b.kind, b.type, TRUE, <<>>, {})
    BY DEF Init
<1> HIDE DEF b
<1>4. sensors[i].kind # "pair" /\ sensors[i].parent = Data
    BY <1>2, <1>3 DEF New
<1> QED BY <1>4 DEF RouteOK

(* A sensor reports to the data or to one existing combination that names  *)
(* it, whatever the order of calls.                                        *)
THEOREM RoutedHolds == Spec => []Routed
<1>1. Spec => []TypeInv
    BY InitTypes, NextTypes, PTL DEF Spec
<1>2. RoutedIn(sensors) <=> Routed
    BY DEF RoutedIn, RouteOK, Routed
<1>3. Init => Routed
    BY <1>2, InitRouted
<1>4. TypeInv /\ Routed /\ [Next]_vars => Routed'
    <2>1. RoutedIn(sensors') <=> Routed'
        BY DEF RoutedIn, RouteOK, Routed
    <2> QED BY <1>2, <2>1, RoutedStep
<1> QED BY <1>1, <1>3, <1>4, PTL DEF Spec
-----------------------------------------------------------------------------
(***************************************************************************)
(* Requests to combine.  A request that was accepted is made, or waits     *)
(* under both of its parts for one that is missing; of those that waited   *)
(* there before nothing is left, so a sole request is never put aside.     *)
(***************************************************************************)
Parts(c) == {c.id1, c.id2}

MadeIn(s, c) == c.id \in DOMAIN s /\ s[c.id].kind = "pair" /\ s[c.id].parts = <<c.id1, c.id2>>
WaitsIn(p, c) == \A i \in Parts(c) : i \in DOMAIN p /\ p[i] = c
NotNow(s, c) == ~Ready(s, c) \/ c.id \in DOMAIN s \/ \E i \in Parts(c) : s[i].kind # "custom"
Answered(s, p, c) == MadeIn(s, c) \/ (WaitsIn(p, c) /\ NotNow(s, c))

FiledInv == \A i \in DOMAIN pending : pending[i] \in asked /\ i \in Parts(pending[i])

AnsweredInv == \A c \in asked : Sole(c) => Answered(sensors, pending, c)

LEMMA AnsweredIsNotForgotten == AnsweredInv <=> NotForgotten
BY DEF AnsweredInv, Answered, MadeIn, WaitsIn, NotNow, Parts, NotForgotten, Made, Waiting

(* Sensors are never removed, and keep their kind and their parts. *)
KindsKept(s, t) ==
    /\ DOMAIN s \subseteq DOMAIN t
    /\ \A i \in DOMAIN s : t[i].kind = s[i].kind /\ t[i].parts = s[i].parts

LEMMA ReceivedKinds == \A s, in : SensorsOK(s) => DOMAIN Received(s, in) = DOMAIN s /\ KindsKept(s, Received(s, in))
BY ReceivedShape DEF SameShape, KindsKept

LEMMA KindsStep == TypeInv /\ [Next]_vars => KindsKept(sensors, sensors')
<1> SUFFICES ASSUME TypeInv, [Next]_vars
             PROVE  KindsKept(sensors, sensors')
  OBVIOUS
<1>1. CASE Grows
  BY <1>1 DEF Grows, Grown, Same, KindsKept
<1>2. CASE Delivers
  <2>1. PICK s, in : Grown(sensors, s) /\ SensorsOK(s) /\ Deliver(s, in)
    BY <1>2 DEF Delivers
  <2>2. sensors' = Received(s, in) /\ KindsKept(s, Received(s, in)) /\ KindsKept(sensors, s)
    BY <2>1, ReceivedKinds DEF Deliver, Grown, Same, KindsKept
  <2> QED
    BY <2>2 DEF KindsKept
<1> QED
  BY <1>1, <1>2, StepKinds

(* A sensor that appears without answering the request is not custom, or is no part of it. *)
LEMMA AnsweredKept ==
    ASSUME NEW s, NEW t, KindsKept(s, t), NEW p, NEW q, NEW c, Answered(s, p, c),
           \A i \in Parts(c) : i \in DOMAIN p => i \in DOMAIN q /\ q[i] = p[i],
           \A i \in Parts(c) : i \in DOMAIN t \ DOMAIN s => t[i].kind # "custom"
    PROVE  Answered(t, q, c)
<1>1. CASE MadeIn(s, c)
  BY <1>1 DEF MadeIn, KindsKept, Answered
<1>2. CASE WaitsIn(p, c) /\ NotNow(s, c)
  <2>1. WaitsIn(q, c)
    BY <1>2 DEF WaitsIn
  <2>2. ASSUME ~Ready(s, c)
        PROVE  NotNow(t, c)
    <3>1. PICK i \in Parts(c) : i \notin DOMAIN s
      BY <2>2 DEF Ready, Parts
    <3> QED
      BY <3>1 DEF NotNow, Ready, Parts
  <2>3. ASSUME c.id \in DOMAIN s
        PROVE  NotNow(t, c)
    BY <2>3 DEF NotNow, KindsKept
  <2>4. ASSUME Ready(s, c), NEW i \in Parts(c), s[i].kind # "custom"
        PROVE  NotNow(t, c)
    BY <2>4 DEF NotNow, KindsKept, Ready, Parts
  <2>5. NotNow(t, c)
    BY <1>2, <2>2, <2>3, <2>4 DEF NotNow
  <2> QED
    BY <2>1, <2>5 DEF Answered
<1> QED
  BY <1>1, <1>2 DEF Answered

(* CombineSensors for a request d, on any table. *)
LEMMA TriedItself ==
    ASSUME NEW s, SensorsOK(s), NEW c \in Combos, Answered(s, pending, c) \/ ~Duplicate(s, c)
    PROVE  Answered(AfterCombine(s, c), Filed(s, c), c)
<1>1. CASE Ready(s, c) /\ ~Duplicate(s, c)
  <2> DEFINE r == Combined(s, c)
  <2>1. CombinedShape(s, c, r) /\ AfterCombine(s, c) = r
    BY <1>1, CombinedFields DEF AfterCombine
  <2> HIDE DEF r
  <2>2. MadeIn(r, c)
    BY <2>1 DEF CombinedShape, MadeIn
  <2> QED
    BY <2>1, <2>2 DEF Answered
<1>2. CASE Duplicate(s, c)
  BY <1>2 DEF Duplicate, AfterCombine, Filed
<1>3. CASE ~Ready(s, c)
  <2>1. AfterCombine(s, c) = s /\ ~Duplicate(s, c)
    BY <1>3 DEF AfterCombine, Duplicate
  <2>2. WaitsIn(Filed(s, c), c)
    BY <1>3 DEF Filed, WaitsIn, Parts
  <2> QED
    BY <1>3, <2>1, <2>2 DEF Answered, NotNow
<1> QED
  BY <1>1, <1>2, <1>3

LEMMA TriedAnother ==
    ASSUME NEW s, SensorsOK(s), NEW c \in Combos, NEW d \in Combos, Parts(c) \intersect Parts(d) = {},
           Answered(s, pending, c)
    PROVE  Answered(AfterCombine(s, d), Filed(s, d), c)
<1>1. \A i \in Parts(c) : i \in DOMAIN pending => i \in DOMAIN Filed(s, d) /\ Filed(s, d)[i] = pending[i]
  BY DEF Filed, Parts
<1>2. CASE Ready(s, d) /\ ~Duplicate(s, d)
  <2> DEFINE r == Combined(s, d)
  <2>1. CombinedShape(s, d, r) /\ AfterCombine(s, d) = r
    BY <1>2, CombinedFields DEF AfterCombine
  <2> HIDE DEF r
  <2>2. KindsKept(s, r) /\ \A i \in DOMAIN r \ DOMAIN s : r[i].kind = "pair"
    BY <2>1 DEF CombinedShape, KindsKept
  <2>3. Answered(r, Filed(s, d), c)
    BY <1>1, <2>2, AnsweredKept
  <2> QED
    BY <2>1, <2>3
<1>3. CASE ~(Ready(s, d) /\ ~Duplicate(s, d))
  <2>1. AfterCombine(s, d) = s /\ KindsKept(s, s)
    BY <1>3 DEF AfterCombine, KindsKept
  <2>2. Answered(s, Filed(s, d), c)
    BY <1>1, <2>1, AnsweredKept
  <2> QED
    BY <2>1, <2>2
<1> QED
  BY <1>2, <1>3

(* sensor_callback, up to where the waiting combination is tried. *)
LEMMA CreatedAnswers ==
    ASSUME TypeInv, FiledInv, NEW c \in Combos, Sole(c), Answered(sensors, pending, c), NEW k \in Customs
    PROVE  /\ Answered(Created(k), pending, c) \/ (k.id \in DOMAIN pending /\ pending[k.id] = c)
           /\ SensorsOK(Created(k)) /\ (c.id \in DOMAIN Created(k) => Answered(Created(k), pending, c))
<1>1. SensorsOK(Created(k)) /\ KindsKept(sensors, Created(k)) /\ DOMAIN Created(k) = DOMAIN sensors \union {k.id}
  <2>1. Grown(sensors, Created(k))
    BY CreatedGrown
  <2> QED
    BY <2>1, TypeOKSensors, CreatedOK DEF TypeInv, Grown, Same, KindsKept
<1>2. CASE k.id \in DOMAIN sensors \/ k.id \notin Parts(c)
  BY <1>1, <1>2, AnsweredKept
<1>3. CASE k.id \in Parts(c) /\ MadeIn(sensors, c)
  BY <1>1, <1>3 DEF Answered, MadeIn, KindsKept
<1>4. CASE k.id \in Parts(c) /\ WaitsIn(pending, c)
  <2>1. k.id \in DOMAIN pending /\ pending[k.id] = c
    BY <1>4 DEF WaitsIn
  <2>2. c.id \in DOMAIN Created(k) => Answered(Created(k), pending, c)
    BY <1>4 DEF Answered, NotNow
  <2> QED
    BY <1>1, <2>1, <2>2
<1> QED
  BY <1>1, <1>2, <1>3, <1>4 DEF Answered

LEMMA AnsweredStep ==
    ASSUME TypeInv, FiledInv, [Next]_vars, NEW c \in asked, Sole(c), Sole(c)', Answered(sensors, pending, c)
    PROVE  Answered(sensors', pending', c)
<1>0. KindsKept(sensors, sensors') /\ c \in Combos /\ SensorsOK(sensors)
  BY KindsStep, TypeOKSensors DEF TypeInv, TypeOK
<1>1. CASE pending' = pending /\ DOMAIN sensors' = DOMAIN sensors
  BY <1>0, <1>1, AnsweredKept
<1>2. ASSUME NEW d \in Combos, CombineSensors(d)
      PROVE  Answered(sensors', pending', c)
  <2>1. sensors' = AfterCombine(sensors, d) /\ pending' = Filed(sensors, d)
    BY <1>2 DEF CombineSensors
  <2>2. CASE d = c
    BY <1>0, <2>1, <2>2, TriedItself
  <2>3. CASE d # c /\ ~Duplicate(sensors, d)
    <3>1. d \in asked' \ {c}
      BY <1>2, <2>3 DEF CombineSensors
    <3>2. Parts(c) \intersect Parts(d) = {}
      BY <1>2, <3>1 DEF Sole, Parts
    <3> QED
      BY <1>0, <2>1, <3>2, TriedAnother
  <2>4. CASE Duplicate(sensors, d)
    <3>1. sensors' = sensors /\ pending' = pending
      BY <2>1, <2>4 DEF AfterCombine, Filed, Duplicate
    <3> QED
      BY <1>1, <3>1
  <2> QED
    BY <2>2, <2>3, <2>4
<1>3. ASSUME NEW k \in Customs, NEW v \in Values, Callback(k, v)
      PROVE  Answered(sensors', pending', c)
  <2> DEFINE s == Created(k)
             d == pending[k.id]
             r == Prepared(k)
  <2>1. /\ Answered(s, pending, c) \/ (k.id \in DOMAIN pending /\ pending[k.id] = c)
        /\ SensorsOK(s)
    BY <1>0, CreatedAnswers
  <2>2. Deliver(r, Sent(k, v)) /\ SensorsOK(r)
    BY <1>3, PreparedOK DEF TypeInv
  <2>3. k.id \in DOMAIN pending => ~Duplicate(s, d) /\ pending' = Filed(s, d) /\ r = AfterCombine(s, d)
    BY <1>3 DEF Callback, Prepared
  <2>4. k.id \notin DOMAIN pending => pending' = pending /\ r = s
    BY <1>3 DEF Callback, Prepared
  <2>5. Answered(r, pending', c)
    <3>1. CASE k.id \notin DOMAIN pending
      BY <2>1, <2>4, <3>1
    <3>2. CASE k.id \in DOMAIN pending /\ d = c
      BY <1>0, <2>1, <2>3, <3>2, TriedItself
    <3>3. CASE k.id \in DOMAIN pending /\ d # c
      <4>1. d \in asked \ {c} /\ d \in Combos
        BY <3>3 DEF FiledInv, TypeInv, TypeOK
      <4>2. Parts(c) \intersect Parts(d) = {}
        BY <4>1 DEF Sole, Parts
      <4>3. Answered(s, pending, c)
        BY <2>1, <3>3
      <4> HIDE DEF s, d, r
      <4> QED
        BY <1>0, <2>1, <2>3, <3>3, <4>1, <4>2, <4>3, TriedAnother
    <3> QED
      BY <3>1, <3>2, <3>3
  <2>6. sensors' = Received(r, Sent(k, v))
    BY <2>2 DEF Deliver
  <2>7. DOMAIN sensors' = DOMAIN r /\ KindsKept(r, sensors')
    BY <2>2, <2>6, ReceivedKinds
  <2> HIDE DEF r
  <2> QED
    BY <2>5, <2>7, AnsweredKept
<1>4. ASSUME NEW k \in Customs, CallbackDuplicate(k)
      PROVE  Answered(sensors', pending', c)
  <2>1. sensors' = Created(k) /\ pending' = pending /\ k.id \in DOMAIN pending /\ Duplicate(Created(k), pending[k.id])
    BY <1>4 DEF CallbackDuplicate
  <2>2. pending[k.id] = c => c.id \in DOMAIN Created(k)
    BY <2>1 DEF Duplicate
  <2> QED
    BY <1>0, <2>1, <2>2, CreatedAnswers
<1>5. ASSUME NEW b \in Bindings, Bind(b)
      PROVE  Answered(sensors', pending', c)
  <2>1. CASE b.id \in DOMAIN sensors
    BY <1>1, <1>5, <2>1 DEF Bind
  <2>2. CASE b.id \notin DOMAIN sensors
    <3>1. PICK held : sensors' = With(sensors, b.id, New(b.kind, b.type, b.off, <<>>, held))
      BY <1>5, <2>2 DEF Bind
    <3>2. b.kind # "custom"
      <4>1. [id |-> b.id, kind |-> b.kind, type |-> b.type] \in Binding
        BY SensorsAssumption DEF SensorsAssumption
      <4> QED
        BY <4>1 DEF Binding
    <3>3. DOMAIN sensors' = DOMAIN sensors \union {b.id} /\ sensors'[b.id].kind = b.kind
      BY <3>1 DEF With, New
    <3>4. pending' = pending
      BY <1>5 DEF Bind
    <3> QED
      BY <1>0, <3>2, <3>3, <3>4, AnsweredKept
  <2> QED
    BY <2>1, <2>2
<1>6. CASE StartRecord \/ StopRecord \/ StopEnds \/ (\E id \in Id, off \in BOOLEAN : SetOff(id, off))
           \/ (\E id \in Id : GetValue(id)) \/ (\E v \in Values : AddLate(v))
           \/ (\E k \in Customs : CallbackRefused(k)) \/ Caught \/ Uncaught \/ UNCHANGED vars
  <2>1. pending' = pending
    BY <1>6 DEF StartRecord, StopRecord, StopEnds, SetOff, GetValue, AddLate, CallbackRefused, Caught, Uncaught, vars
  <2>2. DOMAIN sensors' = DOMAIN sensors
    BY <1>6 DEF StartRecord, StopRecord, StopEnds, Cleared, SetOff, GetValue, AddLate, CallbackRefused, Caught,
                Uncaught, vars
  <2> QED
    BY <1>1, <2>1, <2>2
<1>7. ASSUME NEW in, Deliver(sensors, in), pending' = pending
      PROVE  Answered(sensors', pending', c)
  BY <1>0, <1>1, <1>7, ReceivedKinds DEF Deliver
<1>8. CASE StopDelivers \/ \E v \in Values : AddPC(v)
  BY <1>7, <1>8 DEF StopDelivers, AddPC
<1> QED
  BY <1>2, <1>3, <1>4, <1>5, <1>6, <1>8 DEF Next, Halted

LEMMA FiledStep == TypeInv /\ FiledInv /\ [Next]_vars => FiledInv' /\ asked \subseteq asked'
<1> SUFFICES ASSUME TypeInv, FiledInv, [Next]_vars
             PROVE  FiledInv' /\ asked \subseteq asked'
  OBVIOUS
<1>1. ASSUME NEW s, NEW d, pending' = Filed(s, d), d \in asked' \/ Duplicate(s, d), asked \subseteq asked'
      PROVE  FiledInv'
  <2>1. CASE Ready(s, d)
    <3>1. \A i \in DOMAIN pending' : i \in DOMAIN pending /\ pending'[i] = pending[i]
      BY <1>1, <2>1 DEF Filed
    <3> QED
      BY <1>1, <3>1 DEF FiledInv
  <2>2. CASE ~Ready(s, d)
    <3>1. \A i \in DOMAIN pending' : \/ i \in Parts(d) /\ pending'[i] = d
                                     \/ i \in DOMAIN pending /\ pending'[i] = pending[i]
      BY <1>1, <2>2 DEF Filed, Parts
    <3>2. d \in asked'
      BY <1>1, <2>2 DEF Duplicate
    <3> QED
      BY <1>1, <3>1, <3>2 DEF FiledInv
  <2> QED
    BY <2>1, <2>2
<1>2. ASSUME NEW d \in Combos, CombineSensors(d)
      PROVE  FiledInv' /\ asked \subseteq asked'
  BY <1>1, <1>2 DEF CombineSensors
<1>3. ASSUME NEW k \in Customs, NEW v \in Values, Callback(k, v)
      PROVE  FiledInv' /\ asked \subseteq asked'
  <2>1. CASE k.id \in DOMAIN pending
    <3>1. pending[k.id] \in asked /\ asked' = asked /\ pending' = Filed(Created(k), pending[k.id])
      BY <1>3, <2>1 DEF Callback, FiledInv
    <3> QED
      BY <1>1, <3>1
  <2>2. CASE k.id \notin DOMAIN pending
    <3>1. pending' = pending /\ asked' = asked
      BY <1>3, <2>2 DEF Callback
    <3> QED
      BY <3>1 DEF FiledInv
  <2> QED
    BY <2>1, <2>2
<1>4. CASE UNCHANGED <<pending, asked>>
  BY <1>4 DEF FiledInv
<1> QED
  BY <1>2, <1>3, <1>4 DEF Next, StartRecord, StopRecord, StopDelivers, StopEnds, CallbackRefused, CallbackDuplicate,
       Bind, SetOff, GetValue, AddPC, AddLate, Caught, Uncaught, Halted, vars

LEMMA AskedAnswers ==
    ASSUME TypeInv, [Next]_vars, NEW c \in asked', c \notin asked
    PROVE  Answered(sensors', pending', c)
<1>1. c \in Combos /\ CombineSensors(c) /\ ~Duplicate(sensors, c)
  BY DEF Next, StartRecord, StopRecord, StopDelivers, StopEnds, CallbackRefused, CallbackDuplicate, Callback,
       CombineSensors, Bind, SetOff, GetValue, AddPC, AddLate, Caught, Uncaught, Halted, vars
<1>2. SensorsOK(sensors) /\ sensors' = AfterCombine(sensors, c) /\ pending' = Filed(sensors, c)
  BY <1>1, TypeOKSensors DEF TypeInv, CombineSensors
<1> QED
  BY <1>1, <1>2, TriedItself

(* No order of the calls loses a combination that was asked for and accepted *)
(* and shares nothing with another one: for any IDs and any sensors.        *)
THEOREM NotForgottenHolds == Spec => []NotForgotten
<1>1. Init => FiledInv /\ AnsweredInv
  BY DEF Init, FiledInv, AnsweredInv
<1>2. TypeInv /\ FiledInv /\ AnsweredInv /\ [Next]_vars => FiledInv' /\ AnsweredInv'
  <2> SUFFICES ASSUME TypeInv, FiledInv, AnsweredInv, [Next]_vars
               PROVE  FiledInv' /\ AnsweredInv'
    OBVIOUS
  <2>1. FiledInv' /\ asked \subseteq asked'
    BY FiledStep
  <2>2. ASSUME NEW c \in asked', Sole(c)'
        PROVE  Answered(sensors', pending', c)
    <3>1. CASE c \in asked
      <4>1. Sole(c)
        BY <2>1, <2>2 DEF Sole
      <4>2. Answered(sensors, pending, c)
        BY <3>1, <4>1 DEF AnsweredInv
      <4> QED
        BY <2>2, <3>1, <4>1, <4>2, AnsweredStep
    <3>2. CASE c \notin asked
      BY <3>2, AskedAnswers
    <3> QED
      BY <3>1, <3>2
  <2>3. AnsweredInv'
    BY <2>2 DEF AnsweredInv
  <2> QED
    BY <2>1, <2>3
<1>3. Spec => []TypeInv
  BY InitTypes, NextTypes, PTL DEF Spec
<1>4. AnsweredInv => NotForgotten
  BY AnsweredIsNotForgotten
<1> QED
  BY <1>1, <1>2, <1>3, <1>4, PTL DEF Spec
-----------------------------------------------------------------------------
(***************************************************************************)
(* Buffers.  While a pair has not been stopped, each of its buffers has     *)
(* what its part reported to it; whoever takes a part over ends that.      *)
(***************************************************************************)
Fed(s, i, k) ==
    s[i].kind = "pair" /\ Feeds(s, i, k) => Elements(Buffer(s, i, k)) = s[Part(s, i, k)].reported

AllFed(s) == \A i \in DOMAIN s : \A k \in {1, 2} : Fed(s, i, k)

LEMMA ElementsAppend ==
    ASSUME NEW b \in Seq(Nat), NEW v \in Nat
    PROVE  Elements(Append(b, v)) = Elements(b) \union {v}
<1> DEFINE c == Append(b, v)
<1>1. Len(b) \in Nat /\ Len(c) = Len(b) + 1 /\ c[Len(b) + 1] = v /\ \A n \in 1..Len(b) : c[n] = b[n]
  OBVIOUS
<1> HIDE DEF c
<1>2. 1..(Len(b) + 1) = (1..Len(b)) \union {Len(b) + 1}
  BY <1>1
<1> QED
  BY <1>1, <1>2 DEF Elements, c

LEMMA NoElements == Elements(<<>>) = {}
BY DEF Elements

(* A pair gets a value exactly when its own part reports one. *)
LEMMA ReceivedFed ==
    ASSUME NEW s, NEW in, SensorsOK(s), InOK(s, in), RoutedIn(s), NEW i \in DOMAIN s, NEW k \in {1, 2}
    PROVE  /\ Fed(s, i, k) => Fed(Received(s, in), i, k)
           /\ s[i].kind = "pair" /\ Part(s, i, k) \notin DOMAIN in =>
                  Buffer(Received(s, in), i, k) = Buffer(s, i, k)
<1> DEFINE r == Received(s, in)
           p == Part(s, i, k)
<1>1. SameShape(s, r)
  BY ReceivedShape
<1> HIDE DEF r
<1>2. CASE s[i].kind # "pair"
  BY <1>1, <1>2 DEF Fed, SameShape, r
<1>3. CASE s[i].kind = "pair"
  <2>1. p \in DOMAIN s \ {i} /\ p = s[i].parts[k]
    BY <1>3 DEF RoutedIn, RouteOK, Part
  <2>2. Part(r, i, k) = p /\ Part(s, i, 1) = Part(r, i, 1) /\ Part(s, i, 2) = Part(r, i, 2)
    BY <1>1 DEF SameShape, Part
  <2>3. Feeds(r, i, k) <=> Feeds(s, i, k)
    BY <1>1, <2>1, <2>2 DEF SameShape, Feeds, InTime
  <2> DEFINE v == Report(s, in, p)
  <2>4. ASSUME p \in News(s, in)
        PROVE  v \in Nat
    <3>1. s[p].type \in ProcessorType /\ s[p].memory \in SUBSET Nat /\ IsFiniteSet(s[p].memory) /\ in[p] \in Nat
      BY <2>1, <2>4 DEF SensorsOK, Sensor, InOK, News
    <3> QED
      BY <3>1, RememberOK DEF Report
  <2> HIDE DEF v, p
  <2>5. Buffer(s, i, k) \in Seq(Nat)
    <3>1. s[i] \in Sensor
      BY DEF SensorsOK
    <3> QED
      BY <3>1 DEF Sensor, Buffer
  <2>6. /\ FromPart(s, in, i, k) => Buffer(r, i, k) = Append(Buffer(s, i, k), v)
        /\ ~FromPart(s, in, i, k) => Buffer(r, i, k) = Buffer(s, i, k)
    <3>1. /\ FromPart(s, in, i, 1) => r[i].first = Append(s[i].first, Report(s, in, s[i].parts[1]))
          /\ ~FromPart(s, in, i, 1) => r[i].first = s[i].first
          /\ FromPart(s, in, i, 2) => r[i].second = Append(s[i].second, Report(s, in, s[i].parts[2]))
          /\ ~FromPart(s, in, i, 2) => r[i].second = s[i].second
      BY ReceivedFields DEF r
    <3>2. CASE k = 1
      BY <2>1, <3>1, <3>2 DEF Buffer, v
    <3>3. CASE k = 2
      BY <2>1, <3>1, <3>3 DEF Buffer, v
    <3> QED
      BY <3>2, <3>3
  <2>7. /\ p \in News(s, in) => r[p].reported = s[p].reported \union {v}
        /\ p \notin News(s, in) => r[p].reported = s[p].reported
    BY <2>1, ReceivedFields DEF r, v
  <2>8. Feeds(s, i, k) => (FromPart(s, in, i, k) <=> p \in News(s, in))
    BY <1>3, <2>1 DEF Feeds, FromPart, Part, p
  <2>9. FromPart(s, in, i, k) => p \in News(s, in) /\ p \in DOMAIN in
    BY <2>1 DEF FromPart, News
  <2>10. Feeds(s, i, k) /\ Elements(Buffer(s, i, k)) = s[p].reported => Elements(Buffer(r, i, k)) = r[p].reported
    <3>1. CASE p \in News(s, in)
      BY <2>4, <2>5, <2>6, <2>7, <2>8, <3>1, ElementsAppend
    <3>2. CASE p \notin News(s, in)
      BY <2>6, <2>7, <2>8, <3>2
    <3> QED
      BY <3>1, <3>2
  <2>11. Fed(s, i, k) => Fed(r, i, k)
    BY <1>3, <2>2, <2>3, <2>10 DEF Fed, p
  <2> QED
    BY <2>6, <2>9, <2>11 DEF p, r
<1> QED
  BY <1>2, <1>3

(* Tables in which every pair keeps its buffers and its parts their reports. *)
LEMMA WithFed ==
    ASSUME NEW s, NEW id, id \notin DOMAIN s, RoutedIn(s), AllFed(s), NEW x, x.kind # "pair"
    PROVE  AllFed(With(s, id, x))
<1> DEFINE t == With(s, id, x)
<1>1. DOMAIN t = DOMAIN s \union {id} /\ t[id] = x /\ \A i \in DOMAIN s : t[i] = s[i]
  BY DEF With
<1> HIDE DEF t
<1>2. ASSUME NEW i \in DOMAIN s, NEW k \in {1, 2}
      PROVE  Fed(t, i, k)
  <2>1. Fed(s, i, k) /\ t[i] = s[i]
    BY <1>1 DEF AllFed
  <2>2. s[i].kind = "pair" => Part(s, i, k) \in DOMAIN s /\ t[Part(s, i, k)] = s[Part(s, i, k)]
    BY <1>1 DEF RoutedIn, RouteOK
  <2> QED
    BY <2>1, <2>2 DEF Fed, Feeds, InTime, Buffer, Part
<1>3. \A k \in {1, 2} : Fed(t, id, k)
  BY <1>1 DEF Fed
<1>4. AllFed(t)
  BY <1>1, <1>2, <1>3 DEF AllFed
<1> QED
  BY <1>4 DEF t

LEMMA AfterCombineFed ==
    ASSUME NEW s, SensorsOK(s), NEW c \in Combos, RoutedIn(s), AllFed(s)
    PROVE  AllFed(AfterCombine(s, c))
<1>1. CASE Ready(s, c) /\ ~Duplicate(s, c)
  <2> DEFINE r == Combined(s, c)
  <2>1. CombinedShape(s, c, r) /\ AfterCombine(s, c) = r
    BY <1>1, CombinedFields DEF AfterCombine
  <2> HIDE DEF r
  <2>2. ASSUME NEW k \in {1, 2}
        PROVE  Fed(r, c.id, k)
    <3>1. Part(r, c.id, k) \in {c.id1, c.id2} /\ Buffer(r, c.id, k) = <<>>
      BY <2>1 DEF CombinedShape, Part, Buffer
    <3> QED
      BY <2>1, <3>1, NoElements DEF CombinedShape, Fed
  <2>3. ASSUME NEW i \in DOMAIN s, NEW k \in {1, 2}, s[i].kind = "pair", Feeds(r, i, k)
        PROVE  Elements(Buffer(r, i, k)) = r[Part(r, i, k)].reported
    <3>1. /\ Part(s, i, 1) = Part(r, i, 1) /\ Part(s, i, 2) = Part(r, i, 2) /\ Buffer(r, i, k) = Buffer(s, i, k)
          /\ i # c.id
      BY <2>1 DEF CombinedShape, Part, Buffer
    <3>2. Part(s, i, k) \in DOMAIN s /\ Part(r, i, k) = Part(s, i, k)
      BY <2>3, <3>1 DEF RoutedIn, RouteOK
    <3>3. Part(s, i, k) \notin {c.id1, c.id2}
      BY <2>1, <2>3, <3>1, <3>2 DEF CombinedShape, Feeds
    <3>4. r[Part(s, i, k)] = s[Part(s, i, k)]
      BY <2>1, <3>2, <3>3 DEF CombinedShape
    <3>5. Feeds(s, i, k)
      BY <2>3, <3>1, <3>2, <3>4 DEF Feeds, InTime
    <3> QED
      BY <2>3, <3>1, <3>2, <3>4, <3>5 DEF AllFed, Fed
  <2>4. \A i \in DOMAIN s : \A k \in {1, 2} : Fed(r, i, k)
    BY <2>1, <2>3 DEF Fed, CombinedShape
  <2> QED
    BY <2>1, <2>2, <2>4 DEF AllFed, CombinedShape
<1>2. CASE ~(Ready(s, c) /\ ~Duplicate(s, c))
  BY <1>2 DEF AfterCombine
<1> QED
  BY <1>1, <1>2

(* What a stopped pair has in the buffer of a part that feeds it. *)
Emptied(s, i, k) == s[i].kind = "pair" /\ Feeds(s, i, k) => Buffer(s, i, k) = <<>>

BufferInv ==
    \A i \in DOMAIN sensors : \A k \in {1, 2} :
        IF Stopped(i) THEN Emptied(sensors, i, k) ELSE Fed(sensors, i, k)

LEMMA BufferInvIsBuffers == BufferInv <=> BuffersOfThisCycle
BY DEF BufferInv, Emptied, Fed, BuffersOfThisCycle

LEMMA FeedsKept ==
    ASSUME NEW s, NEW t, SameShape(s, t), RoutedIn(s), NEW i \in DOMAIN s, NEW k \in {1, 2}, s[i].kind = "pair"
    PROVE  /\ t[i].kind = "pair" /\ Part(s, i, k) \in DOMAIN s /\ Part(t, i, k) = Part(s, i, k)
           /\ Feeds(t, i, k) <=> Feeds(s, i, k)
<1>1. Part(s, i, k) \in DOMAIN s /\ t[i].parts = s[i].parts /\ t[i].kind = "pair"
  BY DEF RoutedIn, RouteOK, SameShape
<1>2. Part(t, i, k) = Part(s, i, k) /\ Part(t, i, 1) = Part(s, i, 1) /\ Part(t, i, 2) = Part(s, i, 2)
  BY <1>1 DEF Part
<1>3. t[Part(s, i, k)].parent = s[Part(s, i, k)].parent /\ t[Part(s, i, k)].kind = s[Part(s, i, k)].kind
  BY <1>1 DEF SameShape
<1> QED
  BY <1>1, <1>2, <1>3 DEF Feeds, InTime

(* What a step leaves alone stays fed, and stays empty. *)
LEMMA BufferKept ==
    ASSUME NEW s, NEW t, SameShape(s, t), RoutedIn(s), NEW i \in DOMAIN s, NEW k \in {1, 2},
           Buffer(t, i, k) = Buffer(s, i, k)
    PROVE  /\ Emptied(s, i, k) => Emptied(t, i, k)
           /\ Fed(s, i, k) /\ (s[i].kind = "pair" => t[Part(s, i, k)].reported = s[Part(s, i, k)].reported) => Fed(t, i, k)
<1>1. CASE s[i].kind = "pair"
  BY <1>1, FeedsKept DEF Emptied, Fed
<1>2. CASE s[i].kind # "pair"
  BY <1>2 DEF Emptied, Fed, SameShape
<1> QED
  BY <1>1, <1>2

LEMMA AllKept ==
    ASSUME NEW s, NEW t, SameShape(s, t), RoutedIn(s), AllFed(s),
           \A i \in DOMAIN s : t[i].first = s[i].first /\ t[i].second = s[i].second /\ t[i].reported = s[i].reported
    PROVE  AllFed(t)
<1> SUFFICES ASSUME NEW i \in DOMAIN s, NEW k \in {1, 2}
             PROVE  Fed(t, i, k)
  BY DEF AllFed, SameShape
<1>1. Buffer(t, i, k) = Buffer(s, i, k) /\ Fed(s, i, k)
  BY DEF Buffer, AllFed
<1>2. s[i].kind = "pair" => t[Part(s, i, k)].reported = s[Part(s, i, k)].reported
  BY FeedsKept
<1> QED
  BY <1>1, <1>2, BufferKept

LEMMA ReceivedAllFed ==
    ASSUME NEW s, NEW in, SensorsOK(s), InOK(s, in), RoutedIn(s), AllFed(s)
    PROVE  AllFed(Received(s, in))
<1>1. DOMAIN Received(s, in) = DOMAIN s
  BY ReceivedShape DEF SameShape
<1>2. \A i \in DOMAIN s : \A k \in {1, 2} : Fed(Received(s, in), i, k)
  BY ReceivedFed DEF AllFed
<1> QED
  BY <1>1, <1>2 DEF AllFed

(* While the target runs no buffer has been emptied. *)
LEMMA CallsFed ==
    ASSUME TypeInv, RoutedIn(sensors), AllFed(sensors), [Next]_vars, pc \in {"recording", "terminated"}, ~StopRecord
    PROVE  AllFed(sensors') /\ pc' \in {"recording", "terminated"}
<1>0. SensorsOK(sensors) /\ TypeOK
  BY TypeOKSensors DEF TypeInv
<1>1. ASSUME NEW c \in Combos, CombineSensors(c)
      PROVE  AllFed(sensors')
  BY <1>0, <1>1, AfterCombineFed DEF CombineSensors
<1>2. ASSUME NEW c \in Customs
      PROVE  AllFed(Created(c)) /\ RoutedIn(Created(c)) /\ SensorsOK(Created(c))
  <2>1. CASE c.id \in DOMAIN sensors
    BY <1>0, <2>1 DEF Created
  <2>2. CASE c.id \notin DOMAIN sensors
    <3>1. New("custom", c.type, FALSE, <<>>, {}).kind # "pair"
      BY DEF New
    <3>2. AllFed(Created(c))
      BY <2>2, <3>1, WithFed DEF Created
    <3> QED
      BY <1>0, <3>2, CreatedRouted, CreatedOK
  <2> QED
    BY <2>1, <2>2
<1>3. ASSUME NEW c \in Customs, NEW v \in Values, Callback(c, v)
      PROVE  AllFed(sensors')
  <2> DEFINE r == Prepared(c)
  <2>1. c.id \in DOMAIN pending => pending[c.id] \in Combos
    BY <1>0 DEF TypeOK
  <2>2. AllFed(r)
    BY <1>2, <2>1, AfterCombineFed DEF Prepared
  <2>3. SensorsOK(r) /\ InOK(r, Sent(c, v)) /\ RoutedIn(r) /\ Deliver(r, Sent(c, v))
    BY <1>0, <1>3, PreparedOK, PreparedRouted
  <2> HIDE DEF r
  <2>4. sensors' = Received(r, Sent(c, v))
    BY <2>3 DEF Deliver
  <2> QED
    BY <2>2, <2>3, <2>4, ReceivedAllFed
<1>4. ASSUME NEW c \in Customs, CallbackDuplicate(c)
      PROVE  AllFed(sensors')
  BY <1>2, <1>4 DEF CallbackDuplicate
<1>5. ASSUME NEW b \in Bindings, Bind(b)
      PROVE  AllFed(sensors')
  <2>1. CASE b.id \in DOMAIN sensors
    BY <1>5, <2>1 DEF Bind
  <2>2. CASE b.id \notin DOMAIN sensors
    <3>1. PICK held : sensors' = With(sensors, b.id, New(b.kind, b.type, b.off, <<>>, held))
      BY <1>5, <2>2 DEF Bind
    <3>2. b.kind # "pair"
      <4>1. [id |-> b.id, kind |-> b.kind, type |-> b.type] \in Binding
        BY SensorsAssumption DEF SensorsAssumption
      <4> QED
        BY <4>1 DEF Binding
    <3>3. New(b.kind, b.type, b.off, <<>>, held).kind # "pair"
      BY <3>2 DEF New
    <3> QED
      BY <2>2, <3>1, <3>3, WithFed
  <2> QED
    BY <2>1, <2>2
<1>6. ASSUME NEW id \in Id, NEW off \in BOOLEAN, SetOff(id, off)
      PROVE  AllFed(sensors')
  <2>1. DOMAIN sensors' = DOMAIN sensors
    BY <1>6 DEF SetOff
  <2>2. ASSUME NEW i \in DOMAIN sensors
        PROVE  /\ sensors'[i].kind = sensors[i].kind /\ sensors'[i].parts = sensors[i].parts
               /\ sensors'[i].parent = sensors[i].parent /\ sensors'[i].first = sensors[i].first
               /\ sensors'[i].second = sensors[i].second /\ sensors'[i].reported = sensors[i].reported
    <3>1. sensors[i] \in Sensor
      BY <1>0 DEF SensorsOK
    <3>2. sensors'[i] = sensors[i] \/ sensors'[i] = [sensors[i] EXCEPT !.off = off]
      BY <1>6 DEF SetOff
    <3> QED
      BY <3>1, <3>2 DEF Sensor
  <2>3. SameShape(sensors, sensors')
    BY <2>1, <2>2 DEF SameShape
  <2> QED
    BY <2>2, <2>3, AllKept
<1>7. ASSUME NEW v \in Values, AddLate(v)
      PROVE  AllFed(sensors')
  <2>1. DOMAIN sensors' = DOMAIN sensors
    BY <1>7 DEF AddLate
  <2>2. ASSUME NEW i \in DOMAIN sensors
        PROVE  /\ sensors'[i].kind = sensors[i].kind /\ sensors'[i].parts = sensors[i].parts
               /\ sensors'[i].parent = sensors[i].parent /\ sensors'[i].first = sensors[i].first
               /\ sensors'[i].second = sensors[i].second /\ sensors'[i].reported = sensors[i].reported
    <3>1. sensors[i] \in Sensor
      BY <1>0 DEF SensorsOK
    <3>2. \/ sensors'[i] = [sensors[i] EXCEPT !.held = sensors[i].held \union {v}]
          \/ sensors'[i] = [sensors[i] EXCEPT !.held = sensors[i].held]
      BY <1>7, <3>1 DEF AddLate, Sensor
    <3> QED
      BY <3>1, <3>2 DEF Sensor
  <2>3. SameShape(sensors, sensors')
    BY <2>1, <2>2 DEF SameShape
  <2> QED
    BY <2>2, <2>3, AllKept
<1>8. ASSUME NEW v \in Values, AddPC(v)
      PROVE  AllFed(sensors')
  <2> DEFINE in == [i \in Listening("pc") |-> v]
  <2>1. InOK(sensors, in)
    BY SensorsAssumption DEF InOK, Listening, SensorsAssumption
  <2>2. sensors' = Received(sensors, in)
    BY <1>8 DEF AddPC, Deliver
  <2> HIDE DEF in
  <2> QED
    BY <1>0, <2>1, <2>2, ReceivedAllFed
<1>9. UNCHANGED sensors => AllFed(sensors')
  OBVIOUS
<1>10. ~StartRecord /\ ~StopDelivers /\ ~StopEnds
  BY DEF StartRecord, StopDelivers, StopEnds
<1>11. AllFed(sensors')
  BY <1>1, <1>3, <1>4, <1>5, <1>6, <1>7, <1>8, <1>9, <1>10
     DEF Next, Halted, CallbackRefused, GetValue, Caught, Uncaught, vars
<1>12. pc' \in {"recording", "terminated"}
  BY <1>10 DEF Next, CallbackRefused, CallbackDuplicate, Callback, CombineSensors, Bind, SetOff, GetValue, AddPC,
               AddLate, Callable, Caught, Uncaught, Halted, vars
<1> QED
  BY <1>11, <1>12

(* The loop that stops the sensors goes through them in the order of their IDs. *)
LEMMA StopNextLeast ==
    ASSUME NEW s, NEW ids \in SUBSET Nat, StopNext(s, ids)
    PROVE  /\ pc' = "stopping" => \A j \in ids : at' <= j
           /\ pc' # "stopping" => pc' = "idle" /\ ids = {}
BY DEF StopNext

LEMMA StartEmpty ==
    ASSUME TypeInv, RoutedIn(sensors), BufferInv, StartRecord
    PROVE  BufferInv'
<1>0. SensorsOK(sensors) /\ pc = "idle" /\ pc' = "recording"
  BY TypeOKSensors DEF TypeInv, StartRecord
<1>1. DOMAIN sensors' = DOMAIN sensors
  BY DEF StartRecord
<1>2. ASSUME NEW i \in DOMAIN sensors
      PROVE  /\ sensors'[i].kind = sensors[i].kind /\ sensors'[i].parts = sensors[i].parts
             /\ sensors'[i].parent = sensors[i].parent /\ sensors'[i].first = sensors[i].first
             /\ sensors'[i].second = sensors[i].second /\ sensors'[i].reported = {}
  <2>1. sensors[i] \in Sensor
    BY <1>0 DEF SensorsOK
  <2>2. sensors'[i] = [sensors[i] EXCEPT !.held = {}, !.reported = {}]
    BY DEF StartRecord
  <2> QED
    BY <2>1, <2>2 DEF Sensor
<1>3. SameShape(sensors, sensors')
  BY <1>1, <1>2 DEF SameShape
<1>4. ASSUME NEW i \in DOMAIN sensors, NEW k \in {1, 2}
      PROVE  Fed(sensors', i, k)
  <2>1. Emptied(sensors, i, k)
    BY <1>0 DEF BufferInv, Stopped
  <2>2. Buffer(sensors', i, k) = Buffer(sensors, i, k)
    BY <1>2 DEF Buffer
  <2>3. Emptied(sensors', i, k)
    BY <1>3, <2>1, <2>2, BufferKept
  <2>4. sensors'[i].kind = "pair" => sensors'[Part(sensors', i, k)].reported = {}
    <3>1. ASSUME sensors'[i].kind = "pair"
          PROVE  Part(sensors', i, k) \in DOMAIN sensors
      BY <1>2, <1>3, <3>1, FeedsKept
    <3> QED
      BY <1>2, <3>1
  <2> QED
    BY <2>3, <2>4, NoElements DEF Emptied, Fed
<1> QED
  BY <1>0, <1>1, <1>4 DEF BufferInv, Stopped

LEMMA StopRecordFed ==
    ASSUME TypeInv, BufferInv, StopRecord
    PROVE  BufferInv'
<1>1. DOMAIN sensors \in SUBSET Nat
  BY SensorsAssumption DEF TypeInv, TypeOK, SensorsAssumption
<1>2. StopNext(sensors, DOMAIN sensors) /\ sensors' = sensors /\ pc = "recording"
  BY DEF StopRecord
<1>3. SensorsOK(sensors) /\ DOMAIN sensors \in SUBSET DOMAIN sensors
  BY TypeOKSensors DEF TypeInv
<1>4. /\ pc' = "stopping" => at' \in DOMAIN sensors /\ \A j \in DOMAIN sensors : at' <= j
      /\ pc' # "stopping" => pc' = "idle" /\ DOMAIN sensors = {}
  BY <1>1, <1>2, <1>3, StopNextLeast, StopNextOK
<1>5. AllFed(sensors)
  BY <1>2 DEF AllFed, BufferInv, Stopped
<1>6. ASSUME NEW i \in DOMAIN sensors
      PROVE  ~Stopped(i)'
  BY <1>1, <1>4 DEF Stopped
<1> QED
  BY <1>2, <1>5, <1>6 DEF BufferInv, AllFed

(* What delivers while it is stopped is late or a pair. *)
LEMMA DeliveredKind ==
    ASSUME NEW s, NEW i, NEW item \in Items(s, i)
    PROVE  s[i].kind \in {"late", "pair"} /\ ~s[i].off
BY DEF Items

LEMMA DeliverFed ==
    ASSUME TypeInv, RoutedIn(sensors), BufferInv, StopDelivers
    PROVE  BufferInv'
<1>0. SensorsOK(sensors) /\ DOMAIN sensors \in SUBSET Nat
  BY TypeOKSensors, SensorsAssumption DEF TypeInv, TypeOK, SensorsAssumption
<1>1. PICK item \in left : Deliver(sensors, [i \in {at} |-> ItemValue(sensors, at, item)])
  BY DEF StopDelivers
<1> DEFINE in == [i \in {at} |-> ItemValue(sensors, at, item)]
<1>2. at \in DOMAIN sensors /\ item \in Items(sensors, at)
  BY <1>1 DEF TypeInv, LeftOK, StopDelivers
<1>3. InOK(sensors, in) /\ DOMAIN in = {at}
  BY <1>0, <1>2, ItemsOK DEF InOK
<1>4. sensors' = Received(sensors, in)
  BY <1>1 DEF Deliver
<1> HIDE DEF in
<1>5. SameShape(sensors, sensors')
  BY <1>0, <1>4, ReceivedShape
<1>6. ASSUME NEW i \in DOMAIN sensors, NEW k \in {1, 2}, Fed(sensors, i, k)
      PROVE  Fed(sensors', i, k)
  BY <1>0, <1>3, <1>4, <1>6, ReceivedFed
<1>7. ASSUME NEW i \in DOMAIN sensors, NEW k \in {1, 2}, i < at, Emptied(sensors, i, k)
      PROVE  Emptied(sensors', i, k)
  <2>1. ASSUME sensors'[i].kind = "pair", Feeds(sensors', i, k)
        PROVE  Buffer(sensors', i, k) = <<>>
    <3>1. sensors[i].kind = "pair"
      BY <1>5, <2>1 DEF SameShape
    <3>2. Feeds(sensors, i, k)
      BY <1>5, <2>1, <3>1, FeedsKept
    <3>3. Part(sensors, i, k) # at
      BY <1>0, <1>2, <1>7, <3>2, DeliveredKind DEF Feeds, InTime
    <3>4. Buffer(sensors', i, k) = Buffer(sensors, i, k)
      BY <1>0, <1>3, <1>4, <3>1, <3>3, ReceivedFed
    <3> QED
      BY <1>7, <3>1, <3>2, <3>4 DEF Emptied
  <2> QED
    BY <2>1 DEF Emptied
<1>8. pc = "stopping" /\ pc' = pc /\ at' = at /\ DOMAIN sensors' = DOMAIN sensors
  BY <1>5 DEF StopDelivers, SameShape
<1> QED
  BY <1>6, <1>7, <1>8 DEF BufferInv, Stopped

LEMMA ClearedFields ==
    ASSUME NEW s, SensorsOK(s), NEW j \in DOMAIN s
    PROVE  /\ SameShape(s, Cleared(s, j))
           /\ Cleared(s, j)[j].first = <<>> /\ Cleared(s, j)[j].second = <<>>
           /\ \A i \in DOMAIN s : Cleared(s, j)[i].reported = s[i].reported
           /\ \A i \in DOMAIN s \ {j} : Cleared(s, j)[i] = s[i]
<1> DEFINE t == Cleared(s, j)
<1>1. DOMAIN t = DOMAIN s /\ (\A i \in DOMAIN s \ {j} : t[i] = s[i])
  BY DEF Cleared
<1>2. t[j] = [s[j] EXCEPT !.first = <<>>, !.second = <<>>] /\ s[j] \in Sensor
  BY DEF Cleared, SensorsOK
<1> HIDE DEF t
<1>3. /\ t[j].kind = s[j].kind /\ t[j].parts = s[j].parts /\ t[j].parent = s[j].parent
      /\ t[j].first = <<>> /\ t[j].second = <<>> /\ t[j].reported = s[j].reported
  BY <1>2 DEF Sensor
<1>4. SameShape(s, t) /\ (\A i \in DOMAIN s : t[i].reported = s[i].reported)
  BY <1>1, <1>3 DEF SameShape
<1> QED
  BY <1>1, <1>3, <1>4 DEF t

LEMMA StopEndsFed ==
    ASSUME TypeInv, RoutedIn(sensors), BufferInv, StopEnds
    PROVE  BufferInv'
<1>0. SensorsOK(sensors) /\ DOMAIN sensors \in SUBSET Nat
  BY TypeOKSensors, SensorsAssumption DEF TypeInv, TypeOK, SensorsAssumption
<1>1. at \in DOMAIN sensors /\ pc = "stopping" /\ sensors' = Cleared(sensors, at)
  BY DEF TypeInv, LeftOK, StopEnds
<1> DEFINE rest == {i \in DOMAIN sensors : i > at}
<1>2. rest \in SUBSET Nat /\ rest \in SUBSET DOMAIN sensors /\ StopNext(sensors, rest)
  BY <1>0 DEF StopEnds
<1>3. \A i \in DOMAIN sensors : i \in rest <=> i > at
  OBVIOUS
<1> HIDE DEF rest
<1>4. /\ pc' = "stopping" => at' \in rest /\ \A j \in rest : at' <= j
      /\ pc' # "stopping" => pc' = "idle" /\ rest = {}
  BY <1>0, <1>2, StopNextLeast, StopNextOK
<1>5. SameShape(sensors, sensors')
  BY <1>0, <1>1, ClearedFields
<1>6. ASSUME NEW i \in DOMAIN sensors
      PROVE  Stopped(i)' <=> (i = at \/ Stopped(i))
  <2>1. i \in Nat /\ at \in Nat /\ (i \in rest <=> i > at) /\ (Stopped(i) <=> i < at)
    BY <1>0, <1>1, <1>3 DEF Stopped
  <2>2. CASE pc' = "stopping"
    <3>1. at' \in Nat /\ at' > at /\ (i > at => at' <= i) /\ (Stopped(i)' <=> i < at')
      BY <1>0, <1>2, <1>3, <1>4, <2>1, <2>2 DEF Stopped
    <3> QED
      BY <2>1, <3>1
  <2>3. CASE pc' # "stopping"
    <3>1. Stopped(i)' /\ i \notin rest
      BY <1>4, <2>3 DEF Stopped
    <3> QED
      BY <2>1, <3>1
  <2> QED
    BY <2>2, <2>3
<1>7. ASSUME NEW i \in DOMAIN sensors, ~Stopped(i)'
      PROVE  i # at /\ ~Stopped(i)
  BY <1>6, <1>7
<1>8. ASSUME NEW i \in DOMAIN sensors, NEW k \in {1, 2}, Stopped(i)'
      PROVE  Emptied(sensors', i, k)
  <2>1. CASE i = at
    BY <1>0, <1>1, <2>1, ClearedFields DEF Emptied, Buffer
  <2>2. CASE i # at
    <3>1. Emptied(sensors, i, k)
      BY <1>6, <1>8, <2>2 DEF BufferInv
    <3>2. Buffer(sensors', i, k) = Buffer(sensors, i, k)
      BY <1>0, <1>1, <2>2, ClearedFields DEF Buffer
    <3> QED
      BY <1>5, <3>1, <3>2, BufferKept
  <2> QED
    BY <2>1, <2>2
<1>9. ASSUME NEW i \in DOMAIN sensors, NEW k \in {1, 2}, ~Stopped(i)'
      PROVE  Fed(sensors', i, k)
  <2>1. Fed(sensors, i, k) /\ i # at
    BY <1>7, <1>9 DEF BufferInv
  <2>2. Buffer(sensors', i, k) = Buffer(sensors, i, k)
    BY <1>0, <1>1, <2>1, ClearedFields DEF Buffer
  <2>3. sensors[i].kind = "pair" => Part(sensors, i, k) \in DOMAIN sensors
    BY DEF RoutedIn, RouteOK
  <2>4. sensors[i].kind = "pair" => sensors'[Part(sensors, i, k)].reported = sensors[Part(sensors, i, k)].reported
    BY <1>0, <1>1, <2>3, ClearedFields
  <2> QED
    BY <1>5, <2>1, <2>2, <2>4, BufferKept
<1>10. DOMAIN sensors' = DOMAIN sensors
  BY <1>5 DEF SameShape
<1> QED
  BY <1>8, <1>9, <1>10 DEF BufferInv

LEMMA BufferStep == TypeInv /\ RoutedIn(sensors) /\ BufferInv /\ [Next]_vars => BufferInv'
<1> SUFFICES ASSUME TypeInv, RoutedIn(sensors), BufferInv, [Next]_vars
             PROVE  BufferInv'
  OBVIOUS
<1>1. CASE StartRecord
  BY <1>1, StartEmpty
<1>2. CASE StopRecord
  BY <1>2, StopRecordFed
<1>3. CASE StopDelivers
  BY <1>3, DeliverFed
<1>4. CASE StopEnds
  BY <1>4, StopEndsFed
<1>5. CASE pc \in {"recording", "terminated"} /\ ~StopRecord
  <2>1. AllFed(sensors)
    BY <1>5 DEF BufferInv, AllFed, Stopped
  <2>2. AllFed(sensors') /\ pc' \in {"recording", "terminated"}
    BY <1>5, <2>1, CallsFed
  <2> QED
    BY <2>2 DEF BufferInv, AllFed, Stopped
<1>6. CASE UNCHANGED vars
  BY <1>6 DEF vars, BufferInv, Stopped
<1>7. StartRecord \/ StopRecord \/ StopDelivers \/ StopEnds \/ pc \in {"recording", "terminated"} \/ UNCHANGED vars
  BY DEF Next, CallbackRefused, CallbackDuplicate, Callback, CombineSensors, Bind, SetOff, GetValue, AddPC,
         AddLate, Callable, Caught, Uncaught, Halted
<1> QED
  BY <1>1, <1>2, <1>3, <1>4, <1>5, <1>6, <1>7

LEMMA InitBuffers == Init => BufferInv
<1> SUFFICES ASSUME Init, NEW i \in DOMAIN sensors, NEW k \in {1, 2}
             PROVE  Emptied(sensors, i, k)
  <2>1. Init => \A i \in DOMAIN sensors : Stopped(i)
    BY DEF Init, Stopped
  <2> QED
    BY <2>1 DEF BufferInv
<1> DEFINE b == CHOOSE c \in Builtins : c.id = i
<1>1. sensors[i] = New(b.kind, b.type, TRUE, <<>>, {})
  BY DEF Init
<1> HIDE DEF b
<1> QED
  BY <1>1 DEF New, Emptied, Buffer

(* The buffers of a combined sensor belong to the cycle that is recorded:  *)
(* for any IDs, any sensors and any calls.                                 *)
THEOREM BuffersHold == Spec => []BuffersOfThisCycle
<1>1. Spec => []TypeInv
  BY InitTypes, NextTypes, PTL DEF Spec
<1>2. RoutedIn(sensors) <=> Routed
  BY DEF RoutedIn, RouteOK, Routed
<1>3. TypeInv /\ Routed /\ BufferInv /\ [Next]_vars => BufferInv'
  BY <1>2, BufferStep
<1> QED
  BY <1>1, <1>3, RoutedHolds, InitBuffers, BufferInvIsBuffers, PTL DEF Spec

(* The pair that is being stopped: what it has delivered, its processor heard. *)
HeardInv ==
    pc = "stopping" /\ sensors[at].kind = "pair" =>
        \A item \in Items(sensors, at) \ left : ItemValue(sensors, at, item) \in sensors[at].heard

LEMMA ItemsOfBuffers ==
    ASSUME NEW s, NEW t, NEW i, t[i].kind = s[i].kind, t[i].off = s[i].off, t[i].first = s[i].first,
           t[i].second = s[i].second, s[i].kind = "pair"
    PROVE  Items(t, i) = Items(s, i) /\ \A item : ItemValue(t, i, item) = ItemValue(s, i, item)
BY DEF Items, ItemValue

LEMMA HeardDelivers ==
    ASSUME TypeInv, RoutedIn(sensors), HeardInv, StopDelivers
    PROVE  HeardInv'
<1>0. SensorsOK(sensors)
  BY TypeOKSensors DEF TypeInv
<1>1. PICK item \in left : /\ Deliver(sensors, [i \in {at} |-> ItemValue(sensors, at, item)])
                           /\ left' = left \ {item}
  BY DEF StopDelivers
<1> DEFINE in == [i \in {at} |-> ItemValue(sensors, at, item)]
<1>2. at \in DOMAIN sensors /\ item \in Items(sensors, at) /\ pc = "stopping" /\ at' = at
  BY <1>1 DEF TypeInv, LeftOK, StopDelivers
<1>3. InOK(sensors, in) /\ DOMAIN in = {at} /\ in[at] = ItemValue(sensors, at, item)
  BY <1>0, <1>2, ItemsOK DEF InOK
<1>4. sensors' = Received(sensors, in)
  BY <1>1 DEF Deliver
<1> HIDE DEF in
<1>5. /\ sensors'[at].kind = sensors[at].kind /\ sensors'[at].off = sensors[at].off
      /\ sensors'[at].heard = sensors[at].heard \union {ItemValue(sensors, at, item)}
  BY <1>0, <1>2, <1>3, <1>4, ReceivedFields
<1>6. CASE sensors[at].kind = "pair"
  <2>1. \A k \in {1, 2} : Part(sensors, at, k) \notin DOMAIN in
    BY <1>2, <1>3, <1>6 DEF RoutedIn, RouteOK
  <2>2. \A k \in {1, 2} : Buffer(sensors', at, k) = Buffer(sensors, at, k)
    BY <1>0, <1>2, <1>3, <1>4, <1>6, <2>1, ReceivedFed
  <2>3. sensors'[at].first = sensors[at].first /\ sensors'[at].second = sensors[at].second
    BY <2>2 DEF Buffer
  <2>4. Items(sensors', at) = Items(sensors, at) /\ \A x : ItemValue(sensors', at, x) = ItemValue(sensors, at, x)
    BY <1>5, <1>6, <2>3, ItemsOfBuffers
  <2>5. \A x \in Items(sensors, at) \ left : ItemValue(sensors, at, x) \in sensors[at].heard
    BY <1>2, <1>6 DEF HeardInv
  <2>6. \A x \in Items(sensors', at') \ left' : ItemValue(sensors', at', x) \in sensors'[at'].heard
    BY <1>1, <1>2, <1>5, <2>4, <2>5
  <2> QED
    BY <2>6 DEF HeardInv
<1>7. CASE sensors[at].kind # "pair"
  BY <1>2, <1>5, <1>7 DEF HeardInv
<1> QED
  BY <1>6, <1>7

LEMMA HeardStep == TypeInv /\ RoutedIn(sensors) /\ HeardInv /\ [Next]_vars => HeardInv'
<1> SUFFICES ASSUME TypeInv, RoutedIn(sensors), HeardInv, [Next]_vars
             PROVE  HeardInv'
  OBVIOUS
<1>0. SensorsOK(sensors) /\ DOMAIN sensors \in SUBSET Nat
  BY TypeOKSensors, SensorsAssumption DEF TypeInv, TypeOK, SensorsAssumption
<1>1. ASSUME pc' = "stopping" => left' = Items(sensors', at')
      PROVE  HeardInv'
  BY <1>1 DEF HeardInv
<1>2. CASE StopRecord
  <2>1. pc' = "stopping" => left' = Items(sensors, at')
    <3>1. StopNext(sensors, DOMAIN sensors) /\ DOMAIN sensors \in SUBSET DOMAIN sensors
      BY <1>2 DEF StopRecord
    <3> QED
      BY <1>0, <3>1, StopNextOK
  <2> QED
    BY <1>1, <1>2, <2>1 DEF StopRecord
<1>3. CASE StopEnds
  <2> DEFINE rest == {i \in DOMAIN sensors : i > at}
  <2>1. rest \in SUBSET DOMAIN sensors /\ StopNext(sensors, rest)
    BY <1>3 DEF StopEnds
  <2>2. at \in DOMAIN sensors /\ at \in Nat /\ at \notin rest
    BY <1>0, <1>3 DEF TypeInv, LeftOK, StopEnds
  <2> HIDE DEF rest
  <2>3. pc' = "stopping" => at' \in rest /\ left' = Items(sensors, at')
    BY <1>0, <2>1, StopNextOK
  <2>4. pc' = "stopping" => sensors'[at'] = sensors[at']
    BY <1>0, <1>3, <2>1, <2>2, <2>3, ClearedFields DEF StopEnds
  <2>5. pc' = "stopping" => Items(sensors', at') = Items(sensors, at')
    BY <2>4 DEF Items
  <2> QED
    BY <1>1, <2>3, <2>5
<1>4. CASE StopDelivers
  BY <1>4, HeardDelivers
<1>5. CASE UNCHANGED vars
  BY <1>5 DEF vars, HeardInv
<1>6. StopRecord \/ StopDelivers \/ StopEnds \/ UNCHANGED vars \/ pc' # "stopping"
  BY DEF Next, StartRecord, CallbackRefused, CallbackDuplicate, Callback, CombineSensors, Bind, SetOff, GetValue,
         AddPC, AddLate, Callable, Caught, Uncaught, Halted
<1> QED
  BY <1>1, <1>2, <1>3, <1>4, <1>5, <1>6

LEMMA ProductOfBuffers ==
    ASSUME TypeInv, BufferInv, HeardInv
    PROVE  ProductHeard
<1> SUFFICES ASSUME pc = "stopping", left = {}, sensors[at].kind = "pair", ~sensors[at].off,
                    Feeds(sensors, at, 1), Feeds(sensors, at, 2),
                    NEW v \in sensors[Part(sensors, at, 1)].reported,
                    NEW w \in sensors[Part(sensors, at, 2)].reported
             PROVE  Packed(v, w) \in sensors[at].heard
  BY DEF ProductHeard
<1>1. at \in DOMAIN sensors /\ at \in Nat
  BY SensorsAssumption DEF TypeInv, TypeOK, LeftOK, SensorsAssumption
<1>2. ~Stopped(at)
  BY <1>1 DEF Stopped
<1>3. v \in Elements(sensors[at].first) /\ w \in Elements(sensors[at].second)
  <2>1. Fed(sensors, at, 1) /\ Fed(sensors, at, 2)
    BY <1>1, <1>2 DEF BufferInv
  <2> QED
    BY <2>1 DEF Fed, Buffer
<1>4. PICK n \in 1..Len(sensors[at].first) : v = sensors[at].first[n]
  BY <1>3 DEF Elements
<1>5. PICK m \in 1..Len(sensors[at].second) : w = sensors[at].second[m]
  BY <1>3 DEF Elements
<1>6. <<n, m>> \in Items(sensors, at) /\ ItemValue(sensors, at, <<n, m>>) = Packed(v, w)
  BY <1>4, <1>5 DEF Items, ItemValue
<1> QED
  BY <1>6 DEF HeardInv

(* When a combined sensor has been stopped, its processor was given every   *)
(* combination of what its parts reported, for any IDs and any calls.      *)
THEOREM ProductHolds == Spec => []ProductHeard
<1>1. Spec => []TypeInv
  BY InitTypes, NextTypes, PTL DEF Spec
<1>2. RoutedIn(sensors) <=> Routed
  BY DEF RoutedIn, RouteOK, Routed
<1>3. TypeInv /\ Routed /\ BufferInv /\ [Next]_vars => BufferInv'
  BY <1>2, BufferStep
<1>4. TypeInv /\ Routed /\ HeardInv /\ [Next]_vars => HeardInv'
  BY <1>2, HeardStep
<1>5. Init => HeardInv
  BY DEF Init, HeardInv
<1>6. TypeInv /\ BufferInv /\ HeardInv => ProductHeard
  BY ProductOfBuffers
<1> QED
  BY <1>1, <1>3, <1>4, <1>5, <1>6, RoutedHolds, InitBuffers, PTL DEF Spec

(* What a combined sensor is about to receive when it is stopped are        *)
(* products of what its parts reported in this cycle, if both parts are    *)
(* still its own and deliver in time (driver.cpp:112).  The condition is   *)
(* needed: a late part with a larger ID leaves its values to a later cycle. *)
THEOREM InTimeCombines ==
    Spec => [](pc = "stopping" /\ Feeds(sensors, at, 1) /\ Feeds(sensors, at, 2) => CombinesThisCycle)
<1>1. Spec => []TypeInv
  BY InitTypes, NextTypes, PTL DEF Spec
<1>2. RoutedIn(sensors) <=> Routed
  BY DEF RoutedIn, RouteOK, Routed
<1>3. TypeInv /\ Routed /\ BufferInv /\ [Next]_vars => BufferInv'
  BY <1>2, BufferStep
<1>4. TypeInv /\ BufferInv =>
          (pc = "stopping" /\ Feeds(sensors, at, 1) /\ Feeds(sensors, at, 2) => CombinesThisCycle)
  <2> SUFFICES ASSUME TypeInv, BufferInv, pc = "stopping", Feeds(sensors, at, 1), Feeds(sensors, at, 2),
                      NEW item \in left, sensors[at].kind = "pair"
               PROVE  /\ sensors[at].first[item[1]] \in sensors[Part(sensors, at, 1)].reported
                      /\ sensors[at].second[item[2]] \in sensors[Part(sensors, at, 2)].reported
    BY DEF CombinesThisCycle
  <2>1. at \in DOMAIN sensors /\ at \in Nat /\ item \in Items(sensors, at)
    BY SensorsAssumption DEF TypeInv, TypeOK, LeftOK, SensorsAssumption
  <2>2. Fed(sensors, at, 1) /\ Fed(sensors, at, 2)
    BY <2>1 DEF BufferInv, Stopped
  <2>3. /\ sensors[Part(sensors, at, 1)].reported = Elements(sensors[at].first)
        /\ sensors[Part(sensors, at, 2)].reported = Elements(sensors[at].second)
    BY <2>2 DEF Fed, Buffer
  <2>4. item[1] \in 1..Len(sensors[at].first) /\ item[2] \in 1..Len(sensors[at].second)
    BY <2>1 DEF Items
  <2> QED
    BY <2>3, <2>4 DEF Elements
<1> QED
  BY <1>1, <1>3, <1>4, RoutedHolds, InitBuffers, BufferInvIsBuffers, PTL DEF Spec
=============================================================================
