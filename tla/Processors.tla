---------------------------- MODULE Processors ----------------------------
(***************************************************************************)
(* The sensor processors (libvfuzz-core/src/sensor/processor) as operators *)
(* on their memory: which of the values they receive they count as news,   *)
(* what they then report, and what they remember.                          *)
(* The memory is a set: the values seen (unique), the extreme value seen   *)
(* (highest, lowest), nothing (noop).                                      *)
(***************************************************************************)
EXTENDS Integers, FiniteSets

ProcessorType == {"highest", "lowest", "unique", "noop"}

(* The constructors: the highest value starts at 0, the lowest is not set. *)
(* The slip sets it to a sentinel.                                         *)
SentinelMemory(type) ==
    CASE type = "highest" -> {0} [] type = "lowest" -> {-1} [] OTHER -> {}

InitialMemory(type) == IF type = "highest" THEN {0} ELSE {}

(* Does receiveInput call onAddVal?  The slip reports a tie once more. *)
CountsTies(type, memory, v) ==
    CASE type = "highest" -> \A h \in memory : v >= h
      [] type = "lowest"  -> \A l \in memory : v < l
      [] type = "unique"  -> v \notin memory
      [] OTHER            -> TRUE

Counts(type, memory, v) ==
    CASE type = "highest" -> \A h \in memory : v > h
      [] type = "lowest"  -> \A l \in memory : v < l
      [] type = "unique"  -> v \notin memory
      [] OTHER            -> TRUE

(* What it remembers.  The slip lets the latest value replace the extreme.  *)
RememberLatest(type, memory, v) ==
    CASE type = "unique"                 -> memory \union {v}
      [] type \in {"highest", "lowest"} -> {v}
      [] OTHER                           -> memory

Remember(type, memory, v) ==
    CASE type = "unique" -> memory \union {v}
      [] type \in {"highest", "lowest"} /\ Counts(type, memory, v) -> {v}
      [] OTHER           -> memory

(* What onAddVal is given: the value, or for unique how many were seen. *)
Reported(type, memory, v) == IF type = "unique" THEN Cardinality(memory) + 1 ELSE v
-----------------------------------------------------------------------------
(* The reference: what the memory is after the values heard, in any order. *)
Matches(type, memory, heard) ==
    CASE type = "highest" -> \E m \in heard \union {0} :
                                memory = {m} /\ \A v \in heard : v <= m
      [] type = "lowest"  -> \/ heard = {} /\ memory = {}
                             \/ \E m \in heard : memory = {m} /\ \A v \in heard : m <= v
      [] type = "unique"  -> memory = heard
      [] OTHER            -> memory = {}

(* "value higher than previous, value lower than previous, # of unique     *)
(* values" (README.md:15): do the values heard now beat those before?      *)
Beats(type, now, before) ==
    CASE type = "highest" -> \E v \in now : v > 0 /\ \A u \in before : v > u
      [] type = "lowest"  -> \E v \in now : \A u \in before : v < u
      [] OTHER            -> now # before
=============================================================================
