------------------------- MODULE MCInstrumentation -------------------------
(***************************************************************************)
(* Instances of Instrumentation for TLC: targets that use one sensor, or   *)
(* watch the memory while comparisons make the engine allocate.            *)
(***************************************************************************)
EXTENDS Instrumentation

Targets == {{b} : b \in Exact \union {"profile"}} \union {{"global", "cmp"}}
(* A cycle in which a sensor is turned on needs an event for that. *)
Events == [t \in Targets |-> IF t \in {{"global"}, {"flow"}} THEN 4 ELSE 3]
Cycles == [t \in Targets |-> IF t \in {{"single"}, {"flow"}, {"profile"}, {"global", "cmp"}} THEN 2 ELSE 3]

StackUser == {{"unique"}}
Few == [t \in StackUser |-> 3]

MemoryUser == {{"global"}}
FewOfMemory == [t \in MemoryUser |-> 3]

(* Two places, each called from two others and at two depths. *)
SomeGuards == {[pc |-> 1, caller |-> 1, depth |-> 2], [pc |-> 1, caller |-> 2, depth |-> 1],
               [pc |-> 2, caller |-> 1, depth |-> 3]}

SomeCompares == {[pc |-> 1, a |-> 3, b |-> 0], [pc |-> 1, a |-> 2, b |-> 1], [pc |-> 2, a |-> 2, b |-> 0]}
(* A case above the value, a value above all cases; one that is ignored. *)
SomeSwitches == {[pc |-> 1, val |-> 0, cases |-> <<3>>], [pc |-> 1, val |-> 3, cases |-> <<1>>],
                 [pc |-> 1, val |-> 0, cases |-> <<1>>]}
(* The second calls a place that has the first one's last bits. *)
SomeCalls == {[pc |-> 1, callee |-> 2], [pc |-> 1, callee |-> 6]}
(* Of these one is not of interest, one common beyond what is looked at. *)
SomeMemcmps == {[pc |-> 1, length |-> 1, common |-> 0], [pc |-> 2, length |-> 2, common |-> 1],
                [pc |-> 2, length |-> 4, common |-> 4]}
=============================================================================
