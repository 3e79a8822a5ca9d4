----------------------------- MODULE MCSensors -----------------------------
(***************************************************************************)
(* Instances of Sensors for TLC: a few IDs, in an order chosen for what    *)
(* the run asks.                                                           *)
(***************************************************************************)
EXTENDS Sensors

NoSensors == {}

Binds(id, kind, type) == [id |-> id, kind |-> kind, type |-> type, off |-> FALSE]
Calls(id, type) == [id |-> id, type |-> type]
Combines(id, id1, id2, type) == [id |-> id, id1 |-> id1, id2 |-> id2, type |-> type]

(* A part that delivers late, at once or as it is told, whoever takes its   *)
(* ID first.                                                               *)
PartFirst == {Binds(2, "late", "noop"), Binds(2, "pc", "unique")}
Callers == {Calls(1, "highest"), Calls(2, "noop"), Calls(2, "lowest")}

(* A combination of two sensors, or of one with itself under the same ID;   *)
(* and one of that with a part of it, which is taken away from it.         *)
Nested == {Combines(3, 1, 2, "noop"), Combines(3, 1, 1, "noop"), Combines(5, 3, 1, "lowest")}

(* A late part that is stopped after the combination. *)
LateLast == {[id |-> 5, kind |-> "late", type |-> "unique"]}
OneCustom == {Calls(1, "noop")}
LateLastCombo == {Combines(3, 1, 5, "unique")}
=============================================================================
