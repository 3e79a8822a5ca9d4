----------------------------- MODULE MCMutators -----------------------------
(***************************************************************************)
(* Instances of Mutators for TLC: short chunks of small bytes.             *)
(***************************************************************************)
EXTENDS Mutators

BytesOfOneBit == SUBSET {0}

(* Two compares that meet in one row; one of a length no table is for would *)
(* change nothing.                                                          *)
OneCompare == {[arg1 |-> {0}, arg2 |-> {1}, len |-> 4]}

(* Of a file made with a larger limit: one chunk that fits and one that does *)
(* not; the last is never picked.                                           *)
SomeLoaded == {<<>>, << <<{0}, {}>>, <<{0}, {0}, {0}, {0}, {}>>, <<{}>> >>}
=============================================================================
