---------------------------- MODULE MCExecutor ----------------------------
(***************************************************************************)
(* Instances of Executor for TLC: small targets and small disks.           *)
(***************************************************************************)
EXTENDS Executor

CONSTANTS g1, g2, b1, b2, f1, f2

NoFiles == <<>>

(* One loaded cluster: a chunk of the maximum length, then an empty one. *)
OneFile == <<[g \in Gid |-> <<[i \in 1..MaxChunkLen |-> b1], <<>> >>]>>

AnyRequests == {[min |-> 0, max |-> 0], [min |-> 1, max |-> 2]}
Positive == {[min |-> 1, max |-> 1], [min |-> 2, max |-> 0]}
=============================================================================
