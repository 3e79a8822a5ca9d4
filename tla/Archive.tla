------------------------------ MODULE Archive ------------------------------
(***************************************************************************)
(* What the files of a campaign promise over all the sessions of a fuzzer, *)
(* however they end: a cluster that was saved stays, and one is added only *)
(* for a feature that no cluster saved before has.  Session implements it. *)
(***************************************************************************)
CONSTANTS
    Cluster, \* what can be saved
    Feature, \* what the sensors can tell apart
    Covers   \* the features that a run of a cluster shows

VARIABLE saved

Covered(clusters) == UNION {Covers[c] : c \in clusters}

Init == saved \in SUBSET Cluster

Save(c) == /\ ~(Covers[c] \subseteq Covered(saved))
           /\ saved' = saved \union {c}

Next == \E c \in Cluster : Save(c)

Spec == Init /\ [][Next]_saved
=============================================================================
