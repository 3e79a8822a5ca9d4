----------------------------- MODULE MCSession -----------------------------
(***************************************************************************)
(* Instances of Session for TLC: a handful of clusters in short files.     *)
(***************************************************************************)
EXTENDS Session

CONSTANTS f1, f2, f3

One == [g \in {1} |-> << <<1>> >>]
Two == [g \in {1} |-> << <<1>>, <<>> >>]
Both == [g \in {0, 2} |-> IF g = 0 THEN << <<>> >> ELSE <<>>]
Bad == [g \in {1} |-> << <<3>> >>]

Clusters == {EmptyCluster, One, Two, Both, Bad}
Shows == [c \in Clusters |-> CASE c = EmptyCluster -> {} [] c = One -> {f1}
                               [] c = Two -> {f1, f2} [] c = Both -> {f2, f3} [] c = Bad -> {}]
Crashes == {Bad}

(* A file, then two directories: the first of them is worked in. *)
Paths == <<"seed", "work", "more">>
Directories == {"work", "more"}

(* A file of One with a byte too many, and one of Both that lacks a byte. *)
SomeFiles == LET file(dir) == [dir |-> dir, prefix |-> "user", of |-> EmptyCluster] IN
    [f \in {file("seed"), file("more")} |->
        IF f = file("seed") THEN <<1, 0,  1, 0,  1, 1,  1, 0,  1, 0, 1,  1>>
        ELSE <<2, 0,  0, 0,  0, 1,  1, 0,  0, 0,  2, 0,  2, 0,  0>>]
=============================================================================
