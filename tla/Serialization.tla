--------------------------- MODULE Serialization ---------------------------
(***************************************************************************)
(* The file format: Input::Serialize and Deserialize and those of          *)
(* InputCluster (libvfuzz-core/src/container).                             *)
(*                                                                         *)
(* A file is a sequence of bytes.  A word is a uint64_t as memcpy lays it  *)
(* out; the number of its bytes and the values of a byte are constants, so *)
(* that small files can be cut at every byte.  A cluster is a function     *)
(* from the generators it has an input for, a std::map, so that it is      *)
(* written in the order of the generator IDs.                              *)
(*                                                                         *)
(* Parsing is written with a cursor that carries what is left of the file: *)
(* ok is whether no exception was thrown so far, value what was parsed.    *)
(***************************************************************************)
EXTENDS Integers, Sequences, SequencesExt, FiniteSets

CONSTANTS
    Radix,    \* values of a byte, 256 in the code
    WordBytes \* bytes of a word, 8 in the code

ASSUME FormatAssumption == Radix \in Nat \ {0, 1} /\ WordBytes \in Nat \ {0}

FileByte == 0..(Radix - 1)

(* What the bytes of a word are worth, the low one first. *)
PlaceValue[i \in 0..WordBytes] == IF i = 0 THEN 1 ELSE Radix * PlaceValue[i - 1]

(* The bytes of a word.  The slip does not cut them. *)
WordUncut(n) == [i \in 1..WordBytes |-> n \div PlaceValue[i - 1]]
WordOf(n) == [i \in 1..WordBytes |-> (n \div PlaceValue[i - 1]) % Radix]

NumberOf(word) ==
    LET low[i \in 0..WordBytes] == IF i = 0 THEN 0 ELSE low[i - 1] + word[i] * PlaceValue[i - 1] IN
    low[WordBytes]

(* Input::Serialize *)
SerializeInput(input) ==
    LET upto[i \in 0..Len(input)] ==
            IF i = 0 THEN WordOf(Len(input))
            ELSE upto[i - 1] \o WordOf(Len(input[i])) \o input[i] IN
    upto[Len(input)]

(* The generators of a cluster, in their order. *)
Ascending(gids) ==
    CHOOSE s \in [1..Cardinality(gids) -> gids] : \A i, j \in 1..Cardinality(gids) : i < j => s[i] < s[j]

(* InputCluster::Serialize *)
Serialize(cluster) ==
    LET gids == Ascending(DOMAIN cluster)
        upto[i \in 0..Cardinality(DOMAIN cluster)] ==
            IF i = 0 THEN WordOf(Cardinality(DOMAIN cluster))
            ELSE LET input == SerializeInput(cluster[gids[i]]) IN
                 upto[i - 1] \o WordOf(gids[i]) \o WordOf(Len(input)) \o input IN
    upto[Cardinality(DOMAIN cluster)]

(* What the words of a file can say: how many generators, chunks and bytes  *)
(* there are is a std::size_t in the program, and a uint64_t in the file.   *)
WordLimit == PlaceValue[WordBytes]
InputFits(input) ==
    /\ input \in Seq(Seq(FileByte))
    /\ Len(input) < WordLimit
    /\ \A i \in 1..Len(input) : Len(input[i]) < WordLimit
ClusterFits(cluster) ==
    /\ cluster = [gid \in DOMAIN cluster |-> cluster[gid]]
    /\ IsFiniteSet(DOMAIN cluster) /\ Cardinality(DOMAIN cluster) < WordLimit
    /\ \A gid \in DOMAIN cluster : /\ gid \in Nat /\ gid < WordLimit
                                   /\ InputFits(cluster[gid])
                                   /\ Len(SerializeInput(cluster[gid])) < WordLimit
-----------------------------------------------------------------------------
Cursor(ok, left, value) == [ok |-> ok, left |-> left, value |-> value]
Thrown == Cursor(FALSE, <<>>, <<>>)

(* The next n bytes, with the check that they are there. *)
Take(left, n) ==
    IF Len(left) < n THEN Thrown
    ELSE Cursor(TRUE, SubSeq(left, n + 1, Len(left)), SubSeq(left, 1, n))

TakeWord(left) ==
    LET word == Take(left, WordBytes) IN
    IF word.ok THEN Cursor(TRUE, word.left, NumberOf(word.value)) ELSE Thrown

(* A word for the size, then as many bytes.  The slip takes what there is.  *)
TakeWhatIsLeft(left) ==
    LET size == TakeWord(left) IN
    IF ~size.ok THEN Thrown
    ELSE IF Len(size.left) < size.value THEN Cursor(TRUE, <<>>, size.left) ELSE Take(size.left, size.value)
TakeSized(left) ==
    LET size == TakeWord(left) IN IF size.ok THEN Take(size.left, size.value) ELSE Thrown

(* Input::Deserialize: what follows the last chunk is ignored. *)
AddChunk(so_far) ==
    LET chunk == TakeSized(so_far.left) IN
    IF so_far.ok /\ chunk.ok THEN Cursor(TRUE, chunk.left, Append(so_far.value, chunk.value)) ELSE Thrown

DeserializeInput(file) ==
    LET total == TakeWord(file)
        after[i \in 0..total.value] ==
            IF i = 0 THEN Cursor(TRUE, total.left, <<>>) ELSE AddChunk(after[i - 1]) IN
    IF total.ok THEN after[total.value] ELSE Thrown

(* InputCluster::Deserialize: a generator that comes twice is an error. *)
AddInput(so_far) ==
    LET gid == TakeWord(so_far.left)
        bytes == TakeSized(gid.left)
        input == DeserializeInput(bytes.value)
        parsed == so_far.ok /\ gid.ok /\ gid.value \notin DOMAIN so_far.value /\ bytes.ok /\ input.ok IN
    IF parsed THEN Cursor(TRUE, bytes.left, [g \in DOMAIN so_far.value \union {gid.value} |->
                                 IF g = gid.value THEN input.value ELSE so_far.value[g]])
    ELSE Thrown

Deserialize(file) ==
    LET total == TakeWord(file)
        after[i \in 0..total.value] ==
            IF i = 0 THEN Cursor(TRUE, total.left, << >>) ELSE AddInput(after[i - 1]) IN
    IF total.ok THEN after[total.value] ELSE Thrown
=============================================================================
