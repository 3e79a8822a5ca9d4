----------------------------- MODULE Mutators -----------------------------
(***************************************************************************)
(* The mutators of libvfuzz-core/src/mutator and what feeds them: the      *)
(* corpus, the tables of recent compares, Input::MutateChunk and           *)
(* Input::MutateRandom.                                                    *)
(*                                                                         *)
(* Executor lets a mutator answer with any chunk; here are the answers the *)
(* code can give.  A byte is the set of its bits, so the bitwise operators *)
(* are those of sets, and a mutator is the set of its answers: the chunk   *)
(* it returns and the bytes it says it inserted (the out parameter).       *)
(* Positions are the code's and start at 0.                                *)
(*                                                                         *)
(* The state is what one generator owns: its input in the running cluster  *)
(* and its inputs in the clusters of the corpus.  The dictionary is left   *)
(* out: nothing adds to it (processInsertions has no caller), so its       *)
(* mutator finds no token.  So are the statistics of an Input, for the     *)
(* same reason, and the history, which reaches the logs only.              *)
(***************************************************************************)
EXTENDS Inputs

CONSTANTS
    Width,       \* bits of a byte
    MaxChunkLen, \* --max-chunk-len, the limit of the corpus
    Limits,      \* the limits of single requests
    MaxChunks,   \* --max-chunks: the last index of a request, and for MutateRandom
    MaxCorpus,   \* bound of the model: entries of the corpus
    MaxKept,     \* bound of the model: bytes of an entry
    Loaded,      \* the generator's Inputs in the clusters of --input-corpora
    Slots,       \* bits that select a row of the compare table: 5 in the code
    Compares,    \* the pairs of words the target compares, with their length
    SizeMod      \* 2^64, the modulus of size_t

(* A word is longer than a byte; two bytes stand for the four or eight. *)
Word == SUBSET (0..(2 * Width - 1))
WordLength == {4, 8}
Row == SUBSET Slots

ASSUME MutatorsAssumption ==
    /\ Width \in Nat \ {0}
    /\ MaxChunkLen \in Nat
    /\ Limits \subseteq 0..MaxChunkLen
    /\ MaxChunks \in Nat \ {0}
    /\ {MaxCorpus, MaxKept} \subseteq Nat
    /\ Slots \subseteq 0..(2 * Width - 1)
    /\ Compares \subseteq [arg1 : Word, arg2 : Word, len : WordLength]
    /\ SizeMod \in Nat
    /\ 2 * MaxChunkLen < SizeMod

Bit == 0..(Width - 1)
Zero == {}

ASSUME ByteAssumption == Byte = SUBSET Bit

LOCAL INSTANCE SequencesExt

(* The corpus of those files has an empty cluster at least. *)
ASSUME LoadedAssumption == Loaded \subseteq Seq(Seq(Byte)) /\ <<>> \in Loaded

VARIABLES
    input,   \* the Input of the generator in the running cluster
    corpus,  \* its Inputs in the clusters of the corpus
    torc,    \* AutoDict::TORC4 and TORC8, by the length of their words
    (* history, no part of the program *)
    compared \* the bytes an answer of the compare tables may hold

vars == <<input, corpus, torc, compared>>

Init == /\ input = <<>>
        /\ corpus = << <<>> >>
        /\ torc = [len \in WordLength |-> [row \in Row |-> <<Zero, Zero>>]]
        /\ compared = {Zero}
-----------------------------------------------------------------------------
(***************************************************************************)
(* Helpers of mutator::Base.                                               *)
(***************************************************************************)
Answer(chunk, insert) == [chunk |-> chunk, insert |-> insert]
Unchanged(chunk) == Answer(chunk, <<>>)

Smaller(a, b) == IF a <= b THEN a ELSE b

(* util::Random::Get(n) *)
Get(n) == IF n = 0 THEN {0} ELSE 0..(n - 1)

(* Base::RandomRange: where it starts and how long it is. *)
RandomRange(size) ==
    UNION {{[first |-> first, second |-> second] : second \in 0..(size - first)} : first \in 0..size}

Piece(chunk, range) == SubSeq(chunk, range.first + 1, range.first + range.second)

(* vector::insert *)
Spliced(chunk, pos, bytes) == SubSeq(chunk, 1, pos) \o bytes \o SubSeq(chunk, pos + 1, Len(chunk))

(* memcpy to a position of a chunk; the slip is off by one. *)
OverwrittenLate(chunk, pos, bytes) ==
    [i \in 1..Len(chunk) |-> IF i \in (pos + 2)..(pos + 1 + Len(bytes)) THEN bytes[i - pos - 1] ELSE chunk[i]]

Overwritten(chunk, pos, bytes) ==
    [i \in 1..Len(chunk) |-> IF i \in (pos + 1)..(pos + Len(bytes)) THEN bytes[i - pos] ELSE chunk[i]]

(* Base::Split: room for length bytes at pos.  The tail moves up; the gap   *)
(* keeps the bytes that were there, past the old end those of resize().     *)
(* The slip does not move the tail.                                         *)
SplitForgetsTail(chunk, pos, length) ==
    [i \in 1..(Len(chunk) + length) |-> IF i <= Len(chunk) THEN chunk[i] ELSE Zero]

Split(chunk, pos, length) ==
    [i \in 1..(Len(chunk) + length) |->
        IF i > pos + length THEN chunk[i - length]
        ELSE IF i <= Len(chunk) THEN chunk[i] ELSE Zero]

(* Base::CopyPartOf.  CopyPart calls it with dest for src too, so that what *)
(* is said to be inserted is read after dest has changed.                   *)
CopyPartOf(dest, src, same) ==
    UNION {{LET copied == Overwritten(dest, pos, Piece(src, range)) IN
            Answer(copied, Piece(IF same THEN copied ELSE src, range))
            : range \in RandomRange(Smaller(Len(src), Len(dest) - pos))}
           : pos \in 0..Len(dest)}

(* How many bytes InsertPartOf may insert.  The slip asks the source alone. *)
InsertAll(dest, src, max) == Len(src)
InsertSize(dest, src, max) == Smaller(Len(src), max - Len(dest))

(* Base::InsertPartOf, which CopyPart too calls with one chunk for both.    *)
InsertPartOf(dest, src, same, max) ==
    IF Len(dest) >= max THEN {Unchanged(dest)} ELSE
    UNION {{LET split == Split(dest, pos, range.second)
                inserted == Overwritten(split, pos, Piece(IF same THEN split ELSE src, range)) IN
            Answer(inserted, Piece(IF same THEN inserted ELSE src, range))
            : range \in RandomRange(InsertSize(dest, src, max))}
           : pos \in 0..Len(dest)}
-----------------------------------------------------------------------------
(***************************************************************************)
(* The mutators.                                                           *)
(***************************************************************************)
RandomBytes(chunk, max) ==
    LET sizes == {IF n = 0 THEN 1 ELSE n : n \in Get(max + 1)} IN
    UNION {IF n > max THEN {Unchanged(chunk)} ELSE {Answer(c, c) : c \in [1..n -> Byte]} : n \in sizes}

InsertByte(chunk, max) ==
    IF Len(chunk) = max THEN {Unchanged(chunk)}
    ELSE UNION {{Answer(Spliced(chunk, pos, <<b>>), <<b>>) : pos \in Get(Len(chunk))} : b \in Byte}

(* What is erased is everything but the range. *)
EraseBytes(chunk) == {Unchanged(Piece(chunk, range)) : range \in RandomRange(Len(chunk))}

InsertRepeatedBytes(chunk, max) ==
    IF Len(chunk) >= max THEN {Unchanged(chunk)} ELSE
    UNION {{LET bytes == [i \in 1..n |-> b] IN Answer(Overwritten(Split(chunk, pos, n), pos, bytes), bytes)
            : pos \in 0..Len(chunk), b \in Byte} : n \in Get(max - Len(chunk) + 1)}

(* std::shuffle of a range *)
Orders(n) == {p \in [1..n -> 1..n] : \A i, j \in 1..n : p[i] = p[j] => i = j}

ShuffleBytes(chunk) ==
    UNION {LET piece == Piece(chunk, range) IN
           {Unchanged(Overwritten(chunk, range.first, [i \in 1..range.second |-> piece[p[i]]]))
            : p \in Orders(range.second)} : range \in RandomRange(Len(chunk))}

CopyPart(chunk, max) ==
    IF chunk = <<>> THEN {Unchanged(chunk)}
    ELSE CopyPartOf(chunk, chunk, TRUE) \union InsertPartOf(chunk, chunk, TRUE, max)

CrossOver(chunk, other, max) ==
    IF chunk = <<>> \/ other = <<>> THEN {Unchanged(chunk)}
    ELSE CopyPartOf(chunk, other, FALSE) \union InsertPartOf(chunk, other, FALSE, max)

(* InsertDictionary with replace set comes to the same. *)
Copy(other) == {Answer(other, other)}

(* The room for a token is computed in size_t; the bytes of a token are     *)
(* inserted one by one at the same position, so they come out backwards.    *)
InsertDictionary(chunk, token, max) ==
    LET room == (max - Len(chunk)) % SizeMod
        backwards == [i \in 1..Len(token) |-> token[Len(token) + 1 - i]] IN
    IF room = 0 \/ Len(token) > room \/ token = <<>> THEN {Unchanged(chunk)}
    ELSE {Answer(Spliced(chunk, pos, backwards), token) : pos \in Get(Len(chunk))}

(* Ranged::GetRange: one byte, or the bytes between two positions, without  *)
(* the last of them.                                                        *)
GetRange(size, ranged) ==
    {[first |-> from, second |-> 1] : from \in Get(size)} \union
    IF ranged
    THEN UNION {{[first |-> p[1], second |-> n] : n \in Get(p[2] - p[1])}
                : p \in {q \in Get(size) \X Get(size) : q[1] < q[2]}}
    ELSE {}

ShiftBy == {IF n = 0 THEN 1 ELSE n : n \in Bit}

(* The operators of range_based.cpp: what each can do to a byte, one        *)
(* function for every modifier that can be drawn.                           *)
Processors ==
    [And |-> {[b \in Byte |-> b \cap m] : m \in Byte},
     Or |-> {[b \in Byte |-> b \union m] : m \in Byte},
     Xor |-> {[b \in Byte |-> (b \ m) \union (m \ b)] : m \in Byte},
     Not |-> {[b \in Byte |-> Bit \ b]},
     ShiftLeft |-> {[b \in Byte |-> {i \in Bit : i - n \in b}] : n \in ShiftBy},
     ShiftRight |-> {[b \in Byte |-> {i \in Bit : i + n \in b}] : n \in ShiftBy},
     ChangeBit |-> {[b \in Byte |-> (b \ {i}) \union ({i} \ b)] : i \in Bit},
     ChangeByte |-> {[b \in Byte |-> m] : m \in Byte},
     ReverseByte |-> {[b \in Byte |-> {Width - 1 - i : i \in b}]}]

(* DefaultRanged::MutateImpl *)
Ranged(op, ranged, chunk) ==
    IF chunk = <<>> THEN {Unchanged(chunk)} ELSE
    {Unchanged([i \in 1..Len(chunk) |->
                   IF i \in (range.first + 1)..(range.first + range.second) THEN f[chunk[i]] ELSE chunk[i]])
     : f \in Processors[op], range \in GetRange(Len(chunk), ranged)}
-----------------------------------------------------------------------------
(***************************************************************************)
(* What feeds the mutators.                                                *)
(***************************************************************************)
(* Input::GetRandom: the last of several chunks is never picked. *)
GetRandom(in) == IF in = <<>> THEN {<<>>} ELSE {InputGet(in, k) : k \in Get(Len(in) - 1)}

(* The conduit of initializeMutators: a chunk of some corpus entry. *)
CorpusChunks == UNION {GetRandom(corpus[c]) : c \in 1..Len(corpus)}

(* The one that reads what --input-corpora named. *)
LoadedChunks == UNION {GetRandom(in) : in \in Loaded}

(* AutoDict::GetRandom makes a chunk of one byte of the word it finds.  The *)
(* slip takes the word for a byte.                                          *)
WholeWord(word) == word
LowByte(word) == word \cap Bit
TokenBytes == {LowByte(torc[len][row][side]) : len \in WordLength, row \in Row, side \in {1, 2}}
Tokens == {<<b>> : b \in TokenBytes}

(* What mutators that draw no byte answer, and what those that do answer. *)
Rearranging(chunk, max) == EraseBytes(chunk) \union ShuffleBytes(chunk) \union CopyPart(chunk, max)
Growing(chunk, max) == InsertByte(chunk, max) \union InsertRepeatedBytes(chunk, max)
Crossing(chunk, max) == UNION {CrossOver(chunk, other, max) : other \in CorpusChunks}
Copying == UNION {Copy(other) : other \in CorpusChunks \union LoadedChunks}
Completing(chunk, max) == UNION {InsertDictionary(chunk, token, max) : token \in Tokens}
Changing(chunk) ==
    UNION {Ranged(op, ranged, chunk) : op \in DOMAIN Processors, ranged \in BOOLEAN}
-----------------------------------------------------------------------------
(***************************************************************************)
(* Steps.                                                                  *)
(***************************************************************************)
(* Input::MutateChunk with one of the answers. *)
Store(in, k, max, answers) == \E answer \in answers : input' = MutateChunk(in, k, answer.chunk, max)

(* One of the mutators of the container is applied to chunk k. *)
MutateWith(in, k, max) ==
    LET chunk == InputGet(in, k) IN
    /\ \/ Store(in, k, max, RandomBytes(chunk, max))
       \/ Store(in, k, max, Growing(chunk, max))
       \/ Store(in, k, max, Rearranging(chunk, max))
       \/ Store(in, k, max, Crossing(chunk, max))
       \/ Store(in, k, max, Copying)
       \/ Store(in, k, max, Completing(chunk, max))
       \/ Store(in, k, max, Changing(chunk))
    /\ UNCHANGED <<corpus, torc, compared>>

(* The executor's loop.  Its index k is compared with --max-chunks after    *)
(* the chunk was stored (executor.cpp:124), and may be past the end of the  *)
(* input, when earlier requests of the run stored nothing: Set appends.     *)
Mutate(k, max) == MutateWith(input, k, max)

(* Input::MutateRandom, where an input that has chunks may get one more as  *)
(* long as there are fewer than maxChunks.                                  *)
MutateRandom(maxChunks) ==
    \E in \in (IF input = <<>> \/ Len(input) < maxChunks THEN {Append(input, <<>>)} ELSE {}) \union
              (IF input = <<>> THEN {} ELSE {input}) :
        \E k \in Get(Len(in)) : MutateWith(in, k, MaxChunkLen)

(* The executor keeps the cluster, and pulls one to start a run from. *)
Bytes(in) == FoldSeq(LAMBDA chunk, n : n + Len(chunk), 0, in)

Keep == /\ Len(corpus) < MaxCorpus
        /\ Bytes(input) <= MaxKept
        /\ corpus' = Append(corpus, input)
        /\ UNCHANGED <<input, torc, compared>>

Pull(c) == /\ input' = corpus[c]
           /\ UNCHANGED <<corpus, torc, compared>>

(* AutoDict::InsertTorc *)
InsertTorc(A, B, len) ==
    /\ torc' = [torc EXCEPT ![len][((A \ B) \union (B \ A)) \cap Slots] = <<A, B>>]
    /\ compared' = compared \union {LowByte(A), LowByte(B)}
    /\ UNCHANGED <<input, corpus>>

Next == \/ \E k \in 0..MaxChunks, max \in Limits : Mutate(k, max)
        \/ MutateRandom(MaxChunks)
        \/ Keep
        \/ \E c \in 1..Len(corpus) : Pull(c)
        \/ \E cmp \in Compares : InsertTorc(cmp.arg1, cmp.arg2, cmp.len)

Spec == Init /\ [][Next]_vars
-----------------------------------------------------------------------------
(***************************************************************************)
(* Properties                                                              *)
(***************************************************************************)
BytesOf(chunk) == {chunk[i] : i \in 1..Len(chunk)}

TypeOK == /\ input \in Input
          /\ corpus \in Seq(Input)
          /\ torc \in [WordLength -> [Row -> Word \X Word]]
          /\ compared \subseteq Byte

(* The chunks of the input; those of the corpus were in an input before. *)
Chunks == {input[k] : k \in 1..Len(input)}

(* However chunks are mutated, kept, pulled, crossed with each other and    *)
(* asked for with smaller and larger limits, none outgrows the limit of the *)
(* corpus (input.cpp:118), though some mutators do not look at the limit    *)
(* and InsertDictionary's room wraps around for a chunk that is over it     *)
(* (insertdictionary.cpp:30).                                               *)
LimitsKept == \A chunk \in Chunks : Len(chunk) <= MaxChunkLen

(* A mutator that is given a chunk within the limit answers with one, as    *)
(* the test asserts (tests/fuzzers/mutator.cpp:197).  Copy does not: its    *)
(* chunk was asked for with another limit; MutateChunk throws it away.      *)
AnswersFit ==
    \A chunk \in Chunks : \A max \in Limits : Len(chunk) <= max =>
        \A answer \in UNION {RandomBytes(chunk, max), Growing(chunk, max), Rearranging(chunk, max),
                             Crossing(chunk, max), Completing(chunk, max), Changing(chunk)} :
            Len(answer.chunk) <= max

(* A mutator that draws no byte answers with none that was not in what it   *)
(* was given: no byte of resize(), none of memory that memmove has not yet  *)
(* or already moved (base.cpp:31).  A token is a byte that was compared.    *)
NothingInvented ==
    \A chunk \in Chunks : \A max \in Limits :
        /\ \A answer \in Rearranging(chunk, max) : BytesOf(answer.chunk) \subseteq BytesOf(chunk)
        /\ \A answer \in Crossing(chunk, max) :
              BytesOf(answer.chunk) \subseteq BytesOf(chunk) \union UNION {BytesOf(c) : c \in CorpusChunks}
        /\ \A answer \in Completing(chunk, max) :
              BytesOf(answer.chunk) \subseteq BytesOf(chunk) \union compared

(* What a mutator says it inserted is in its answer, between the head and   *)
(* the tail of the chunk, or over a part of it.                             *)
HeadInsertTail(chunk, answer) ==
    answer.insert # <<>> =>
        \E pos \in 0..Len(chunk), over \in {0, Len(answer.insert)} :
            answer.chunk = SubSeq(chunk, 1, pos) \o answer.insert \o SubSeq(chunk, pos + over + 1, Len(chunk))

(* It is for the mutators that take the bytes from elsewhere ("head-insert- *)
(* tail", tests/fuzzers/mutator.cpp:25).                                    *)
InsertedIsThere ==
    \A chunk \in Chunks : \A max \in Limits :
        \A answer \in UNION {Growing(chunk, max), Crossing(chunk, max), Completing(chunk, max)} :
            HeadInsertTail(chunk, answer)

(* "Set inserted bytes" (base.cpp:22, 56), for CopyPart, whose source is    *)
(* the chunk it changes.                                                    *)
CopiedIsThere ==
    \A chunk \in Chunks : \A answer \in CopyPart(chunk, MaxChunkLen) : HeadInsertTail(chunk, answer)
=============================================================================
