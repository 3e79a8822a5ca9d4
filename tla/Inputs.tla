------------------------------ MODULE Inputs ------------------------------
(***************************************************************************)
(* container::Input (libvfuzz-core/src/container/input.cpp) as operators.  *)
(* An input is the vector of chunks one generator has produced; a chunk is *)
(* a vector of bytes.  Chunk indices are the code's: they start at 0, so   *)
(* chunk i of the code is element i+1 of the sequence.                     *)
(* The set of mutators and the insertions an Input also records steer      *)
(* later statistics only and are left out.                                 *)
(***************************************************************************)
EXTENDS Integers, Sequences

CONSTANT Byte

Chunk == Seq(Byte)

Input == Seq(Chunk)

EmptyChunk == <<>>

ChunksUpTo(n) == UNION {[1..m -> Byte] : m \in 0..n}

(* Input::Get: an index past the end reads as an empty chunk. *)
InputGet(input, i) == IF i < Len(input) THEN input[i + 1] ELSE EmptyChunk

(* Two slips: an index past the end is dropped; every chunk is appended. *)
InputSetInRange(input, i, chunk) ==
    IF i < Len(input) THEN [input EXCEPT ![i + 1] = chunk] ELSE input

InputSetAppends(input, i, chunk) == Append(input, chunk)

(* Input::Set: an index past the end appends, wherever that puts the chunk. *)
InputSet(input, i, chunk) ==
    IF i < Len(input) THEN [input EXCEPT ![i + 1] = chunk]
                      ELSE Append(input, chunk)

(* Input::ExpandChunk: random bytes are appended until min is reached.  The *)
(* set of the inputs that can come out.                                     *)
ExpandChunk(input, i, min) ==
    LET chunk == InputGet(input, i) IN
    IF Len(chunk) < min
    THEN {InputSet(input, i, chunk \o tail) : tail \in [1..(min - Len(chunk)) -> Byte]}
    ELSE {input}

(* Input::CropChunk *)
CropChunk(input, i, max) ==
    LET chunk == InputGet(input, i) IN
    IF Len(chunk) > max THEN InputSet(input, i, SubSeq(chunk, 1, max)) ELSE input

(* Input::MutateChunk, where the mutator answered with the chunk mutated: a *)
(* result over the limit is thrown away, and the original is stored again.  *)
(* The slip stores what it is given.                                        *)
MutateChunkUnchecked(input, i, mutated, max) == InputSet(input, i, mutated)

MutateChunk(input, i, mutated, max) ==
    InputSet(input, i, IF Len(mutated) > max THEN InputGet(input, i) ELSE mutated)
=============================================================================
