--------------------------- MODULE InputsProofs ---------------------------
(***************************************************************************)
(* What the operations of container::Input return, for every input.        *)
(***************************************************************************)
EXTENDS Inputs, SequenceTheorems, TLAPS

(* At most n chunks, of at most m bytes each. *)
Bounded(input, n, m) ==
    /\ Len(input) <= n
    /\ \A i \in 1..Len(input) : Len(input[i]) <= m

(* Reading gives a chunk at every index, and no chunk exceeds the bound. *)
LEMMA InputGetLemma ==
    ASSUME NEW input \in Input, NEW i \in Nat
    PROVE  /\ InputGet(input, i) \in Chunk
           /\ Len(InputGet(input, i)) \in Nat
           /\ \A n, m \in Nat : Bounded(input, n, m) => Len(InputGet(input, i)) <= m
<1>1. CASE i < Len(input)
  <2>1. i + 1 \in 1..Len(input)
    BY <1>1, LenProperties DEF Input
  <2>2. InputGet(input, i) = input[i + 1]
    BY <1>1 DEF InputGet
  <2>3. input[i + 1] \in Chunk
    BY <2>1, ElementOfSeq DEF Input
  <2> QED
    BY <2>1, <2>2, <2>3, LenProperties DEF Bounded, Chunk
<1>2. CASE ~(i < Len(input))
  <2>1. InputGet(input, i) = <<>>
    BY <1>2 DEF InputGet, EmptyChunk
  <2> QED
    BY <2>1, EmptySeq DEF Chunk, EmptyChunk
<1> QED
  BY <1>1, <1>2

(* Writing at index i stores one chunk: at i if the index is in use, at the *)
(* end otherwise.  Every other chunk stays.                                 *)
LEMMA InputSetLemma ==
    ASSUME NEW input \in Input, NEW i \in Nat, NEW chunk \in Chunk
    PROVE  /\ InputSet(input, i, chunk) \in Input
           /\ i < Len(input) => Len(InputSet(input, i, chunk)) = Len(input)
           /\ i >= Len(input) => Len(InputSet(input, i, chunk)) = Len(input) + 1
           /\ \A j \in 1..Len(input) :
                 InputSet(input, i, chunk)[j] = IF j = i + 1 THEN chunk ELSE input[j]
           /\ i >= Len(input) => InputSet(input, i, chunk)[Len(input) + 1] = chunk
<1>0. Len(input) \in Nat
  BY LenProperties DEF Input
<1>1. CASE i < Len(input)
  <2>1. i + 1 \in 1..Len(input)
    BY <1>0, <1>1
  <2>2. InputSet(input, i, chunk) = [input EXCEPT ![i + 1] = chunk]
    BY <1>1 DEF InputSet
  <2> QED
    BY <1>0, <1>1, <2>1, <2>2, ExceptSeq DEF Input
<1>2. CASE ~(i < Len(input))
  <2>1. InputSet(input, i, chunk) = Append(input, chunk)
    BY <1>2 DEF InputSet
  <2>2. \A j \in 1..Len(input) : j # i + 1
    BY <1>0, <1>2
  <2> QED
    BY <1>0, <1>2, <2>1, <2>2, AppendProperties DEF Input
<1> QED
  BY <1>1, <1>2

(* Writing a chunk within the bounds keeps an input within them, if the     *)
(* index is.                                                                *)
LEMMA InputSetBounded ==
    ASSUME NEW input \in Input, NEW i \in Nat, NEW chunk \in Chunk, NEW n \in Nat, NEW m \in Nat,
           Bounded(input, n, m), i < n, Len(chunk) <= m
    PROVE  Bounded(InputSet(input, i, chunk), n, m)
<1> DEFINE out == InputSet(input, i, chunk)
<1>0. Len(input) \in Nat
  BY LenProperties DEF Input
<1>1. /\ i < Len(input) => Len(out) = Len(input)
      /\ i >= Len(input) => Len(out) = Len(input) + 1
      /\ \A j \in 1..Len(input) : out[j] = IF j = i + 1 THEN chunk ELSE input[j]
      /\ i >= Len(input) => out[Len(input) + 1] = chunk
  BY InputSetLemma
<1> HIDE DEF out
<1>2. Len(out) <= n
  BY <1>0, <1>1 DEF Bounded
<1>3. ASSUME NEW j \in 1..Len(out)
      PROVE  Len(out[j]) <= m
  <2>1. CASE j \in 1..Len(input)
    BY <1>1, <2>1 DEF Bounded
  <2>2. CASE j \notin 1..Len(input)
    <3>1. j = Len(input) + 1 /\ i >= Len(input)
      BY <1>0, <1>1, <2>2
    <3> QED
      BY <1>1, <3>1
  <2> QED
    BY <2>1, <2>2
<1> QED
  BY <1>2, <1>3 DEF Bounded, out

(* Expanding either leaves the input alone or writes a chunk of min bytes. *)
LEMMA ExpandLemma ==
    ASSUME NEW input \in Input, NEW i \in Nat, NEW min \in Nat,
           NEW out \in ExpandChunk(input, i, min)
    PROVE  \/ out = input /\ Len(InputGet(input, i)) >= min
           \/ \E chunk \in Chunk : /\ Len(chunk) = min
                                   /\ Len(InputGet(input, i)) < min
                                   /\ out = InputSet(input, i, chunk)
<1> DEFINE old == InputGet(input, i)
<1>0. old \in Chunk /\ Len(old) \in Nat
  BY InputGetLemma
<1>1. CASE Len(old) < min
  <2>1. PICK tail \in [1..(min - Len(old)) -> Byte] : out = InputSet(input, i, old \o tail)
    BY <1>1 DEF ExpandChunk
  <2>2. tail \in Seq(Byte) /\ Len(tail) = min - Len(old)
    <3>1. min - Len(old) \in Nat
      BY <1>0, <1>1
    <3>2. tail \in Seq(Byte)
      BY <3>1, SeqDef
    <3> QED
      BY <3>1, <3>2, LenProperties
  <2>3. old \o tail \in Chunk /\ Len(old \o tail) = min
    BY <1>0, <2>2, ConcatProperties DEF Chunk
  <2> QED
    BY <1>1, <2>1, <2>3
<1>2. CASE ~(Len(old) < min)
  BY <1>0, <1>2 DEF ExpandChunk
<1> QED
  BY <1>1, <1>2

(* Cropping either leaves the input alone or writes a chunk of max bytes. *)
LEMMA CropLemma ==
    ASSUME NEW input \in Input, NEW i \in Nat, NEW max \in Nat
    PROVE  LET out == CropChunk(input, i, max) IN
           \/ out = input /\ Len(InputGet(input, i)) <= max
           \/ \E chunk \in Chunk : /\ Len(chunk) = max
                                   /\ Len(InputGet(input, i)) > max
                                   /\ out = InputSet(input, i, chunk)
<1> DEFINE old == InputGet(input, i)
<1>0. old \in Chunk /\ Len(old) \in Nat
  BY InputGetLemma
<1>1. CASE Len(old) > max
  <2>1. \A k \in 1..max : old[k] \in Byte
    BY <1>0, <1>1, ElementOfSeq DEF Chunk
  <2>2. SubSeq(old, 1, max) \in Chunk /\ Len(SubSeq(old, 1, max)) = max
    <3>1. SubSeq(old, 1, max) \in Seq(Byte)
          /\ Len(SubSeq(old, 1, max)) = IF 1 <= max THEN max - 1 + 1 ELSE 0
      BY <2>1, SubSeqProperties
    <3> QED
      BY <3>1 DEF Chunk
  <2>3. CropChunk(input, i, max) = InputSet(input, i, SubSeq(old, 1, max))
    BY <1>1 DEF CropChunk
  <2> QED
    BY <1>1, <2>2, <2>3
<1>2. CASE ~(Len(old) > max)
  BY <1>0, <1>2 DEF CropChunk
<1> QED
  BY <1>1, <1>2

(* Mutating writes a chunk: the mutator's, or the one that was there. *)
LEMMA MutateLemma ==
    ASSUME NEW input \in Input, NEW i \in Nat, NEW max \in Nat, NEW mutated \in Chunk
    PROVE  \E chunk \in Chunk :
              /\ MutateChunk(input, i, mutated, max) = InputSet(input, i, chunk)
              /\ Len(chunk) <= max \/ chunk = InputGet(input, i)
  BY InputGetLemma, LenProperties DEF MutateChunk, Chunk

(* The chunks a model tries as a mutator's answer are chunks. *)
LEMMA ChunksUpToLemma ==
    ASSUME NEW n \in Nat, NEW chunk \in ChunksUpTo(n)
    PROVE  chunk \in Chunk /\ Len(chunk) <= n
<1>1. PICK m \in 0..n : chunk \in [1..m -> Byte]
  BY DEF ChunksUpTo
<1>2. chunk \in Seq(Byte)
  BY <1>1, SeqDef
<1> QED
  BY <1>1, <1>2, LenProperties DEF Chunk

(* Expanding, cropping and mutating turn inputs into inputs. *)
LEMMA InputClosed ==
    ASSUME NEW input \in Input, NEW i \in Nat, NEW n \in Nat
    PROVE  /\ \A out \in ExpandChunk(input, i, n) : out \in Input
           /\ CropChunk(input, i, n) \in Input
           /\ \A mutated \in Chunk : MutateChunk(input, i, mutated, n) \in Input
<1>1. \A chunk \in Chunk : InputSet(input, i, chunk) \in Input
  BY InputSetLemma
<1>2. ASSUME NEW out \in ExpandChunk(input, i, n) PROVE out \in Input
  <2>1. out = input \/ \E chunk \in Chunk : out = InputSet(input, i, chunk)
    BY ExpandLemma
  <2> QED
    BY <1>1, <2>1
<1>3. CropChunk(input, i, n) \in Input
  <2>1. \/ CropChunk(input, i, n) = input
        \/ \E chunk \in Chunk : CropChunk(input, i, n) = InputSet(input, i, chunk)
    BY CropLemma
  <2> QED
    BY <1>1, <2>1
<1>4. ASSUME NEW mutated \in Chunk PROVE MutateChunk(input, i, mutated, n) \in Input
  BY <1>1, MutateLemma
<1> QED
  BY <1>2, <1>3, <1>4

(* Expanding, cropping and mutating keep inputs within bounds. *)
LEMMA InputBounded ==
    ASSUME NEW input \in Input, NEW i \in Nat, NEW k \in Nat, NEW n \in Nat, NEW m \in Nat,
           Bounded(input, n, m), i < n, k <= m
    PROVE  /\ \A out \in ExpandChunk(input, i, k) : Bounded(out, n, m)
           /\ Bounded(CropChunk(input, i, k), n, m)
           /\ \A mutated \in Chunk : Bounded(MutateChunk(input, i, mutated, k), n, m)
<1>1. ASSUME NEW chunk \in Chunk, Len(chunk) <= m
      PROVE  Bounded(InputSet(input, i, chunk), n, m)
  BY <1>1, InputSetBounded
<1>2. ASSUME NEW out \in ExpandChunk(input, i, k) PROVE Bounded(out, n, m)
  <2>1. out = input \/ \E chunk \in Chunk : Len(chunk) = k /\ out = InputSet(input, i, chunk)
    BY ExpandLemma
  <2> QED
    BY <1>1, <2>1
<1>3. Bounded(CropChunk(input, i, k), n, m)
  <2>1. \/ CropChunk(input, i, k) = input
        \/ \E chunk \in Chunk : Len(chunk) = k /\ CropChunk(input, i, k) = InputSet(input, i, chunk)
    BY CropLemma
  <2> QED
    BY <1>1, <2>1
<1>4. ASSUME NEW mutated \in Chunk PROVE Bounded(MutateChunk(input, i, mutated, k), n, m)
  <2>1. PICK chunk \in Chunk :
            /\ MutateChunk(input, i, mutated, k) = InputSet(input, i, chunk)
            /\ Len(chunk) <= k \/ chunk = InputGet(input, i)
    BY MutateLemma
  <2>2. Len(chunk) <= m
    BY <2>1, InputGetLemma, LenProperties DEF Chunk
  <2> QED
    BY <1>1, <2>1, <2>2
<1> QED
  BY <1>2, <1>3, <1>4

(* An input that starts like another one, in its first k chunks at least. *)
Extends(out, input, k) == /\ Len(out) >= Len(input)
                          /\ \A j \in 1..k : out[j] = input[j]

(* Writing at an index that is in use, or the next one, leaves the chunks   *)
(* before it alone and can be read back.                                    *)
LEMMA InputSetInPlace ==
    ASSUME NEW input \in Input, NEW i \in 0..Len(input), NEW chunk \in Chunk
    PROVE  /\ Extends(InputSet(input, i, chunk), input, i)
           /\ InputGet(InputSet(input, i, chunk), i) = chunk
           /\ \A j \in Nat : j # i => InputGet(InputSet(input, i, chunk), j) = InputGet(input, j)
<1> DEFINE out == InputSet(input, i, chunk)
<1>0. Len(input) \in Nat /\ i \in Nat
  BY LenProperties DEF Input
<1>1. /\ i < Len(input) => Len(out) = Len(input)
      /\ i >= Len(input) => Len(out) = Len(input) + 1
      /\ \A j \in 1..Len(input) : out[j] = IF j = i + 1 THEN chunk ELSE input[j]
      /\ i >= Len(input) => out[Len(input) + 1] = chunk
  BY <1>0, InputSetLemma
<1> HIDE DEF out
<1>2. Extends(out, input, i)
  BY <1>0, <1>1 DEF Extends
<1>3. InputGet(out, i) = chunk
  <2>1. CASE i < Len(input)
    BY <1>0, <1>1, <2>1 DEF InputGet
  <2>2. CASE i = Len(input)
    BY <1>0, <1>1, <2>2 DEF InputGet
  <2> QED
    BY <1>0, <2>1, <2>2
<1>4. ASSUME NEW j \in Nat, j # i PROVE InputGet(out, j) = InputGet(input, j)
  BY <1>0, <1>1, <1>4 DEF InputGet
<1> QED
  BY <1>2, <1>3, <1>4 DEF out

(* Expanding to min and cropping to max, in this order, at an index in use  *)
(* or the next one: the chunk read back fits, and the chunks before stay.   *)
LEMMA FitInPlace ==
    ASSUME NEW input \in Input, NEW i \in 0..Len(input), NEW min \in Nat, NEW max \in Nat,
           min <= max, NEW e \in ExpandChunk(input, i, min)
    PROVE  LET out == CropChunk(e, i, max) IN
           /\ Extends(out, input, i)
           /\ Len(InputGet(out, i)) >= min /\ Len(InputGet(out, i)) <= max
<1> DEFINE out == CropChunk(e, i, max)
<1>0. Len(input) \in Nat /\ i \in Nat
  BY LenProperties DEF Input
<1>1. /\ e \in Input /\ Len(e) \in Nat /\ Len(e) >= Len(input)
      /\ \A j \in 1..i : e[j] = input[j]
      /\ Len(InputGet(e, i)) >= min
  <2>1. CASE e = input /\ Len(InputGet(input, i)) >= min
    BY <1>0, <2>1
  <2>2. CASE \E chunk \in Chunk : Len(chunk) = min /\ e = InputSet(input, i, chunk)
    <3>1. PICK chunk \in Chunk : Len(chunk) = min /\ e = InputSet(input, i, chunk)
      BY <2>2
    <3>2. Extends(e, input, i) /\ InputGet(e, i) = chunk
      BY <3>1, InputSetInPlace
    <3>3. e \in Input
      BY <1>0, <3>1, InputSetLemma
    <3> QED
      BY <3>1, <3>2, <3>3, LenProperties DEF Extends, Input
  <2> QED
    BY <1>0, <2>1, <2>2, ExpandLemma
<1>2. i \in 0..Len(e)
  BY <1>0, <1>1
<1>3. /\ Len(out) >= Len(e) /\ \A j \in 1..i : out[j] = e[j]
      /\ Len(InputGet(out, i)) >= min /\ Len(InputGet(out, i)) <= max
  <2>1. CASE out = e /\ Len(InputGet(e, i)) <= max
    BY <1>1, <2>1
  <2>2. CASE \E chunk \in Chunk : Len(chunk) = max /\ out = InputSet(e, i, chunk)
    <3>1. PICK chunk \in Chunk : Len(chunk) = max /\ out = InputSet(e, i, chunk)
      BY <2>2
    <3>2. Extends(out, e, i) /\ InputGet(out, i) = chunk
      BY <1>1, <1>2, <3>1, InputSetInPlace
    <3> QED
      BY <3>1, <3>2 DEF Extends
  <2>3. \/ out = e /\ Len(InputGet(e, i)) <= max
        \/ \E chunk \in Chunk : Len(chunk) = max /\ out = InputSet(e, i, chunk)
    BY <1>0, <1>1, CropLemma
  <2> QED
    BY <2>1, <2>2, <2>3
<1>4. Len(out) \in Nat
  BY <1>0, <1>1, InputClosed, LenProperties DEF Input
<1>5. Extends(out, input, i)
  BY <1>0, <1>1, <1>3, <1>4 DEF Extends
<1> QED
  BY <1>3, <1>5
=============================================================================
