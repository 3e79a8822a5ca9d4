--------------------------- MODULE MutatorsProofs ---------------------------
(***************************************************************************)
(* What mutators do to chunks of any length, from whatever the corpus and  *)
(* the tables of compares hold.                                            *)
(***************************************************************************)
EXTENDS Mutators, InputsProofs

(* The chunks of an input are within the limit, those that were kept too;   *)
(* the number of chunks is bounded because the index of a request is; and a *)
(* token is a byte that was compared.                                       *)
WithinLimits(in) == Bounded(in, MaxChunks + 1, MaxChunkLen)
CorpusWithin == \A c \in 1..Len(corpus) : WithinLimits(corpus[c])
TokensCompared == TokenBytes \subseteq compared
MutatorsInv == TypeOK /\ WithinLimits(input) /\ CorpusWithin /\ TokensCompared
-----------------------------------------------------------------------------
(***************************************************************************)
(* The helpers of mutator::Base.                                           *)
(***************************************************************************)
LEMMA Constants ==
    /\ Width \in Nat \ {0} /\ MaxChunkLen \in Nat /\ MaxChunks \in Nat \ {0}
    /\ Zero \in Byte /\ Byte = SUBSET Bit
    /\ \A max \in Limits : max \in 0..MaxChunkLen
  BY MutatorsAssumption, ByteAssumption DEF Zero

(* A range lies within what it is drawn for. *)
LEMMA RangeLemma ==
    ASSUME NEW size \in Nat, NEW range \in RandomRange(size)
    PROVE  /\ range.first \in Nat /\ range.second \in Nat
           /\ range.first + range.second <= size
<1>1. PICK first \in 0..size : \E second \in 0..(size - first) : range = [first |-> first, second |-> second]
  BY DEF RandomRange
<1> QED
  BY <1>1

LEMMA PieceLemma ==
    ASSUME NEW chunk \in Chunk, NEW range, range.first \in Nat, range.second \in Nat,
           range.first + range.second <= Len(chunk)
    PROVE  /\ Piece(chunk, range) \in Chunk
           /\ Len(Piece(chunk, range)) = range.second
           /\ \A i \in 1..range.second : /\ Piece(chunk, range)[i] = chunk[range.first + i]
                                         /\ range.first + i \in 1..Len(chunk)
<1> DEFINE a == range.first  n == range.second
<1>1. Len(chunk) \in Nat /\ chunk \in Seq(Byte)
  BY DEF Chunk
<1>2. Piece(chunk, range) = SubSeq(chunk, a + 1, a + n)
  BY DEF Piece
<1> HIDE DEF a, n
<1>3. a \in Nat /\ n \in Nat /\ a + n <= Len(chunk)
  BY DEF a, n
<1>4. /\ SubSeq(chunk, a + 1, a + n) \in Seq(Byte)
      /\ Len(SubSeq(chunk, a + 1, a + n)) = n
      /\ \A i \in 1..n : SubSeq(chunk, a + 1, a + n)[i] = chunk[a + i] /\ a + i \in 1..Len(chunk)
  BY <1>1, <1>3
<1> QED
  BY <1>2, <1>4 DEF Chunk, a, n

LEMMA ByIndex ==
    ASSUME NEW n \in Nat, NEW f, f = [i \in 1..n |-> f[i]], \A i \in 1..n : f[i] \in Byte
    PROVE  f \in Chunk /\ Len(f) = n
  BY DEF Chunk

LEMMA InByteOf ==
    ASSUME NEW chunk \in Chunk, NEW i \in 1..Len(chunk)
    PROVE  chunk[i] \in Byte /\ chunk[i] \in BytesOf(chunk)
  BY DEF Chunk, BytesOf

LEMMA BytesAmong ==
    ASSUME NEW chunk, NEW S, \A i \in 1..Len(chunk) : chunk[i] \in S
    PROVE  BytesOf(chunk) \subseteq S
  BY DEF BytesOf

(* Copied bytes replace as many, where they are copied to.                  *)
LEMMA OverwrittenLemma ==
    ASSUME NEW chunk \in Chunk, NEW pos \in Nat, NEW bytes \in Chunk
    PROVE  LET out == Overwritten(chunk, pos, bytes) IN
           /\ out \in Chunk /\ Len(out) = Len(chunk)
           /\ \A i \in 1..Len(chunk) :
                 out[i] = IF i \in (pos + 1)..(pos + Len(bytes)) THEN bytes[i - pos] ELSE chunk[i]
           /\ BytesOf(out) \subseteq BytesOf(chunk) \union BytesOf(bytes)
<1> DEFINE out == Overwritten(chunk, pos, bytes)
<1>1. Len(chunk) \in Nat /\ Len(bytes) \in Nat
  BY DEF Chunk
<1>2. \A i \in 1..Len(chunk) :
          out[i] = IF i \in (pos + 1)..(pos + Len(bytes)) THEN bytes[i - pos] ELSE chunk[i]
  BY DEF Overwritten
<1>3. out = [i \in 1..Len(chunk) |-> out[i]]
  BY DEF Overwritten
<1> HIDE DEF out
<1>4. ASSUME NEW i \in 1..Len(chunk)
      PROVE  out[i] \in Byte /\ out[i] \in BytesOf(chunk) \union BytesOf(bytes)
  <2>1. CASE i \in (pos + 1)..(pos + Len(bytes))
    <3>1. i - pos \in 1..Len(bytes)
      BY <1>1, <2>1
    <3> QED
      BY <1>2, <2>1, <3>1, InByteOf
  <2>2. CASE i \notin (pos + 1)..(pos + Len(bytes))
    BY <1>2, <2>2, InByteOf
  <2> QED
    BY <2>1, <2>2
<1>5. out \in Chunk /\ Len(out) = Len(chunk)
  BY <1>1, <1>3, <1>4, ByIndex
<1>6. BytesOf(out) \subseteq BytesOf(chunk) \union BytesOf(bytes)
  BY <1>4, <1>5 DEF BytesOf
<1> QED
  BY <1>2, <1>5, <1>6 DEF out

(* Splitting leaves head and tail, whatever the gap holds. *)
LEMMA SplitLemma ==
    ASSUME NEW chunk \in Chunk, NEW pos \in 0..Len(chunk), NEW n \in Nat
    PROVE  LET out == Split(chunk, pos, n) IN
           /\ out \in Chunk /\ Len(out) = Len(chunk) + n
           /\ \A i \in 1..pos : out[i] = chunk[i]
           /\ \A i \in (pos + n + 1)..(Len(chunk) + n) : out[i] = chunk[i - n]
           /\ \A i \in 1..Len(chunk) : out[i] \in BytesOf(chunk)
<1> DEFINE out == Split(chunk, pos, n)
<1>1. Len(chunk) \in Nat /\ pos \in Nat
  BY DEF Chunk
<1>2. \A i \in 1..(Len(chunk) + n) : out[i] = IF i > pos + n THEN chunk[i - n]
                                               ELSE IF i <= Len(chunk) THEN chunk[i] ELSE Zero
  BY DEF Split
<1>3. out = [i \in 1..(Len(chunk) + n) |-> out[i]]
  BY DEF Split
<1> HIDE DEF out
<1>4. ASSUME NEW i \in 1..(Len(chunk) + n)
      PROVE  /\ out[i] \in Byte
             /\ i <= pos => out[i] = chunk[i]
             /\ i > pos + n => out[i] = chunk[i - n]
             /\ i <= Len(chunk) => out[i] \in BytesOf(chunk)
  <2>1. CASE i > pos + n
    <3>1. i - n \in 1..Len(chunk) /\ ~(i <= pos)
      BY <1>1, <2>1
    <3> QED
      BY <1>2, <2>1, <3>1, InByteOf
  <2>2. CASE ~(i > pos + n) /\ i <= Len(chunk)
    <3>1. i \in 1..Len(chunk)
      BY <1>1, <2>2
    <3> QED
      BY <1>2, <2>2, <3>1, InByteOf
  <2>3. CASE ~(i > pos + n) /\ ~(i <= Len(chunk))
    <3>1. ~(i <= pos)
      BY <1>1, <2>3
    <3> QED
      BY <1>2, <2>3, <3>1, Constants
  <2> QED
    BY <2>1, <2>2, <2>3
<1>5. out \in Chunk /\ Len(out) = Len(chunk) + n
  <2>1. Len(chunk) + n \in Nat
    BY <1>1
  <2> QED
    BY <1>3, <1>4, <2>1, ByIndex
<1>6. \A i \in 1..pos : i \in 1..(Len(chunk) + n) /\ i <= pos
  BY <1>1
<1>7. \A i \in (pos + n + 1)..(Len(chunk) + n) : i \in 1..(Len(chunk) + n) /\ i > pos + n
  BY <1>1
<1>8. \A i \in 1..Len(chunk) : i \in 1..(Len(chunk) + n) /\ i <= Len(chunk)
  BY <1>1
<1> QED
  BY <1>4, <1>5, <1>6, <1>7, <1>8 DEF out

(* The bytes of in between the head and the tail of a chunk, with over      *)
(* bytes left out.                                                          *)
Between(chunk, pos, bytes, over) == SubSeq(chunk, 1, pos) \o bytes \o SubSeq(chunk, pos + over + 1, Len(chunk))

LEMMA BetweenLemma ==
    ASSUME NEW chunk \in Chunk, NEW pos \in 0..Len(chunk), NEW bytes \in Chunk,
           NEW over \in 0..(Len(chunk) - pos)
    PROVE  LET out == Between(chunk, pos, bytes, over) IN
           /\ out \in Chunk
           /\ Len(out) = Len(chunk) + Len(bytes) - over
           /\ \A i \in 1..pos : out[i] = chunk[i]
           /\ \A i \in 1..Len(bytes) : out[pos + i] = bytes[i]
           /\ \A i \in 1..(Len(chunk) - pos - over) : out[pos + Len(bytes) + i] = chunk[pos + over + i]
<1> DEFINE head == SubSeq(chunk, 1, pos)
           tail == SubSeq(chunk, pos + over + 1, Len(chunk))
           t == Len(chunk) - pos - over
<1>1. Len(chunk) \in Nat /\ Len(bytes) \in Nat /\ pos \in Nat /\ over \in Nat /\ t \in Nat
      /\ bytes \in Seq(Byte) /\ chunk \in Seq(Byte)
  BY DEF Chunk
<1>2. /\ head \in Seq(Byte) /\ Len(head) = pos
      /\ \A i \in 1..pos : head[i] = chunk[i]
  BY <1>1
<1>3. /\ tail \in Seq(Byte) /\ Len(tail) = t
      /\ \A i \in 1..t : tail[i] = chunk[pos + over + i]
  BY <1>1
<1>4. Between(chunk, pos, bytes, over) = (head \o bytes) \o tail
  BY DEF Between
<1> HIDE DEF head, tail, t
<1>5. /\ head \o bytes \in Seq(Byte) /\ Len(head \o bytes) = pos + Len(bytes)
      /\ \A i \in 1..pos : (head \o bytes)[i] = head[i]
      /\ \A i \in 1..Len(bytes) : (head \o bytes)[pos + i] = bytes[i]
  BY <1>1, <1>2
<1> DEFINE front == head \o bytes
<1>9. front \in Seq(Byte) /\ Len(front) = pos + Len(bytes)
  BY <1>5
<1> HIDE DEF front
<1>6. /\ front \o tail \in Seq(Byte) /\ Len(front \o tail) = pos + Len(bytes) + t
      /\ \A i \in 1..(pos + Len(bytes)) : (front \o tail)[i] = front[i]
      /\ \A i \in 1..t : (front \o tail)[pos + Len(bytes) + i] = tail[i]
  <2> DEFINE n == pos + Len(bytes)
  <2>1. n \in Nat /\ Len(front) = n
    BY <1>1, <1>9
  <2> HIDE DEF n
  <2>2. /\ front \o tail \in Seq(Byte) /\ Len(front \o tail) = n + t
        /\ \A i \in 1..n : (front \o tail)[i] = front[i]
        /\ \A i \in 1..t : (front \o tail)[n + i] = tail[i]
    <3>1. /\ front \o tail \in Seq(Byte) /\ Len(front \o tail) = n + t
          /\ \A i \in 1..(n + t) : (front \o tail)[i] = IF i <= n THEN front[i] ELSE tail[i - n]
      <4>1. Len(tail) = t
        BY <1>3
      <4>2. /\ front \o tail \in Seq(Byte) /\ Len(front \o tail) = Len(front) + Len(tail)
            /\ \A i \in 1..(Len(front) + Len(tail)) :
                  (front \o tail)[i] = IF i <= Len(front) THEN front[i] ELSE tail[i - Len(front)]
        BY <1>3, <1>9, ConcatProperties
      <4> QED
        BY <2>1, <4>1, <4>2
    <3>2. /\ \A i \in 1..n : i \in 1..(n + t) /\ i <= n
          /\ \A i \in 1..t : n + i \in 1..(n + t) /\ ~(n + i <= n) /\ (n + i) - n = i
      BY <1>1, <2>1
    <3> QED
      BY <3>1, <3>2
  <2> QED
    BY <2>2 DEF n
<1>7. /\ \A i \in 1..pos : i \in 1..(pos + Len(bytes))
      /\ \A i \in 1..Len(bytes) : pos + i \in 1..(pos + Len(bytes))
  BY <1>1
<1>8. pos + Len(bytes) + t = Len(chunk) + Len(bytes) - over
  BY <1>1 DEF t
<1> DEFINE out == Between(chunk, pos, bytes, over)
<1>10. out = front \o tail
  BY <1>4 DEF front
<1> HIDE DEF out
<1>11. out \in Chunk /\ Len(out) = Len(chunk) + Len(bytes) - over
  BY <1>6, <1>8, <1>10 DEF Chunk
<1>12. \A i \in 1..pos : out[i] = chunk[i]
  <2>1. \A i \in 1..pos : front[i] = chunk[i]
    BY <1>2, <1>5 DEF front
  <2> QED
    BY <1>6, <1>7, <1>10, <2>1
<1>13. \A i \in 1..Len(bytes) : out[pos + i] = bytes[i]
  <2>1. \A i \in 1..Len(bytes) : front[pos + i] = bytes[i]
    BY <1>5 DEF front
  <2> QED
    BY <1>6, <1>7, <1>10, <2>1
<1>14. \A i \in 1..(Len(chunk) - pos - over) : out[pos + Len(bytes) + i] = chunk[pos + over + i]
  BY <1>3, <1>6, <1>10 DEF t
<1> QED
  BY <1>11, <1>12, <1>13, <1>14 DEF out

LEMMA SameChunk ==
    ASSUME NEW a \in Chunk, NEW b \in Chunk, Len(a) = Len(b), \A i \in 1..Len(b) : a[i] = b[i]
    PROVE  a = b
  BY DEF Chunk

LEMMA BetweenBytes ==
    ASSUME NEW chunk \in Chunk, NEW pos \in 0..Len(chunk), NEW bytes \in Chunk,
           NEW over \in 0..(Len(chunk) - pos)
    PROVE  BytesOf(Between(chunk, pos, bytes, over)) \subseteq BytesOf(chunk) \union BytesOf(bytes)
<1> DEFINE out == Between(chunk, pos, bytes, over)
           n == Len(bytes)
<1>1. Len(chunk) \in Nat /\ n \in Nat /\ pos \in Nat /\ over \in Nat
  BY DEF Chunk
<1>2. /\ Len(out) = Len(chunk) + n - over
      /\ \A i \in 1..pos : out[i] = chunk[i]
      /\ \A i \in 1..n : out[pos + i] = bytes[i]
      /\ \A i \in 1..(Len(chunk) - pos - over) : out[pos + n + i] = chunk[pos + over + i]
  BY BetweenLemma
<1> HIDE DEF out
<1>3. ASSUME NEW k \in 1..Len(out)
      PROVE  out[k] \in BytesOf(chunk) \union BytesOf(bytes)
  <2>1. CASE k <= pos
    <3>1. k \in 1..pos /\ k \in 1..Len(chunk)
      BY <1>1, <2>1
    <3> QED
      BY <1>2, <3>1, InByteOf
  <2>2. CASE ~(k <= pos) /\ k <= pos + n
    <3> DEFINE i == k - pos
    <3>1. i \in 1..n /\ pos + i = k
      BY <1>1, <2>2
    <3> HIDE DEF i
    <3>2. out[k] = bytes[i]
      BY <1>2, <3>1
    <3> QED
      BY <3>1, <3>2, InByteOf
  <2>3. CASE ~(k <= pos + n)
    <3> DEFINE i == k - pos - n
    <3>1. i \in 1..(Len(chunk) - pos - over) /\ pos + n + i = k /\ pos + over + i \in 1..Len(chunk)
      BY <1>1, <1>2, <2>3
    <3> HIDE DEF i
    <3>2. out[k] = chunk[pos + over + i]
      BY <1>2, <3>1
    <3> QED
      BY <3>1, <3>2, InByteOf
  <2> QED
    BY <2>1, <2>2, <2>3
<1> QED
  BY <1>3 DEF BytesOf, out

(* Splitting and copying into the gap inserts. *)
LEMMA InsertedLemma ==
    ASSUME NEW chunk \in Chunk, NEW pos \in 0..Len(chunk), NEW bytes \in Chunk, NEW n, n = Len(bytes)
    PROVE  Overwritten(Split(chunk, pos, n), pos, bytes) = Between(chunk, pos, bytes, 0)
<1> DEFINE split == Split(chunk, pos, n)
           out == Overwritten(split, pos, bytes)
           new == Between(chunk, pos, bytes, 0)
<1>1. Len(chunk) \in Nat /\ n \in Nat /\ pos \in Nat
  BY DEF Chunk
<1>2. /\ split \in Chunk /\ Len(split) = Len(chunk) + n
      /\ \A i \in 1..pos : split[i] = chunk[i]
      /\ \A i \in (pos + n + 1)..(Len(chunk) + n) : split[i] = chunk[i - n]
  BY <1>1, SplitLemma
<1> HIDE DEF split
<1>3. /\ out \in Chunk /\ Len(out) = Len(chunk) + n
      /\ \A i \in 1..(Len(chunk) + n) : out[i] = IF i \in (pos + 1)..(pos + n) THEN bytes[i - pos] ELSE split[i]
  <2>1. /\ out \in Chunk /\ Len(out) = Len(split)
        /\ \A i \in 1..Len(split) : out[i] = IF i \in (pos + 1)..(pos + Len(bytes)) THEN bytes[i - pos] ELSE split[i]
    <3> HIDE DEF out, new
    <3>1. split \in Chunk /\ pos \in Nat
      BY <1>1, <1>2
    <3> QED
      BY <3>1, OverwrittenLemma DEF out
  <2> HIDE DEF out, new
  <2>2. Len(split) = Len(chunk) + n /\ Len(bytes) = n
    BY <1>2
  <2> QED
    BY <2>1, <2>2
<1>4. /\ new \in Chunk /\ Len(new) = Len(chunk) + n
      /\ \A i \in 1..pos : new[i] = chunk[i]
      /\ \A i \in 1..n : new[pos + i] = bytes[i]
      /\ \A i \in 1..(Len(chunk) - pos) : new[pos + n + i] = chunk[pos + i]
  <2>1. 0 \in 0..(Len(chunk) - pos) /\ Len(chunk) + n - 0 = Len(chunk) + n
        /\ Len(chunk) - pos - 0 = Len(chunk) - pos /\ pos + 0 = pos
    BY <1>1
  <2> HIDE DEF new
  <2>2. /\ new \in Chunk /\ Len(new) = Len(chunk) + n - 0
        /\ \A i \in 1..pos : new[i] = chunk[i]
        /\ \A i \in 1..n : new[pos + i] = bytes[i]
        /\ \A i \in 1..(Len(chunk) - pos - 0) : new[pos + n + i] = chunk[pos + 0 + i]
    BY <2>1, BetweenLemma DEF new
  <2> QED
    BY <2>1, <2>2
<1> HIDE DEF out, new
<1>5. ASSUME NEW k \in 1..(Len(chunk) + n)
      PROVE  out[k] = new[k]
  <2>1. CASE k <= pos
    <3>1. k \in 1..pos /\ k \notin (pos + 1)..(pos + n)
      BY <1>1, <2>1
    <3> QED
      BY <1>2, <1>3, <1>4, <3>1
  <2>2. CASE ~(k <= pos) /\ k <= pos + n
    <3> DEFINE i == k - pos
    <3>1. k \in (pos + 1)..(pos + n) /\ i \in 1..n /\ pos + i = k
      BY <1>1, <2>2
    <3>2. out[k] = bytes[i]
      BY <1>3, <3>1
    <3> HIDE DEF i
    <3>3. new[k] = bytes[i]
      BY <1>4, <3>1
    <3> QED
      BY <3>2, <3>3
  <2>3. CASE ~(k <= pos + n)
    <3> DEFINE i == k - pos - n
    <3>1. /\ k \notin (pos + 1)..(pos + n) /\ k \in (pos + n + 1)..(Len(chunk) + n)
          /\ i \in 1..(Len(chunk) - pos) /\ pos + n + i = k /\ k - n = pos + i
      BY <1>1, <2>3
    <3> HIDE DEF i
    <3>2. out[k] = chunk[k - n]
      BY <1>2, <1>3, <3>1
    <3>3. new[k] = chunk[pos + i]
      BY <1>4, <3>1
    <3> QED
      BY <3>1, <3>2, <3>3
  <2> QED
    BY <2>1, <2>2, <2>3
<1>6. out = new
  BY <1>3, <1>4, <1>5, SameChunk
<1> QED
  BY <1>6 DEF out, new, split

(* Copying over a part replaces it. *)
LEMMA ReplacedLemma ==
    ASSUME NEW chunk \in Chunk, NEW pos \in 0..Len(chunk), NEW bytes \in Chunk,
           Len(bytes) \in 0..(Len(chunk) - pos)
    PROVE  Overwritten(chunk, pos, bytes) = Between(chunk, pos, bytes, Len(bytes))
<1> DEFINE out == Overwritten(chunk, pos, bytes)
           new == Between(chunk, pos, bytes, Len(bytes))
           n == Len(bytes)
<1>1. Len(chunk) \in Nat /\ n \in Nat /\ pos \in Nat
  BY DEF Chunk
<1>2. /\ out \in Chunk /\ Len(out) = Len(chunk)
      /\ \A i \in 1..Len(chunk) : out[i] = IF i \in (pos + 1)..(pos + n) THEN bytes[i - pos] ELSE chunk[i]
  BY <1>1, OverwrittenLemma
<1>3. /\ new \in Chunk /\ Len(new) = Len(chunk) + n - n
      /\ \A i \in 1..pos : new[i] = chunk[i]
      /\ \A i \in 1..n : new[pos + i] = bytes[i]
      /\ \A i \in 1..(Len(chunk) - pos - n) : new[pos + n + i] = chunk[pos + n + i]
  BY BetweenLemma
<1> HIDE DEF out, new
<1>4. ASSUME NEW k \in 1..Len(chunk)
      PROVE  out[k] = new[k]
  <2>1. CASE k <= pos
    <3>1. k \in 1..pos /\ k \notin (pos + 1)..(pos + n)
      BY <1>1, <2>1
    <3> QED
      BY <1>2, <1>3, <3>1
  <2>2. CASE ~(k <= pos) /\ k <= pos + n
    <3> DEFINE i == k - pos
    <3>1. k \in (pos + 1)..(pos + n) /\ i \in 1..n /\ pos + i = k
      BY <1>1, <2>2
    <3>2. out[k] = bytes[i]
      BY <1>2, <3>1
    <3> HIDE DEF i
    <3>3. new[k] = bytes[i]
      BY <1>3, <3>1
    <3> QED
      BY <3>2, <3>3
  <2>3. CASE ~(k <= pos + n)
    <3> DEFINE i == k - pos - n
    <3>1. k \notin (pos + 1)..(pos + n) /\ i \in 1..(Len(chunk) - pos - n) /\ pos + n + i = k
      BY <1>1, <2>3
    <3> HIDE DEF i
    <3> QED
      BY <1>2, <1>3, <3>1
  <2> QED
    BY <2>1, <2>2, <2>3
<1>5. Len(new) = Len(chunk)
  BY <1>1, <1>3
<1>6. out = new
  BY <1>2, <1>3, <1>4, <1>5, SameChunk
<1> QED
  BY <1>6 DEF out, new
-----------------------------------------------------------------------------
(***************************************************************************)
(* The answers of the mutators.                                            *)
(***************************************************************************)
Fits(chunk, max, answer) == /\ answer.chunk \in Chunk
                            /\ Len(chunk) <= max => Len(answer.chunk) <= max
TakenFrom(answer, bytes) == BytesOf(answer.chunk) \subseteq bytes

LEMMA AnswerFields ==
    ASSUME NEW a, NEW b
    PROVE  Answer(a, b).chunk = a /\ Answer(a, b).insert = b
  BY DEF Answer

LEMMA UnchangedLemma ==
    ASSUME NEW chunk \in Chunk, NEW max \in Nat, NEW answer, answer = Unchanged(chunk)
    PROVE  /\ Fits(chunk, max, answer) /\ TakenFrom(answer, BytesOf(chunk)) /\ HeadInsertTail(chunk, answer)
           /\ answer.chunk = chunk
<1>1. answer.chunk = chunk /\ answer.insert = <<>>
  BY AnswerFields DEF Unchanged
<1> QED
  BY <1>1 DEF Fits, TakenFrom, HeadInsertTail

LEMMA BetweenAnswer ==
    ASSUME NEW chunk \in Chunk, NEW pos \in 0..Len(chunk), NEW bytes \in Chunk,
           NEW over \in 0..(Len(chunk) - pos), over \in {0, Len(bytes)},
           NEW answer, answer.chunk = Between(chunk, pos, bytes, over)
    PROVE  /\ answer.chunk \in Chunk
           /\ Len(answer.chunk) = Len(chunk) + Len(bytes) - over
           /\ TakenFrom(answer, BytesOf(chunk) \union BytesOf(bytes))
  BY BetweenLemma, BetweenBytes DEF TakenFrom

LEMMA BetweenInserted ==
    ASSUME NEW chunk \in Chunk, NEW pos \in 0..Len(chunk), NEW answer,
           NEW over \in {0, Len(answer.insert)},
           answer.chunk = Between(chunk, pos, answer.insert, over)
    PROVE  HeadInsertTail(chunk, answer)
  BY DEF HeadInsertTail, Between

LEMMA PieceBytes ==
    ASSUME NEW chunk \in Chunk, NEW range, range.first \in Nat, range.second \in Nat,
           range.first + range.second <= Len(chunk)
    PROVE  BytesOf(Piece(chunk, range)) \subseteq BytesOf(chunk)
<1>1. /\ Len(Piece(chunk, range)) = range.second
      /\ \A i \in 1..range.second : /\ Piece(chunk, range)[i] = chunk[range.first + i]
                                    /\ range.first + i \in 1..Len(chunk)
  BY PieceLemma
<1> QED
  BY <1>1 DEF BytesOf

LEMMA CopyPartOfLemma ==
    ASSUME NEW dest \in Chunk, NEW src \in Chunk, NEW same \in BOOLEAN, NEW max \in Nat,
           NEW answer \in CopyPartOf(dest, src, same)
    PROVE  /\ Fits(dest, max, answer) /\ TakenFrom(answer, BytesOf(dest) \union BytesOf(src))
           /\ ~same => HeadInsertTail(dest, answer)
<1>0. Len(dest) \in Nat /\ Len(src) \in Nat
  BY DEF Chunk
<1>1. PICK pos \in 0..Len(dest) : \E range \in RandomRange(Smaller(Len(src), Len(dest) - pos)) :
          LET copied == Overwritten(dest, pos, Piece(src, range)) IN
          answer = Answer(copied, Piece(IF same THEN copied ELSE src, range))
  BY DEF CopyPartOf
<1>2. PICK range \in RandomRange(Smaller(Len(src), Len(dest) - pos)) :
          answer = Answer(Overwritten(dest, pos, Piece(src, range)),
                          Piece(IF same THEN Overwritten(dest, pos, Piece(src, range)) ELSE src, range))
  BY <1>1
<1>3. /\ range.first \in Nat /\ range.second \in Nat /\ range.first + range.second <= Len(src)
      /\ range.second \in 0..(Len(dest) - pos)
  <2> DEFINE size == Smaller(Len(src), Len(dest) - pos)
  <2>1. size \in Nat /\ size <= Len(src) /\ size <= Len(dest) - pos
    BY <1>0 DEF Smaller
  <2> HIDE DEF size
  <2>2. range.first \in Nat /\ range.second \in Nat /\ range.first + range.second <= size
    BY <1>2, <2>1, RangeLemma DEF size
  <2> QED
    BY <1>0, <2>1, <2>2
<1> DEFINE bytes == Piece(src, range)
<1>4. bytes \in Chunk /\ Len(bytes) = range.second /\ BytesOf(bytes) \subseteq BytesOf(src)
  BY <1>3, PieceLemma, PieceBytes
<1>5. answer.chunk = Overwritten(dest, pos, bytes) /\ (~same => answer.insert = bytes)
  BY <1>2, AnswerFields
<1> HIDE DEF bytes
<1>6. answer.chunk = Between(dest, pos, bytes, Len(bytes))
  BY <1>3, <1>4, <1>5, ReplacedLemma
<1>7. /\ answer.chunk \in Chunk
      /\ Len(answer.chunk) = Len(dest) + Len(bytes) - Len(bytes)
      /\ TakenFrom(answer, BytesOf(dest) \union BytesOf(bytes))
  <2>1. Len(bytes) \in 0..(Len(dest) - pos) /\ Len(bytes) \in {0, Len(bytes)}
    BY <1>3, <1>4
  <2> QED
    BY <1>4, <1>6, <2>1, BetweenAnswer
<1>8. ~same => HeadInsertTail(dest, answer)
  BY <1>5, <1>6, BetweenInserted
<1>9. Len(answer.chunk) = Len(dest)
  BY <1>0, <1>3, <1>4, <1>7
<1> QED
  BY <1>4, <1>7, <1>8, <1>9 DEF Fits, TakenFrom

LEMMA InsertPartOfLemma ==
    ASSUME NEW dest \in Chunk, NEW src \in Chunk, NEW same \in BOOLEAN, same => src = dest, NEW max \in Nat,
           NEW answer \in InsertPartOf(dest, src, same, max)
    PROVE  /\ Fits(dest, max, answer) /\ TakenFrom(answer, BytesOf(dest) \union BytesOf(src))
           /\ ~same => HeadInsertTail(dest, answer)
<1>0. Len(dest) \in Nat /\ Len(src) \in Nat
  BY DEF Chunk
<1>1. CASE Len(dest) >= max
  <2>1. answer = Unchanged(dest)
    BY <1>1 DEF InsertPartOf
  <2>2. Fits(dest, max, answer) /\ TakenFrom(answer, BytesOf(dest)) /\ HeadInsertTail(dest, answer)
    BY <2>1, UnchangedLemma
  <2> QED
    BY <2>2 DEF TakenFrom
<1>2. CASE ~(Len(dest) >= max)
  <2> DEFINE size == InsertSize(dest, src, max)
             Grow(pos, range) == Split(dest, pos, range.second)
             Read(pos, range) == Piece(IF same THEN Grow(pos, range) ELSE src, range)
             Built(pos, range) == Overwritten(Grow(pos, range), pos, Read(pos, range))
  <2>1. PICK pos \in 0..Len(dest) : \E range \in RandomRange(size) :
            answer = Answer(Built(pos, range), Piece(IF same THEN Built(pos, range) ELSE src, range))
    BY <1>2 DEF InsertPartOf
  <2>2. PICK range \in RandomRange(size) :
            answer = Answer(Built(pos, range), Piece(IF same THEN Built(pos, range) ELSE src, range))
    BY <2>1
  <2>3. size \in Nat /\ size <= Len(src) /\ Len(dest) + size <= max
    BY <1>0, <1>2 DEF InsertSize, Smaller
  <2> HIDE DEF size
  <2>4. /\ range.first \in Nat /\ range.second \in Nat /\ range.first + range.second <= Len(src)
        /\ Len(dest) + range.second <= max
    <3>1. range.first \in Nat /\ range.second \in Nat /\ range.first + range.second <= size
      BY <2>2, <2>3, RangeLemma
    <3> QED
      BY <1>0, <2>3, <3>1
  <2> DEFINE n == range.second
             split == Grow(pos, range)
             bytes == Read(pos, range)
  <2>5. /\ split \in Chunk /\ Len(split) = Len(dest) + n
        /\ \A i \in 1..Len(dest) : split[i] \in BytesOf(dest)
    BY <2>4, SplitLemma
  <2>6. bytes \in Chunk /\ Len(bytes) = n /\ BytesOf(bytes) \subseteq BytesOf(dest) \union BytesOf(src)
    <3>1. CASE ~same
      <4>1. bytes = Piece(src, range)
        BY <3>1
      <4>2. Piece(src, range) \in Chunk /\ Len(Piece(src, range)) = n
            /\ BytesOf(Piece(src, range)) \subseteq BytesOf(src)
        BY <2>4, PieceLemma, PieceBytes
      <4> QED
        BY <4>1, <4>2
    <3>2. CASE same
      <4>1. bytes = Piece(split, range) /\ src = dest
        BY <3>2
      <4> HIDE DEF split, bytes
      <4>2. range.first + range.second <= Len(split)
        BY <1>0, <2>4, <2>5, <4>1
      <4>3. /\ bytes \in Chunk /\ Len(bytes) = n
            /\ \A i \in 1..n : bytes[i] = split[range.first + i]
        BY <2>4, <2>5, <4>1, <4>2, PieceLemma
      <4>4. \A i \in 1..n : range.first + i \in 1..Len(dest)
        BY <1>0, <2>4, <4>1
      <4>5. \A i \in 1..Len(bytes) : bytes[i] \in BytesOf(dest)
        BY <2>5, <4>3, <4>4
      <4>6. BytesOf(bytes) \subseteq BytesOf(dest)
        BY <4>5, BytesAmong
      <4> QED
        BY <4>3, <4>6
    <3> QED
      BY <3>1, <3>2
  <2>7. answer.chunk = Overwritten(split, pos, bytes) /\ (~same => answer.insert = bytes)
    BY <2>2, AnswerFields
  <2> HIDE DEF bytes
  <2>8. answer.chunk = Between(dest, pos, bytes, 0)
    BY <2>6, <2>7, InsertedLemma
  <2>9. /\ answer.chunk \in Chunk
        /\ Len(answer.chunk) = Len(dest) + Len(bytes) - 0
        /\ TakenFrom(answer, BytesOf(dest) \union BytesOf(bytes))
    <3>1. 0 \in 0..(Len(dest) - pos) /\ 0 \in {0, Len(bytes)}
      BY <1>0
    <3> QED
      BY <2>6, <2>8, <3>1, BetweenAnswer
  <2>10. ~same => HeadInsertTail(dest, answer)
    BY <2>7, <2>8, BetweenInserted
  <2>11. Len(answer.chunk) <= max
    BY <1>0, <2>4, <2>6, <2>9
  <2> QED
    BY <2>6, <2>9, <2>10, <2>11 DEF Fits, TakenFrom
<1> QED
  BY <1>1, <1>2

LEMMA SplicedAnswer ==
    ASSUME NEW chunk \in Chunk, NEW pos \in 0..Len(chunk), NEW bytes \in Chunk,
           NEW answer, answer.chunk = Spliced(chunk, pos, bytes)
    PROVE  /\ answer.chunk \in Chunk
           /\ Len(answer.chunk) = Len(chunk) + Len(bytes)
           /\ TakenFrom(answer, BytesOf(chunk) \union BytesOf(bytes))
           /\ bytes = answer.insert => HeadInsertTail(chunk, answer)
<1>1. Len(chunk) \in Nat /\ Len(bytes) \in Nat /\ pos \in Nat
  BY DEF Chunk
<1>2. pos + 0 + 1 = pos + 1 /\ 0 \in 0..(Len(chunk) - pos) /\ 0 \in {0, Len(bytes)} /\ 0 \in {0, Len(answer.insert)}
  BY <1>1
<1>3. answer.chunk = Between(chunk, pos, bytes, 0)
  BY <1>2 DEF Spliced, Between
<1>4. /\ answer.chunk \in Chunk
      /\ Len(answer.chunk) = Len(chunk) + Len(bytes) - 0
      /\ TakenFrom(answer, BytesOf(chunk) \union BytesOf(bytes))
  BY <1>2, <1>3, BetweenAnswer
<1>5. bytes = answer.insert => HeadInsertTail(chunk, answer)
  BY <1>2, <1>3, BetweenInserted
<1> QED
  BY <1>1, <1>4, <1>5

LEMMA GetLemma ==
    ASSUME NEW n \in Nat, NEW k \in Get(n)
    PROVE  k \in Nat /\ k <= n /\ (n > 0 => k < n)
  BY DEF Get

LEMMA RandomBytesLemma ==
    ASSUME NEW chunk \in Chunk, NEW max \in Nat, NEW answer \in RandomBytes(chunk, max)
    PROVE  Fits(chunk, max, answer)
<1>1. PICK n \in {IF n = 0 THEN 1 ELSE n : n \in Get(max + 1)} :
          answer \in IF n > max THEN {Unchanged(chunk)} ELSE {Answer(c, c) : c \in [1..n -> Byte]}
  BY DEF RandomBytes
<1>2. n \in Nat
  BY GetLemma
<1>3. CASE n > max
  BY <1>1, <1>3, UnchangedLemma
<1>4. CASE ~(n > max)
  <2>1. PICK c \in [1..n -> Byte] : answer = Answer(c, c)
    BY <1>1, <1>4
  <2>2. c \in Chunk /\ Len(c) = n
    BY <1>2, ByIndex
  <2>3. answer.chunk = c
    BY <2>1, AnswerFields
  <2> QED
    BY <1>2, <1>4, <2>2, <2>3 DEF Fits
<1> QED
  BY <1>3, <1>4

LEMMA OneByte ==
    ASSUME NEW b \in Byte
    PROVE  <<b>> \in Chunk /\ Len(<<b>>) = 1 /\ BytesOf(<<b>>) = {b}
  BY DEF Chunk, BytesOf

LEMMA InsertByteLemma ==
    ASSUME NEW chunk \in Chunk, NEW max \in Nat, NEW answer \in InsertByte(chunk, max)
    PROVE  Fits(chunk, max, answer) /\ HeadInsertTail(chunk, answer)
<1>0. Len(chunk) \in Nat
  BY DEF Chunk
<1>1. CASE Len(chunk) = max
  BY <1>1, UnchangedLemma DEF InsertByte
<1>2. CASE Len(chunk) # max
  <2>1. PICK pos \in Get(Len(chunk)), b \in Byte : answer = Answer(Spliced(chunk, pos, <<b>>), <<b>>)
    BY <1>2 DEF InsertByte
  <2>2. pos \in 0..Len(chunk)
    BY <1>0, GetLemma
  <2>3. answer.chunk = Spliced(chunk, pos, <<b>>) /\ answer.insert = <<b>>
    BY <2>1, AnswerFields
  <2>4. <<b>> \in Chunk /\ Len(<<b>>) = 1
    BY OneByte
  <2> DEFINE bytes == <<b>>
  <2>5. bytes \in Chunk /\ answer.chunk = Spliced(chunk, pos, bytes) /\ bytes = answer.insert /\ Len(bytes) = 1
    BY <2>3, <2>4
  <2> HIDE DEF bytes
  <2>6. answer.chunk \in Chunk /\ Len(answer.chunk) = Len(chunk) + 1 /\ HeadInsertTail(chunk, answer)
    BY <2>2, <2>5, SplicedAnswer
  <2> QED
    BY <1>0, <1>2, <2>6 DEF Fits
<1> QED
  BY <1>1, <1>2

LEMMA EraseBytesLemma ==
    ASSUME NEW chunk \in Chunk, NEW max \in Nat, NEW answer \in EraseBytes(chunk)
    PROVE  Fits(chunk, max, answer) /\ TakenFrom(answer, BytesOf(chunk))
<1>0. Len(chunk) \in Nat
  BY DEF Chunk
<1>1. PICK range \in RandomRange(Len(chunk)) : answer = Unchanged(Piece(chunk, range))
  BY DEF EraseBytes
<1>2. range.first \in Nat /\ range.second \in Nat /\ range.first + range.second <= Len(chunk)
  BY <1>0, RangeLemma
<1>3. answer.chunk = Piece(chunk, range)
  BY <1>1, AnswerFields DEF Unchanged
<1>4. answer.chunk \in Chunk /\ Len(answer.chunk) = range.second /\ BytesOf(answer.chunk) \subseteq BytesOf(chunk)
  BY <1>2, <1>3, PieceLemma, PieceBytes
<1>5. Len(answer.chunk) <= Len(chunk)
  BY <1>0, <1>2, <1>4
<1> QED
  BY <1>0, <1>2, <1>4, <1>5 DEF Fits, TakenFrom

LEMMA InsertRepeatedBytesLemma ==
    ASSUME NEW chunk \in Chunk, NEW max \in Nat, NEW answer \in InsertRepeatedBytes(chunk, max)
    PROVE  Fits(chunk, max, answer) /\ HeadInsertTail(chunk, answer)
<1>0. Len(chunk) \in Nat
  BY DEF Chunk
<1>1. CASE Len(chunk) >= max
  BY <1>1, UnchangedLemma DEF InsertRepeatedBytes
<1>2. CASE ~(Len(chunk) >= max)
  <2>1. PICK n \in Get(max - Len(chunk) + 1) : \E pos \in 0..Len(chunk), b \in Byte :
            answer = Answer(Overwritten(Split(chunk, pos, n), pos, [i \in 1..n |-> b]), [i \in 1..n |-> b])
    BY <1>2 DEF InsertRepeatedBytes
  <2>2. PICK pos \in 0..Len(chunk), b \in Byte :
            answer = Answer(Overwritten(Split(chunk, pos, n), pos, [i \in 1..n |-> b]), [i \in 1..n |-> b])
    BY <2>1
  <2>3. n \in Nat /\ Len(chunk) + n <= max
    <3>1. max - Len(chunk) + 1 \in Nat /\ max - Len(chunk) + 1 > 0
      BY <1>0, <1>2
    <3>2. n \in Nat /\ n < max - Len(chunk) + 1
      BY <3>1, GetLemma
    <3> QED
      BY <1>0, <3>2
  <2> DEFINE bytes == [i \in 1..n |-> b]
  <2>4. bytes \in Chunk /\ Len(bytes) = n
    BY <2>3, ByIndex
  <2>5. answer.chunk = Overwritten(Split(chunk, pos, n), pos, bytes) /\ answer.insert = bytes
    BY <2>2, AnswerFields
  <2> HIDE DEF bytes
  <2>6. answer.chunk = Between(chunk, pos, bytes, 0)
    BY <2>4, <2>5, InsertedLemma
  <2>7. 0 \in 0..(Len(chunk) - pos) /\ 0 \in {0, Len(bytes)}
    BY <1>0
  <2>8. answer.chunk \in Chunk /\ Len(answer.chunk) = Len(chunk) + Len(bytes) - 0
    BY <2>4, <2>6, <2>7, BetweenAnswer
  <2>9. HeadInsertTail(chunk, answer)
    BY <2>5, <2>6, BetweenInserted
  <2>10. Len(answer.chunk) <= max
    BY <1>0, <2>3, <2>4, <2>8
  <2> QED
    BY <2>8, <2>9, <2>10 DEF Fits
<1> QED
  BY <1>1, <1>2

LEMMA ShuffleBytesLemma ==
    ASSUME NEW chunk \in Chunk, NEW max \in Nat, NEW answer \in ShuffleBytes(chunk)
    PROVE  Fits(chunk, max, answer) /\ TakenFrom(answer, BytesOf(chunk))
<1>0. Len(chunk) \in Nat
  BY DEF Chunk
<1>1. PICK range \in RandomRange(Len(chunk)) : \E p \in Orders(range.second) :
          answer = Unchanged(Overwritten(chunk, range.first, [i \in 1..range.second |-> Piece(chunk, range)[p[i]]]))
  BY DEF ShuffleBytes
<1>2. PICK p \in Orders(range.second) :
          answer = Unchanged(Overwritten(chunk, range.first, [i \in 1..range.second |-> Piece(chunk, range)[p[i]]]))
  BY <1>1
<1>3. range.first \in Nat /\ range.second \in Nat /\ range.first + range.second <= Len(chunk)
  BY <1>0, RangeLemma
<1> DEFINE n == range.second
           piece == Piece(chunk, range)
           bytes == [i \in 1..n |-> piece[p[i]]]
<1>4. piece \in Chunk /\ Len(piece) = n /\ BytesOf(piece) \subseteq BytesOf(chunk)
  BY <1>3, PieceLemma, PieceBytes
<1>5. \A i \in 1..n : p[i] \in 1..n
  BY DEF Orders
<1>6. answer.chunk = Overwritten(chunk, range.first, bytes)
  BY <1>2, AnswerFields DEF Unchanged
<1> HIDE DEF piece
<1>7. \A i \in 1..n : piece[p[i]] \in Byte /\ piece[p[i]] \in BytesOf(piece)
  BY <1>4, <1>5, InByteOf
<1>8. bytes \in Chunk /\ Len(bytes) = n
  <2>1. \A i \in 1..n : bytes[i] \in Byte
    BY <1>7
  <2>2. bytes = [i \in 1..n |-> bytes[i]]
    OBVIOUS
  <2> HIDE DEF bytes
  <2> QED
    BY <1>3, <2>1, <2>2, ByIndex
<1>9. BytesOf(bytes) \subseteq BytesOf(chunk)
  <2>1. \A i \in 1..Len(bytes) : bytes[i] \in BytesOf(chunk)
    BY <1>4, <1>7, <1>8
  <2> HIDE DEF bytes
  <2> QED
    BY <2>1, BytesAmong
<1> HIDE DEF bytes
<1>10. /\ answer.chunk \in Chunk /\ Len(answer.chunk) = Len(chunk)
       /\ BytesOf(answer.chunk) \subseteq BytesOf(chunk) \union BytesOf(bytes)
  BY <1>3, <1>6, <1>8, OverwrittenLemma
<1> QED
  BY <1>9, <1>10 DEF Fits, TakenFrom

LEMMA CopyPartLemma ==
    ASSUME NEW chunk \in Chunk, NEW max \in Nat, NEW answer \in CopyPart(chunk, max)
    PROVE  Fits(chunk, max, answer) /\ TakenFrom(answer, BytesOf(chunk))
<1>1. CASE chunk = <<>>
  BY <1>1, UnchangedLemma DEF CopyPart
<1>2. CASE answer \in CopyPartOf(chunk, chunk, TRUE)
  BY <1>2, CopyPartOfLemma DEF TakenFrom
<1>3. CASE answer \in InsertPartOf(chunk, chunk, TRUE, max)
  BY <1>3, InsertPartOfLemma DEF TakenFrom
<1> QED
  BY <1>1, <1>2, <1>3 DEF CopyPart

LEMMA CrossOverLemma ==
    ASSUME NEW chunk \in Chunk, NEW other \in Chunk, NEW max \in Nat, NEW answer \in CrossOver(chunk, other, max)
    PROVE  /\ Fits(chunk, max, answer) /\ TakenFrom(answer, BytesOf(chunk) \union BytesOf(other))
           /\ HeadInsertTail(chunk, answer)
<1>1. CASE answer = Unchanged(chunk)
  BY <1>1, UnchangedLemma DEF TakenFrom
<1>2. CASE answer \in CopyPartOf(chunk, other, FALSE)
  BY <1>2, CopyPartOfLemma
<1>3. CASE answer \in InsertPartOf(chunk, other, FALSE, max)
  BY <1>3, InsertPartOfLemma
<1> QED
  BY <1>1, <1>2, <1>3 DEF CrossOver

LEMMA InsertDictionaryLemma ==
    ASSUME NEW chunk \in Chunk, NEW b \in Byte, NEW max \in 0..MaxChunkLen,
           NEW answer \in InsertDictionary(chunk, <<b>>, max)
    PROVE  /\ Fits(chunk, max, answer) /\ TakenFrom(answer, BytesOf(chunk) \union {b})
           /\ HeadInsertTail(chunk, answer)
<1> DEFINE room == (max - Len(chunk)) % SizeMod
           token == <<b>>
           backwards == [i \in 1..Len(token) |-> token[Len(token) + 1 - i]]
<1>0. Len(chunk) \in Nat /\ max \in Nat /\ MaxChunkLen \in Nat /\ SizeMod \in Nat /\ MaxChunkLen < SizeMod
  BY MutatorsAssumption DEF Chunk
<1>1. token \in Chunk /\ Len(token) = 1 /\ BytesOf(token) = {b} /\ token # <<>>
  BY OneByte
<1>2. backwards = token
  <2>1. Len(token) = 1 /\ token[1] = b
    OBVIOUS
  <2>2. backwards = [i \in 1..1 |-> b]
    BY <2>1
  <2> QED
    BY <2>2
<1>3. answer \in IF room = 0 \/ Len(token) > room \/ token = <<>> THEN {Unchanged(chunk)}
                 ELSE {Answer(Spliced(chunk, pos, backwards), token) : pos \in Get(Len(chunk))}
  BY DEF InsertDictionary
<1> HIDE DEF token, backwards
<1>4. CASE answer = Unchanged(chunk)
  <2>1. max \in Nat
    BY <1>0
  <2> QED
    BY <1>4, <2>1, UnchangedLemma DEF TakenFrom
<1>5. CASE answer # Unchanged(chunk)
  <2>1. room # 0
    BY <1>3, <1>5
  <2>2. PICK pos \in Get(Len(chunk)) : answer = Answer(Spliced(chunk, pos, token), token)
    BY <1>2, <1>3, <1>5
  <2>3. pos \in 0..Len(chunk)
    BY <1>0, GetLemma
  <2>4. answer.chunk = Spliced(chunk, pos, token) /\ token = answer.insert
    BY <2>2, AnswerFields
  <2>5. /\ answer.chunk \in Chunk /\ Len(answer.chunk) = Len(chunk) + 1
        /\ TakenFrom(answer, BytesOf(chunk) \union {b}) /\ HeadInsertTail(chunk, answer)
    BY <1>1, <2>3, <2>4, SplicedAnswer
  <2>6. Len(chunk) <= max => Len(chunk) + 1 <= max
    <3> SUFFICES ASSUME Len(chunk) <= max
                 PROVE  Len(chunk) # max
      BY <1>0
    <3>1. 0 % SizeMod = 0
      BY <1>0
    <3> QED
      BY <1>0, <2>1, <3>1
  <2> QED
    BY <2>5, <2>6 DEF Fits
<1> QED
  BY <1>4, <1>5

LEMMA ProcessorsLemma ==
    ASSUME NEW op \in DOMAIN Processors, NEW f \in Processors[op]
    PROVE  \A b \in Byte : f[b] \in Byte
<1>0. Byte = SUBSET Bit /\ Width \in Nat
  BY Constants
<1>1. CASE op = "And"
  <2>1. PICK m \in Byte : f = [b \in Byte |-> b \cap m]
    BY <1>1 DEF Processors
  <2> QED
    BY <1>0, <2>1
<1>2. CASE op = "Or"
  <2>1. PICK m \in Byte : f = [b \in Byte |-> b \union m]
    BY <1>2 DEF Processors
  <2> QED
    BY <1>0, <2>1
<1>3. CASE op = "Xor"
  <2>1. PICK m \in Byte : f = [b \in Byte |-> (b \ m) \union (m \ b)]
    BY <1>3 DEF Processors
  <2> QED
    BY <1>0, <2>1
<1>4. CASE op = "Not"
  <2>1. f = [b \in Byte |-> Bit \ b]
    BY <1>4 DEF Processors
  <2> QED
    BY <1>0, <2>1
<1>5. CASE op = "ShiftLeft"
  <2>1. PICK n \in ShiftBy : f = [b \in Byte |-> {i \in Bit : i - n \in b}]
    BY <1>5 DEF Processors
  <2> QED
    BY <1>0, <2>1
<1>6. CASE op = "ShiftRight"
  <2>1. PICK n \in ShiftBy : f = [b \in Byte |-> {i \in Bit : i + n \in b}]
    BY <1>6 DEF Processors
  <2> QED
    BY <1>0, <2>1
<1>7. CASE op = "ChangeBit"
  <2>1. PICK i \in Bit : f = [b \in Byte |-> (b \ {i}) \union ({i} \ b)]
    BY <1>7 DEF Processors
  <2> QED
    BY <1>0, <2>1
<1>8. CASE op = "ChangeByte"
  <2>1. PICK m \in Byte : f = [b \in Byte |-> m]
    BY <1>8 DEF Processors
  <2> QED
    BY <2>1
<1>9. CASE op = "ReverseByte"
  <2>1. f = [b \in Byte |-> {Width - 1 - i : i \in b}]
    BY <1>9 DEF Processors
  <2>2. \A i \in Bit : Width - 1 - i \in Bit
    BY <1>0 DEF Bit
  <2> QED
    BY <1>0, <2>1, <2>2
<1>10. op \in {"And", "Or", "Xor", "Not", "ShiftLeft", "ShiftRight", "ChangeBit", "ChangeByte", "ReverseByte"}
  BY DEF Processors
<1> QED
  BY <1>1, <1>2, <1>3, <1>4, <1>5, <1>6, <1>7, <1>8, <1>9, <1>10

LEMMA RangedLemma ==
    ASSUME NEW chunk \in Chunk, NEW max \in Nat, NEW op \in DOMAIN Processors, NEW ranged \in BOOLEAN,
           NEW answer \in Ranged(op, ranged, chunk)
    PROVE  Fits(chunk, max, answer)
<1>0. Len(chunk) \in Nat
  BY DEF Chunk
<1>1. CASE chunk = <<>>
  BY <1>1, UnchangedLemma DEF Ranged
<1>2. CASE chunk # <<>>
  <2> DEFINE Out(f, range) == [i \in 1..Len(chunk) |->
                 IF i \in (range.first + 1)..(range.first + range.second) THEN f[chunk[i]] ELSE chunk[i]]
  <2>1. PICK f \in Processors[op] : \E range \in GetRange(Len(chunk), ranged) : answer = Unchanged(Out(f, range))
    BY <1>2 DEF Ranged
  <2>2. PICK range \in GetRange(Len(chunk), ranged) : answer = Unchanged(Out(f, range))
    BY <2>1
  <2> DEFINE out == Out(f, range)
  <2>3. \A i \in 1..Len(chunk) : out[i] \in Byte
    <3>1. \A i \in 1..Len(chunk) : out[i] = f[chunk[i]] \/ out[i] = chunk[i]
      OBVIOUS
    <3>2. \A i \in 1..Len(chunk) : chunk[i] \in Byte /\ f[chunk[i]] \in Byte
      BY <2>1, InByteOf, ProcessorsLemma
    <3> HIDE DEF out
    <3> QED
      BY <3>1, <3>2
  <2>4. out = [i \in 1..Len(chunk) |-> out[i]]
    OBVIOUS
  <2>5. answer.chunk = out
    BY <2>2, AnswerFields DEF Unchanged
  <2> HIDE DEF out
  <2>6. out \in Chunk /\ Len(out) = Len(chunk)
    BY <1>0, <2>3, <2>4, ByIndex
  <2> QED
    BY <2>5, <2>6 DEF Fits
<1> QED
  BY <1>1, <1>2
-----------------------------------------------------------------------------
(***************************************************************************)
(* What feeds them.                                                        *)
(***************************************************************************)
LEMMA GetRandomLemma ==
    ASSUME NEW in \in Input, NEW chunk \in GetRandom(in)
    PROVE  chunk \in Chunk
<1>0. Len(in) \in Nat
  BY DEF Input
<1>1. CASE in = <<>>
  BY <1>1, EmptySeq DEF GetRandom, Chunk
<1>2. CASE in # <<>>
  <2>1. PICK k \in Get(Len(in) - 1) : chunk = InputGet(in, k)
    BY <1>2 DEF GetRandom
  <2>2. Len(in) - 1 \in Nat
    BY <1>0, <1>2, EmptySeq DEF Input
  <2>3. k \in Nat
    BY <2>2, GetLemma
  <2> QED
    BY <2>1, <2>3, InputGetLemma
<1> QED
  BY <1>1, <1>2

LEMMA FeedLemma ==
    ASSUME TypeOK
    PROVE  CorpusChunks \subseteq Chunk /\ LoadedChunks \subseteq Chunk /\ TokenBytes \subseteq Byte
<1>1. CorpusChunks \subseteq Chunk
  <2>1. \A c \in 1..Len(corpus) : corpus[c] \in Input
    BY DEF TypeOK
  <2> QED
    BY <2>1, GetRandomLemma DEF CorpusChunks
<1>2. LoadedChunks \subseteq Chunk
  BY LoadedAssumption, GetRandomLemma DEF LoadedChunks, Input, Chunk
<1>3. TokenBytes \subseteq Byte
  BY Constants DEF TokenBytes, LowByte
<1> QED
  BY <1>1, <1>2, <1>3

(* What each group of mutators answers. *)
LEMMA RearrangingLemma ==
    ASSUME NEW chunk \in Chunk, NEW max \in Nat, NEW answer \in Rearranging(chunk, max)
    PROVE  Fits(chunk, max, answer) /\ TakenFrom(answer, BytesOf(chunk))
  BY EraseBytesLemma, ShuffleBytesLemma, CopyPartLemma DEF Rearranging

LEMMA GrowingLemma ==
    ASSUME NEW chunk \in Chunk, NEW max \in Nat, NEW answer \in Growing(chunk, max)
    PROVE  Fits(chunk, max, answer) /\ HeadInsertTail(chunk, answer)
  BY InsertByteLemma, InsertRepeatedBytesLemma DEF Growing

LEMMA CrossingLemma ==
    ASSUME TypeOK, NEW chunk \in Chunk, NEW max \in Nat, NEW answer \in Crossing(chunk, max)
    PROVE  /\ Fits(chunk, max, answer) /\ HeadInsertTail(chunk, answer)
           /\ TakenFrom(answer, BytesOf(chunk) \union UNION {BytesOf(c) : c \in CorpusChunks})
<1>1. PICK other \in CorpusChunks : answer \in CrossOver(chunk, other, max)
  BY DEF Crossing
<1>2. other \in Chunk
  BY FeedLemma
<1>3. /\ Fits(chunk, max, answer) /\ TakenFrom(answer, BytesOf(chunk) \union BytesOf(other))
      /\ HeadInsertTail(chunk, answer)
  BY <1>1, <1>2, CrossOverLemma
<1> QED
  BY <1>3 DEF TakenFrom

LEMMA CompletingLemma ==
    ASSUME TypeOK, NEW chunk \in Chunk, NEW max \in 0..MaxChunkLen, NEW answer \in Completing(chunk, max)
    PROVE  /\ Fits(chunk, max, answer) /\ HeadInsertTail(chunk, answer)
           /\ TakenFrom(answer, BytesOf(chunk) \union TokenBytes)
<1>1. PICK token \in Tokens : answer \in InsertDictionary(chunk, token, max)
  BY DEF Completing
<1>2. PICK b \in TokenBytes : token = <<b>>
  BY DEF Tokens
<1>3. b \in Byte
  BY FeedLemma
<1>4. /\ Fits(chunk, max, answer) /\ TakenFrom(answer, BytesOf(chunk) \union {b})
      /\ HeadInsertTail(chunk, answer)
  BY <1>1, <1>2, <1>3, InsertDictionaryLemma
<1> QED
  BY <1>4 DEF TakenFrom

LEMMA ChangingLemma ==
    ASSUME NEW chunk \in Chunk, NEW max \in Nat, NEW answer \in Changing(chunk)
    PROVE  Fits(chunk, max, answer)
<1>1. PICK op \in DOMAIN Processors, ranged \in BOOLEAN : answer \in Ranged(op, ranged, chunk)
  BY DEF Changing
<1> QED
  BY <1>1, RangedLemma

LEMMA CopyingLemma ==
    ASSUME TypeOK, NEW answer \in Copying
    PROVE  answer.chunk \in Chunk
<1>1. PICK other \in CorpusChunks \union LoadedChunks : answer \in Copy(other)
  BY DEF Copying
<1>2. other \in Chunk /\ answer = Answer(other, other)
  BY <1>1, FeedLemma DEF Copy
<1> QED
  BY <1>2, AnswerFields
-----------------------------------------------------------------------------
(***************************************************************************)
(* The invariant.                                                          *)
(***************************************************************************)
LEMMA LimitsAreBounds == WithinLimits(input) => LimitsKept
  BY DEF LimitsKept, Chunks, WithinLimits, Bounded

(* MutateChunk keeps the limits, whatever the mutator answered. *)
LEMMA StoreLemma ==
    ASSUME NEW in \in Input, WithinLimits(in),
           NEW k \in Nat, k <= MaxChunks, NEW max \in 0..MaxChunkLen,
           NEW answers, \A answer \in answers : answer.chunk \in Chunk,
           Store(in, k, max, answers)
    PROVE  input' \in Input /\ WithinLimits(input')
<1>0. max \in Nat /\ max <= MaxChunkLen /\ MaxChunkLen \in Nat /\ MaxChunks \in Nat
  BY Constants
<1>1. PICK answer \in answers : input' = MutateChunk(in, k, answer.chunk, max)
  BY DEF Store
<1>2. answer.chunk \in Chunk
  OBVIOUS
<1>3. \A mutated \in Chunk : MutateChunk(in, k, mutated, max) \in Input
  BY <1>0, InputClosed
<1>4. \A mutated \in Chunk : WithinLimits(MutateChunk(in, k, mutated, max))
  <2> DEFINE n == MaxChunks + 1
  <2>1. n \in Nat /\ k < n
    BY <1>0
  <2>2. Bounded(in, n, MaxChunkLen)
    BY DEF WithinLimits
  <2> HIDE DEF n
  <2>3. \A mutated \in Chunk : Bounded(MutateChunk(in, k, mutated, max), n, MaxChunkLen)
    BY <1>0, <2>1, <2>2, InputBounded
  <2> QED
    BY <2>3 DEF n, WithinLimits
<1> QED
  BY <1>1, <1>2, <1>3, <1>4

LEMMA MutateWithLemma ==
    ASSUME TypeOK, NEW in \in Input, WithinLimits(in),
           NEW k \in Nat, k <= MaxChunks, NEW max \in 0..MaxChunkLen,
           MutateWith(in, k, max)
    PROVE  /\ input' \in Input /\ WithinLimits(input')
           /\ UNCHANGED <<corpus, torc, compared>>
<1> DEFINE chunk == InputGet(in, k)
<1>0. max \in Nat
  BY Constants
<1>1. chunk \in Chunk
  BY InputGetLemma
<1>2. PICK answers : Store(in, k, max, answers) /\ \A answer \in answers : answer.chunk \in Chunk
  <2> HIDE DEF chunk
  <2>1. CASE Store(in, k, max, RandomBytes(chunk, max))
    BY <1>0, <1>1, <2>1, RandomBytesLemma DEF Fits
  <2>2. CASE Store(in, k, max, Growing(chunk, max))
    BY <1>0, <1>1, <2>2, GrowingLemma DEF Fits
  <2>3. CASE Store(in, k, max, Rearranging(chunk, max))
    BY <1>0, <1>1, <2>3, RearrangingLemma DEF Fits
  <2>4. CASE Store(in, k, max, Crossing(chunk, max))
    BY <1>0, <1>1, <2>4, CrossingLemma DEF Fits
  <2>5. CASE Store(in, k, max, Copying)
    BY <2>5, CopyingLemma
  <2>6. CASE Store(in, k, max, Completing(chunk, max))
    BY <1>1, <2>6, CompletingLemma DEF Fits
  <2>7. CASE Store(in, k, max, Changing(chunk))
    BY <1>0, <1>1, <2>7, ChangingLemma DEF Fits
  <2> QED
    BY <2>1, <2>2, <2>3, <2>4, <2>5, <2>6, <2>7 DEF MutateWith, chunk
<1>3. input' \in Input /\ WithinLimits(input')
  BY <1>2, StoreLemma
<1> QED
  BY <1>3 DEF MutateWith

LEMMA InitMutators == Init => MutatorsInv
<1> SUFFICES ASSUME Init
             PROVE  MutatorsInv
  OBVIOUS
<1>1. <<>> \in Input /\ WithinLimits(<<>>)
  BY Constants DEF Input, Chunk, WithinLimits, Bounded
<1>2. TypeOK
  <2>1. Zero \in Word /\ Zero \in Byte
    BY Constants DEF Zero, Word
  <2>2. torc \in [WordLength -> [Row -> Word \X Word]]
    BY <2>1 DEF Init
  <2>3. input \in Input /\ corpus \in Seq(Input) /\ compared \subseteq Byte
    BY <1>1, <2>1 DEF Init
  <2> QED
    BY <2>2, <2>3 DEF TypeOK
<1>3. WithinLimits(input)
  BY <1>1 DEF Init
<1>4. CorpusWithin
  BY <1>1 DEF Init, CorpusWithin
<1>5. TokensCompared
  <2>1. ASSUME NEW len \in WordLength, NEW row \in Row, NEW side \in {1, 2}
        PROVE  torc[len][row][side] = Zero
    BY DEF Init
  <2> QED
    BY <2>1 DEF TokensCompared, TokenBytes, Init, LowByte, Zero
<1> QED
  BY <1>2, <1>3, <1>4, <1>5 DEF MutatorsInv

LEMMA KeepLemma ==
    ASSUME MutatorsInv, Keep
    PROVE  MutatorsInv'
<1>1. corpus \in Seq(Input) /\ input \in Input /\ corpus' = Append(corpus, input)
  BY DEF Keep, MutatorsInv, TypeOK
<1>2. WithinLimits(input)
  BY DEF MutatorsInv
<1>3. /\ corpus' \in Seq(Input) /\ Len(corpus') = Len(corpus) + 1 /\ Len(corpus) \in Nat
      /\ \A c \in 1..Len(corpus) : corpus'[c] = corpus[c]
      /\ corpus'[Len(corpus) + 1] = input
  BY <1>1, AppendProperties
<1>4. CorpusWithin'
  <2>1. ASSUME NEW c \in 1..Len(corpus')
        PROVE  WithinLimits(corpus'[c])
    <3>1. c \in 1..Len(corpus) \/ c = Len(corpus) + 1
      BY <1>3
    <3> QED
      BY <1>2, <1>3, <3>1 DEF MutatorsInv, CorpusWithin
  <2> QED
    BY <2>1 DEF CorpusWithin
<1>5. TypeOK'
  BY <1>3 DEF Keep, MutatorsInv, TypeOK
<1>6. WithinLimits(input)' /\ TokensCompared'
  BY DEF Keep, MutatorsInv, WithinLimits, TokensCompared, TokenBytes
<1> QED
  BY <1>4, <1>5, <1>6 DEF MutatorsInv

LEMMA InsertTorcLemma ==
    ASSUME MutatorsInv, NEW cmp \in Compares, InsertTorc(cmp.arg1, cmp.arg2, cmp.len)
    PROVE  MutatorsInv'
<1> DEFINE A == cmp.arg1  B == cmp.arg2  len == cmp.len
           row == ((A \ B) \union (B \ A)) \cap Slots
<1>1. A \in Word /\ B \in Word /\ len \in WordLength /\ row \in Row
  BY MutatorsAssumption DEF Row
<1>2. torc' = [torc EXCEPT ![len][row] = <<A, B>>] /\ compared' = compared \union {LowByte(A), LowByte(B)}
      /\ UNCHANGED <<input, corpus>>
  BY DEF InsertTorc
<1>3. torc \in [WordLength -> [Row -> Word \X Word]] /\ compared \subseteq Byte
  BY DEF MutatorsInv, TypeOK
<1> HIDE DEF A, B, len, row
<1>4. LowByte(A) \in Byte /\ LowByte(B) \in Byte
  BY Constants DEF LowByte
<1>5. torc' \in [WordLength -> [Row -> Word \X Word]]
  BY <1>1, <1>2, <1>3
<1>6. ASSUME NEW l \in WordLength, NEW r \in Row, NEW side \in {1, 2}
      PROVE  LowByte(torc'[l][r][side]) \in compared'
  <2>1. CASE l = len /\ r = row
    <3>1. torc'[l][r] = <<A, B>>
      BY <1>1, <1>2, <1>3, <2>1
    <3>2. torc'[l][r][side] = A \/ torc'[l][r][side] = B
      BY <3>1
    <3> QED
      BY <1>2, <3>2
  <2>2. CASE ~(l = len /\ r = row)
    <3>1. torc'[l][r] = torc[l][r]
      BY <1>1, <1>2, <1>3, <2>2
    <3>2. LowByte(torc[l][r][side]) \in compared
      BY DEF MutatorsInv, TokensCompared, TokenBytes
    <3> QED
      BY <1>2, <3>1, <3>2
  <2> QED
    BY <2>1, <2>2
<1>7. TokensCompared'
  BY <1>6 DEF TokensCompared, TokenBytes
<1>8. TypeOK'
  BY <1>2, <1>3, <1>4, <1>5 DEF MutatorsInv, TypeOK
<1>9. WithinLimits(input)' /\ CorpusWithin'
  BY <1>2 DEF MutatorsInv, WithinLimits, CorpusWithin
<1> QED
  BY <1>7, <1>8, <1>9 DEF MutatorsInv

LEMMA NextMutators == MutatorsInv /\ [Next]_vars => MutatorsInv'
<1> SUFFICES ASSUME MutatorsInv, [Next]_vars
             PROVE  MutatorsInv'
  OBVIOUS
<1>0. /\ TypeOK /\ input \in Input /\ WithinLimits(input) /\ Len(input) \in Nat
      /\ MaxChunks \in Nat \ {0} /\ MaxChunkLen \in Nat /\ Len(input) <= MaxChunks + 1
      /\ \A max \in Limits : max \in 0..MaxChunkLen
  BY Constants DEF MutatorsInv, TypeOK, Input, WithinLimits, Bounded
<1>1. ASSUME input' \in Input, WithinLimits(input'), UNCHANGED <<corpus, torc, compared>>
      PROVE  MutatorsInv'
  <2>1. TypeOK'
    BY <1>1 DEF MutatorsInv, TypeOK
  <2>2. WithinLimits(input)'
    BY <1>1 DEF WithinLimits
  <2>3. CorpusWithin' /\ TokensCompared'
    BY <1>1 DEF MutatorsInv, CorpusWithin, TokensCompared, TokenBytes
  <2> QED
    BY <2>1, <2>2, <2>3 DEF MutatorsInv
<1>2. ASSUME NEW k \in 0..MaxChunks, NEW max \in Limits, Mutate(k, max)
      PROVE  MutatorsInv'
  <2>1. k \in Nat /\ k <= MaxChunks /\ MutateWith(input, k, max) /\ max \in 0..MaxChunkLen
    BY <1>0, <1>2 DEF Mutate
  <2> QED
    BY <1>0, <1>1, <2>1, MutateWithLemma
<1>3. ASSUME MutateRandom(MaxChunks)
      PROVE  MutatorsInv'
  <2>1. PICK in \in (IF input = <<>> \/ Len(input) < MaxChunks THEN {Append(input, <<>>)} ELSE {}) \union
                    (IF input = <<>> THEN {} ELSE {input}) :
            \E k \in Get(Len(in)) : MutateWith(in, k, MaxChunkLen)
    BY <1>3 DEF MutateRandom
  <2>2. PICK k \in Get(Len(in)) : MutateWith(in, k, MaxChunkLen)
    BY <2>1
  <2>3. in \in Input /\ WithinLimits(in) /\ Len(in) \in Nat /\ Len(in) > 0
    <3>1. CASE in = input /\ input # <<>>
      BY <1>0, <3>1, EmptySeq DEF Input
    <3>2. CASE in = Append(input, <<>>) /\ (input = <<>> \/ Len(input) < MaxChunks)
      <4>1. <<>> \in Chunk /\ Len(<<>>) = 0
        BY DEF Chunk
      <4>2. Len(input) < MaxChunks
        BY <1>0, <3>2
      <4>3. /\ in \in Input /\ Len(in) = Len(input) + 1
            /\ \A i \in 1..Len(input) : in[i] = input[i]
            /\ in[Len(input) + 1] = <<>>
        BY <1>0, <3>2, <4>1, AppendProperties DEF Input
      <4>4. \A i \in 1..Len(in) : i \in 1..Len(input) \/ i = Len(input) + 1
        BY <1>0, <4>3
      <4>5. \A i \in 1..Len(in) : Len(in[i]) <= MaxChunkLen
        BY <1>0, <4>1, <4>3, <4>4 DEF WithinLimits, Bounded
      <4> QED
        BY <1>0, <4>2, <4>3, <4>5 DEF WithinLimits, Bounded
    <3> QED
      BY <2>1, <3>1, <3>2
  <2>4. k \in Nat /\ k <= MaxChunks /\ MaxChunkLen \in 0..MaxChunkLen
    <3>1. k \in Nat /\ k < Len(in)
      BY <2>2, <2>3, GetLemma
    <3>2. Len(in) <= MaxChunks + 1
      BY <2>3 DEF WithinLimits, Bounded
    <3> QED
      BY <1>0, <2>3, <3>1, <3>2
  <2> QED
    BY <1>0, <1>1, <2>2, <2>3, <2>4, MutateWithLemma
<1>4. CASE Keep
  BY <1>4, KeepLemma
<1>5. ASSUME NEW c \in 1..Len(corpus), Pull(c)
      PROVE  MutatorsInv'
  <2>1. corpus[c] \in Input /\ WithinLimits(corpus[c])
    BY DEF MutatorsInv, TypeOK, CorpusWithin
  <2> QED
    BY <1>1, <1>5, <2>1 DEF Pull
<1>6. ASSUME NEW cmp \in Compares, InsertTorc(cmp.arg1, cmp.arg2, cmp.len)
      PROVE  MutatorsInv'
  BY <1>6, InsertTorcLemma
<1>7. CASE UNCHANGED vars
  BY <1>0, <1>1, <1>7 DEF vars
<1> QED
  BY <1>2, <1>3, <1>4, <1>5, <1>6, <1>7 DEF Next

LEMMA MutatorsInvariant == Spec => []MutatorsInv
  BY InitMutators, NextMutators, PTL DEF Spec

(* The state of a generator stays of its types: an input is one of chunks,  *)
(* and the tables of compares hold words whatever was compared.             *)
THEOREM MutatorsTypes == Spec => []TypeOK
<1>1. MutatorsInv => TypeOK
  BY DEF MutatorsInv
<1> QED
  BY <1>1, MutatorsInvariant, PTL

(* No sequence of mutators, requests, keeping and pulling makes a chunk     *)
(* outgrow --max-chunk-len (input.cpp:118).                                 *)
THEOREM LimitsHold == Spec => []LimitsKept
<1>1. MutatorsInv => LimitsKept
  BY LimitsAreBounds DEF MutatorsInv
<1> QED
  BY <1>1, MutatorsInvariant, PTL

LEMMA ChunksAreChunks ==
    ASSUME TypeOK, NEW chunk \in Chunks
    PROVE  chunk \in Chunk
  BY DEF Chunks, TypeOK, Input

(* A mutator that is given a chunk within a limit answers with one          *)
(* (tests/fuzzers/mutator.cpp:197).                                         *)
THEOREM AnswersAlwaysFit == Spec => []AnswersFit
<1>1. MutatorsInv => AnswersFit
  <2> SUFFICES ASSUME MutatorsInv, NEW chunk \in Chunks, NEW max \in Limits, Len(chunk) <= max,
                      NEW answer \in UNION {RandomBytes(chunk, max), Growing(chunk, max), Rearranging(chunk, max),
                             Crossing(chunk, max), Completing(chunk, max), Changing(chunk)}
               PROVE  Len(answer.chunk) <= max
    BY DEF AnswersFit
  <2>1. TypeOK /\ chunk \in Chunk /\ max \in 0..MaxChunkLen /\ max \in Nat
    BY ChunksAreChunks, Constants DEF MutatorsInv
  <2>2. Fits(chunk, max, answer)
    BY <2>1, RandomBytesLemma, GrowingLemma, RearrangingLemma, CrossingLemma, CompletingLemma, ChangingLemma
  <2> QED
    BY <2>2 DEF Fits
<1> QED
  BY <1>1, MutatorsInvariant, PTL

(* A mutator that draws no byte answers with none that was not in what it   *)
(* was given, or compared by the target (base.cpp:31).                      *)
THEOREM NothingIsInvented == Spec => []NothingInvented
<1>1. MutatorsInv => NothingInvented
  <2> SUFFICES ASSUME MutatorsInv, NEW chunk \in Chunks, NEW max \in Limits
               PROVE  /\ \A answer \in Rearranging(chunk, max) : BytesOf(answer.chunk) \subseteq BytesOf(chunk)
                      /\ \A answer \in Crossing(chunk, max) :
                            BytesOf(answer.chunk) \subseteq BytesOf(chunk) \union UNION {BytesOf(c) : c \in CorpusChunks}
                      /\ \A answer \in Completing(chunk, max) :
                            BytesOf(answer.chunk) \subseteq BytesOf(chunk) \union compared
    BY DEF NothingInvented
  <2>1. TypeOK /\ chunk \in Chunk /\ max \in 0..MaxChunkLen /\ max \in Nat /\ TokenBytes \subseteq compared
    BY ChunksAreChunks, Constants DEF MutatorsInv, TokensCompared
  <2>2. \A answer \in Rearranging(chunk, max) : TakenFrom(answer, BytesOf(chunk))
    BY <2>1, RearrangingLemma
  <2>3. \A answer \in Crossing(chunk, max) :
            TakenFrom(answer, BytesOf(chunk) \union UNION {BytesOf(c) : c \in CorpusChunks})
    BY <2>1, CrossingLemma
  <2>4. \A answer \in Completing(chunk, max) : TakenFrom(answer, BytesOf(chunk) \union TokenBytes)
    BY <2>1, CompletingLemma
  <2> QED
    BY <2>1, <2>2, <2>3, <2>4 DEF TakenFrom
<1> QED
  BY <1>1, MutatorsInvariant, PTL

(* What a mutator says it inserted is in its answer, between the head and   *)
(* the tail of the chunk, or over a part of it                              *)
(* (tests/fuzzers/mutator.cpp:25).                                          *)
THEOREM InsertedIsAlwaysThere == Spec => []InsertedIsThere
<1>1. MutatorsInv => InsertedIsThere
  <2> SUFFICES ASSUME MutatorsInv, NEW chunk \in Chunks, NEW max \in Limits,
                      NEW answer \in UNION {Growing(chunk, max), Crossing(chunk, max), Completing(chunk, max)}
               PROVE  HeadInsertTail(chunk, answer)
    BY DEF InsertedIsThere
  <2>1. TypeOK /\ chunk \in Chunk /\ max \in 0..MaxChunkLen /\ max \in Nat
    BY ChunksAreChunks, Constants DEF MutatorsInv
  <2> QED
    BY <2>1, GrowingLemma, CrossingLemma, CompletingLemma
<1> QED
  BY <1>1, MutatorsInvariant, PTL
=============================================================================
