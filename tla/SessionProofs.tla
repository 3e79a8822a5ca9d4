--------------------------- MODULE SessionProofs ---------------------------
(***************************************************************************)
(* The files of a campaign: first their format, a cluster is what is       *)
(* parsed from its file and from no part of its file; then what holds of   *)
(* every session over them, however the sessions before it ended.          *)
(***************************************************************************)
EXTENDS Session, Inductions, SequenceTheorems

(***************************************************************************)
(* Words.                                                                  *)
(***************************************************************************)

LEMMA Places ==
    /\ PlaceValue \in [0..WordBytes -> Nat]
    /\ PlaceValue[0] = 1
    /\ \A i \in 1..WordBytes : PlaceValue[i] = Radix * PlaceValue[i - 1]
    /\ \A i \in 0..WordBytes : PlaceValue[i] > 0
<1> DEFINE step == [p \in Nat \X (1..WordBytes) |-> Radix * p[1]]
           Def(f) == [i \in 0..WordBytes |-> IF i = 0 THEN 1 ELSE Radix * f[i - 1]]
<1>0. WordBytes \in Nat /\ Radix \in Nat /\ Radix > 1
  BY FormatAssumption
<1>1. IsStep(step, WordBytes, Nat)
  BY <1>0 DEF IsStep
<1>2. \A v \in Nat, i \in 1..WordBytes : step[<<v, i>>] = Radix * v
  OBVIOUS
<1> HIDE DEF step
<1>3. PICK g : Follows(g, WordBytes, Nat, 1, step)
  <2>1. 1 \in Nat
    OBVIOUS
  <2> QED
    BY <1>0, <1>1, <2>1, Recursion
<1>4. g = Def(g)
  <2>1. ASSUME NEW i \in 1..WordBytes
        PROVE  g[i] = Radix * g[i - 1]
    <3>1. i - 1 \in 0..WordBytes
      BY <1>0
    <3>2. g[i - 1] \in Nat
      BY <1>3, <3>1 DEF Follows
    <3>3. step[<<g[i - 1], i>>] = Radix * g[i - 1]
      BY <1>2, <3>2
    <3> QED
      BY <1>3, <3>3 DEF Follows
  <2> QED
    BY <1>3, <2>1 DEF Follows
<1>5. PlaceValue = Def(PlaceValue)
  BY <1>4 DEF PlaceValue
<1>6. /\ PlaceValue[0] = 1
      /\ \A i \in 1..WordBytes : PlaceValue[i] = Radix * PlaceValue[i - 1]
      /\ PlaceValue = [i \in 0..WordBytes |-> PlaceValue[i]]
  BY <1>0, <1>5
<1> DEFINE T == {i \in 0..WordBytes : PlaceValue[i] \in Nat /\ PlaceValue[i] > 0}
<1>7. 0 \in T
  BY <1>0, <1>6
<1>8. ASSUME NEW i \in 1..WordBytes, i - 1 \in T
      PROVE  i \in T
  <2>1. PlaceValue[i - 1] \in Nat /\ PlaceValue[i - 1] > 0 /\ PlaceValue[i] = Radix * PlaceValue[i - 1]
    BY <1>6, <1>8
  <2>2. \A x, y \in Nat : x > 0 /\ y > 0 => x * y \in Nat /\ x * y > 0
    OBVIOUS
  <2> QED
    BY <1>0, <2>1, <2>2
<1>9. 0..WordBytes \subseteq T
  <2> HIDE DEF T
  <2> QED
    BY <1>0, <1>7, <1>8, UpTo
<1> QED
  BY <1>6, <1>9

LEMMA DivisionTwice ==
    ASSUME NEW n \in Nat, NEW a \in Nat \ {0}, NEW b \in Nat \ {0}
    PROVE  n \div (b * a) = (n \div a) \div b
<1> DEFINE q == n \div a  r == n % a  p == q \div b  d == q % b
<1>1. q \in Nat /\ r \in 0..(a - 1) /\ n = q * a + r
  OBVIOUS
<1>2. p \in Nat /\ d \in 0..(b - 1) /\ q = p * b + d
  <2> HIDE DEF q
  <2> QED
    BY <1>1
<1> HIDE DEF q, r, p, d
<1>3. b * a \in Nat \ {0}
  OBVIOUS
<1>4. d * a + r \in 0..(b * a - 1)
  <2>1. d * a <= (b - 1) * a
    BY <1>2
  <2>2. (b - 1) * a = b * a - a
    OBVIOUS
  <2>3. d * a \in Nat
    BY <1>2
  <2> QED
    BY <1>1, <1>3, <2>1, <2>2, <2>3
<1>5. n = p * (b * a) + (d * a + r)
  BY <1>1, <1>2
<1>6. \A m \in Nat \ {0} : \A x \in Nat : \A y \in 0..(m - 1) : (x * m + y) \div m = x
  OBVIOUS
<1>7. n \div (b * a) = p
  BY <1>2, <1>3, <1>4, <1>5, <1>6
<1> QED
  BY <1>7 DEF p, q

LEMMA WordType ==
    ASSUME NEW n \in Nat
    PROVE  /\ WordOf(n) \in Seq(FileByte)
           /\ Len(WordOf(n)) = WordBytes
           /\ \A i \in 1..WordBytes : WordOf(n)[i] \in Nat /\ WordOf(n)[i] = (n \div PlaceValue[i - 1]) % Radix
<1>0. WordBytes \in Nat /\ Radix \in Nat /\ Radix > 1
  BY FormatAssumption
<1>1. ASSUME NEW i \in 1..WordBytes
      PROVE  (n \div PlaceValue[i - 1]) % Radix \in FileByte
  <2>1. i - 1 \in 0..WordBytes
    BY <1>0
  <2>2. PlaceValue[i - 1] \in Nat /\ PlaceValue[i - 1] > 0
    BY <2>1, Places
  <2>3. n \div PlaceValue[i - 1] \in Nat
    BY <2>2
  <2> QED
    BY <1>0, <2>3 DEF FileByte
<1>2. WordOf(n) \in [1..WordBytes -> FileByte]
  BY <1>1 DEF WordOf
<1>3. FileByte \subseteq Nat
  BY <1>0 DEF FileByte
<1>4. WordOf(n) \in Seq(FileByte) /\ Len(WordOf(n)) = WordBytes
  BY <1>0, <1>2
<1>5. \A i \in 1..WordBytes : WordOf(n)[i] = (n \div PlaceValue[i - 1]) % Radix
  BY DEF WordOf
<1> QED
  BY <1>2, <1>3, <1>4, <1>5

LEMMA WordRoundTrip ==
    ASSUME NEW n \in Nat, n < WordLimit
    PROVE  NumberOf(WordOf(n)) = n
<1> DEFINE w == WordOf(n)
           Def(f) == [i \in 0..WordBytes |-> IF i = 0 THEN 0 ELSE f[i - 1] + w[i] * PlaceValue[i - 1]]
           low == CHOOSE f : f = Def(f)
           step == [p \in Nat \X (1..WordBytes) |-> p[1] + w[p[2]] * PlaceValue[p[2] - 1]]
<1>0. WordBytes \in Nat /\ Radix \in Nat /\ Radix > 1
  BY FormatAssumption
<1>1. \A i \in 1..WordBytes : /\ w[i] \in Nat /\ w[i] = (n \div PlaceValue[i - 1]) % Radix
                              /\ PlaceValue[i - 1] \in Nat /\ PlaceValue[i - 1] > 0
                              /\ PlaceValue[i] = Radix * PlaceValue[i - 1]
                              /\ i - 1 \in 0..WordBytes
  <2>1. \A i \in 1..WordBytes : i - 1 \in 0..WordBytes
    BY <1>0
  <2> QED
    BY <2>1, WordType, Places
<1> HIDE DEF w
<1>2. IsStep(step, WordBytes, Nat)
  <2>1. ASSUME NEW v \in Nat, NEW i \in 1..WordBytes
        PROVE  v + w[i] * PlaceValue[i - 1] \in Nat
    BY <1>1
  <2> QED
    BY <2>1 DEF IsStep
<1>3. \A v \in Nat, i \in 1..WordBytes : step[<<v, i>>] = v + w[i] * PlaceValue[i - 1]
  OBVIOUS
<1> HIDE DEF step
<1>4. PICK g : Follows(g, WordBytes, Nat, 0, step)
  <2>1. 0 \in Nat
    OBVIOUS
  <2> QED
    BY <1>0, <1>2, <2>1, Recursion
<1>5. g = Def(g)
  <2>1. ASSUME NEW i \in 1..WordBytes
        PROVE  g[i] = g[i - 1] + w[i] * PlaceValue[i - 1]
    <3>1. g[i - 1] \in Nat
      BY <1>1, <1>4 DEF Follows
    <3> QED
      BY <1>3, <1>4, <3>1 DEF Follows
  <2> QED
    BY <1>4, <2>1 DEF Follows
<1>6. low = Def(low)
  BY <1>5
<1>7. NumberOf(w) = low[WordBytes]
  BY DEF NumberOf
<1> HIDE DEF low
<1>8. /\ low[0] = 0
      /\ \A i \in 1..WordBytes : low[i] = low[i - 1] + w[i] * PlaceValue[i - 1]
  BY <1>0, <1>6
<1> DEFINE T == {i \in 0..WordBytes :
                    low[i] \in Nat /\ n = low[i] + PlaceValue[i] * (n \div PlaceValue[i])}
<1>9. 0 \in T
  BY <1>0, <1>8, Places
<1>10. ASSUME NEW i \in 1..WordBytes, i - 1 \in T
       PROVE  i \in T
  <2> DEFINE p == PlaceValue[i - 1]  q == n \div p  l == low[i - 1]
  <2>1. /\ p \in Nat \ {0} /\ l \in Nat /\ n = l + p * q
        /\ low[i] = l + w[i] * p /\ w[i] = q % Radix /\ PlaceValue[i] = Radix * p
    BY <1>1, <1>8, <1>10
  <2>2. n \div PlaceValue[i] = q \div Radix
    <3>1. n \div (Radix * p) = (n \div p) \div Radix
      BY <1>0, <2>1, DivisionTwice
    <3> QED
      BY <2>1, <3>1
  <2>3. q \in Nat
    BY <2>1
  <2> HIDE DEF p, q, l
  <2>4. q = Radix * (q \div Radix) + (q % Radix) /\ q \div Radix \in Nat /\ q % Radix \in Nat
    BY <1>0, <2>3
  <2> DEFINE h == q \div Radix  d == q % Radix
  <2>5. low[i] = l + d * p /\ n = l + p * q /\ q = Radix * h + d /\ h \in Nat /\ d \in Nat
    <3>1. low[i] = l + (q % Radix) * p
      BY <2>1
    <3> QED
      BY <2>1, <2>4, <3>1
  <2>6. n \div PlaceValue[i] = h /\ PlaceValue[i] = Radix * p
    BY <2>1, <2>2
  <2> HIDE DEF h, d
  <2>7. p * q = p * (Radix * h) + p * d
    BY <1>0, <2>1, <2>3, <2>5
  <2>8. p * (Radix * h) = (Radix * p) * h /\ p * d = d * p /\ d * p \in Nat
    BY <1>0, <2>1, <2>5
  <2>9. low[i] \in Nat /\ n = low[i] + (Radix * p) * h
    <3> DEFINE x == (Radix * p) * h  y == d * p
    <3>1. x \in Nat /\ y \in Nat /\ l \in Nat
      BY <1>0, <2>1, <2>5
    <3>2. low[i] = l + y /\ n = l + (x + y)
      BY <2>5, <2>7, <2>8
    <3> HIDE DEF x, y
    <3>3. low[i] \in Nat /\ n = low[i] + x
      <4>1. l + (x + y) = (l + y) + x /\ l + y \in Nat
        BY <3>1
      <4> QED
        BY <3>2, <4>1
    <3> QED
      BY <3>3 DEF x
  <2> QED
    BY <1>0, <2>6, <2>9
<1>11. WordBytes \in T
  <2> HIDE DEF T
  <2>1. 0..WordBytes \subseteq T
    BY <1>0, <1>9, <1>10, UpTo
  <2> QED
    BY <1>0, <2>1
<1>12. n \div WordLimit = 0
  <2>1. WordLimit \in Nat /\ WordLimit > 0
    BY <1>0, Places DEF WordLimit
  <2> QED
    BY <2>1
<1> QED
  BY <1>0, <1>7, <1>11, <1>12, Places DEF WordLimit, w
-----------------------------------------------------------------------------
(***************************************************************************)
(* The cursor.  A part of a file is its bytes after the first p, up to the *)
(* l-th: what is left of a file that was cut after l bytes, of which p are *)
(* parsed.                                                                 *)
(***************************************************************************)
Part(s, p, l) == SubSeq(s, p + 1, l)

(* The bytes b come after the first p of s. *)
Holds(s, p, b) == p + Len(b) <= Len(s) /\ \A k \in 1..Len(b) : s[p + k] = b[k]

LEMMA Joined ==
    ASSUME NEW a \in Seq(FileByte), NEW b \in Seq(FileByte), NEW c \in Seq(FileByte)
    PROVE  (a \o b) \o c = a \o (b \o c)
  BY ConcatAssociative

LEMMA HeldPart ==
    ASSUME NEW s \in Seq(FileByte), NEW b \in Seq(FileByte), NEW p \in Nat, Holds(s, p, b)
    PROVE  Part(s, p, p + Len(b)) = b
<1>1. Len(b) \in Nat /\ Len(s) \in Nat /\ p + Len(b) <= Len(s)
  BY DEF Holds
<1>2. /\ Part(s, p, p + Len(b)) \in Seq(FileByte)
      /\ Len(Part(s, p, p + Len(b))) = Len(b)
      /\ \A k \in 1..Len(b) : Part(s, p, p + Len(b))[k] = s[p + k]
  BY <1>1 DEF Part
<1>3. \A k \in 1..Len(b) : Part(s, p, p + Len(b))[k] = b[k]
  BY <1>2 DEF Holds
<1> QED
  BY <1>2, <1>3

LEMMA HeldTwo ==
    ASSUME NEW s \in Seq(FileByte), NEW a \in Seq(FileByte), NEW b \in Seq(FileByte),
           NEW p \in Nat, Holds(s, p, a \o b)
    PROVE  Holds(s, p, a) /\ Holds(s, p + Len(a), b)
<1>1. /\ Len(a) \in Nat /\ Len(b) \in Nat /\ Len(s) \in Nat /\ Len(a \o b) = Len(a) + Len(b)
      /\ \A k \in 1..Len(a) : (a \o b)[k] = a[k]
      /\ \A k \in 1..Len(b) : (a \o b)[Len(a) + k] = b[k]
  OBVIOUS
<1>2. Holds(s, p, a)
  BY <1>1 DEF Holds
<1>3. Holds(s, p + Len(a), b)
  <2>1. ASSUME NEW k \in 1..Len(b)
        PROVE  s[p + Len(a) + k] = b[k]
    <3>1. Len(a) + k \in 1..Len(a \o b) /\ p + (Len(a) + k) = p + Len(a) + k
      BY <1>1
    <3>2. s[p + (Len(a) + k)] = (a \o b)[Len(a) + k]
      BY <3>1 DEF Holds
    <3> QED
      BY <1>1, <3>1, <3>2
  <2> QED
    BY <1>1, <2>1 DEF Holds
<1> QED
  BY <1>2, <1>3

LEMMA HeldLonger ==
    ASSUME NEW s \in Seq(FileByte), NEW t \in Seq(FileByte), NEW b \in Seq(FileByte),
           NEW p \in Nat, Holds(s, p, b)
    PROVE  Holds(s \o t, p, b)
<1>1. /\ Len(s) \in Nat /\ Len(t) \in Nat /\ Len(b) \in Nat /\ Len(s \o t) = Len(s) + Len(t)
      /\ \A k \in 1..Len(s) : (s \o t)[k] = s[k]
  OBVIOUS
<1> QED
  BY <1>1 DEF Holds

(* A file written piece by piece holds every piece where it was appended.   *)
LEMMA PiecesHeld ==
    ASSUME NEW n \in Nat, NEW upto \in [0..n -> Seq(FileByte)], NEW piece \in [1..n -> Seq(FileByte)],
           \A i \in 1..n : upto[i] = upto[i - 1] \o piece[i]
    PROVE  /\ Holds(upto[n], 0, upto[0])
           /\ \A i \in 1..n : Holds(upto[n], Len(upto[i - 1]), piece[i])
           /\ \A i \in 1..n : Len(upto[i]) = Len(upto[i - 1]) + Len(piece[i])
<1> DEFINE T == {j \in 0..n : /\ Holds(upto[j], 0, upto[0])
                              /\ \A i \in 1..j : Holds(upto[j], Len(upto[i - 1]), piece[i])}
<1>1. 0 \in T
  <2>1. 0 \in 0..n /\ upto[0] \in Seq(FileByte)
    OBVIOUS
  <2>2. Holds(upto[0], 0, upto[0])
    BY <2>1 DEF Holds
  <2> QED
    BY <2>1, <2>2
<1>2. ASSUME NEW j \in 1..n, j - 1 \in T
      PROVE  j \in T
  <2>1. /\ j - 1 \in 0..n /\ upto[j - 1] \in Seq(FileByte) /\ piece[j] \in Seq(FileByte)
        /\ upto[j] = upto[j - 1] \o piece[j]
    OBVIOUS
  <2>2. Holds(upto[j], 0, upto[0])
    BY <1>2, <2>1, HeldLonger
  <2>3. ASSUME NEW i \in 1..j
        PROVE  Holds(upto[j], Len(upto[i - 1]), piece[i])
    <3>1. CASE i = j
      BY <2>1, <3>1 DEF Holds
    <3>2. CASE i # j
      <4>1. i \in 1..(j - 1) /\ i \in 1..n /\ i - 1 \in 0..n
        BY <3>2
      <4>2. Len(upto[i - 1]) \in Nat /\ piece[i] \in Seq(FileByte)
        BY <4>1
      <4>3. Holds(upto[j - 1], Len(upto[i - 1]), piece[i])
        BY <1>2, <4>1
      <4> QED
        BY <2>1, <4>2, <4>3, HeldLonger
    <3> QED
      BY <3>1, <3>2
  <2> QED
    BY <2>2, <2>3
<1>3. n \in T
  <2> HIDE DEF T
  <2>1. 0..n \subseteq T
    BY <1>1, <1>2, UpTo
  <2> QED
    BY <2>1
<1>4. ASSUME NEW i \in 1..n
      PROVE  Len(upto[i]) = Len(upto[i - 1]) + Len(piece[i])
  <2>1. i - 1 \in 0..n /\ upto[i] = upto[i - 1] \o piece[i]
    OBVIOUS
  <2>2. upto[i - 1] \in Seq(FileByte) /\ piece[i] \in Seq(FileByte)
    BY <2>1
  <2>3. Len(upto[i - 1] \o piece[i]) = Len(upto[i - 1]) + Len(piece[i])
    BY <2>2
  <2> QED
    BY <2>1, <2>3
<1> QED
  BY <1>3, <1>4

LEMMA PartProperties ==
    ASSUME NEW s \in Seq(FileByte), NEW l \in 0..Len(s), NEW p \in 0..l
    PROVE  /\ Part(s, p, l) \in Seq(FileByte)
           /\ Len(Part(s, p, l)) = l - p
           /\ \A k \in 1..(l - p) : Part(s, p, l)[k] = s[p + k]
  BY DEF Part

LEMMA SameBytes ==
    ASSUME NEW a \in Seq(FileByte), NEW b \in Seq(FileByte), Len(a) = Len(b),
           \A k \in 1..Len(b) : a[k] = b[k]
    PROVE  a = b
  OBVIOUS

LEMMA PartOfPart ==
    ASSUME NEW s \in Seq(FileByte), NEW l \in 0..Len(s), NEW p \in 0..l,
           NEW b \in 0..(l - p), NEW a \in 0..b
    PROVE  Part(Part(s, p, l), a, b) = Part(s, p + a, p + b)
<1> DEFINE w == Part(s, p, l)
<1>1. Len(s) \in Nat
  OBVIOUS
<1>2. w \in Seq(FileByte) /\ Len(w) = l - p /\ \A k \in 1..(l - p) : w[k] = s[p + k]
  BY PartProperties
<1> HIDE DEF w
<1>3. b \in 0..Len(w) /\ p + b \in 0..Len(s) /\ p + a \in 0..(p + b)
  BY <1>1, <1>2
<1>4. Part(w, a, b) \in Seq(FileByte) /\ Len(Part(w, a, b)) = b - a
      /\ \A k \in 1..(b - a) : Part(w, a, b)[k] = w[a + k]
  BY <1>2, <1>3, PartProperties
<1>5. Part(s, p + a, p + b) \in Seq(FileByte) /\ Len(Part(s, p + a, p + b)) = (p + b) - (p + a)
      /\ \A k \in 1..((p + b) - (p + a)) : Part(s, p + a, p + b)[k] = s[p + a + k]
  BY <1>3, PartProperties
<1>6. (p + b) - (p + a) = b - a
  OBVIOUS
<1>7. ASSUME NEW k \in 1..(b - a)
      PROVE  Part(w, a, b)[k] = Part(s, p + a, p + b)[k]
  <2>1. a + k \in 1..(l - p) /\ p + (a + k) = p + a + k
    OBVIOUS
  <2> QED
    BY <1>2, <1>4, <1>5, <1>6, <2>1
<1>8. Part(w, a, b) = Part(s, p + a, p + b)
  BY <1>4, <1>5, <1>6, <1>7, SameBytes
<1> QED
  BY <1>8 DEF w

LEMMA TakePart ==
    ASSUME NEW s \in Seq(FileByte), NEW l \in 0..Len(s), NEW p \in 0..l, NEW n \in Nat
    PROVE  Take(Part(s, p, l), n) = IF p + n <= l
                                    THEN Cursor(TRUE, Part(s, p + n, l), Part(s, p, p + n))
                                    ELSE Thrown
<1>1. Len(s) \in Nat /\ Len(Part(s, p, l)) = l - p
  <2>1. Len(Part(s, p, l)) = l - p
    BY PartProperties
  <2> QED
    BY <2>1
<1>2. CASE p + n <= l
  <2>1. n \in 0..(l - p) /\ l - p \in 0..(l - p) /\ 0 \in 0..n /\ p + (l - p) = l /\ p + 0 = p
    BY <1>1, <1>2
  <2>2. Part(Part(s, p, l), n, l - p) = Part(s, p + n, l)
    BY <2>1, PartOfPart
  <2>3. Part(Part(s, p, l), 0, n) = Part(s, p, p + n)
    BY <2>1, PartOfPart
  <2>4. ~(l - p < n) /\ 0 + 1 = 1
    BY <1>2
  <2>5. Take(Part(s, p, l), n) = Cursor(TRUE, Part(Part(s, p, l), n, l - p), SubSeq(Part(s, p, l), 1, n))
    BY <1>1, <2>4 DEF Take, Part
  <2>6. SubSeq(Part(s, p, l), 1, n) = Part(Part(s, p, l), 0, n)
    BY <2>4 DEF Part
  <2> QED
    BY <1>2, <2>2, <2>3, <2>5, <2>6
<1>3. CASE ~(p + n <= l)
  <2>1. l - p < n
    BY <1>1, <1>3
  <2> QED
    BY <1>1, <1>3, <2>1 DEF Take
<1> QED
  BY <1>2, <1>3

LEMMA TakeWordPart ==
    ASSUME NEW s \in Seq(FileByte), NEW l \in 0..Len(s), NEW p \in 0..l,
           NEW n \in Nat, n < WordLimit, Holds(s, p, WordOf(n))
    PROVE  TakeWord(Part(s, p, l)) = IF p + WordBytes <= l
                                     THEN Cursor(TRUE, Part(s, p + WordBytes, l), n)
                                     ELSE Thrown
<1> DEFINE word == Take(Part(s, p, l), WordBytes)
<1>0. WordBytes \in Nat
  BY FormatAssumption
<1>1. word = IF p + WordBytes <= l
             THEN Cursor(TRUE, Part(s, p + WordBytes, l), Part(s, p, p + WordBytes))
             ELSE Thrown
  BY <1>0, TakePart
<1>2. Part(s, p, p + WordBytes) = WordOf(n)
  <2>1. WordOf(n) \in Seq(FileByte) /\ Len(WordOf(n)) = WordBytes /\ p \in Nat
    BY WordType
  <2>2. Part(s, p, p + Len(WordOf(n))) = WordOf(n)
    BY <2>1, HeldPart
  <2> QED
    BY <2>1, <2>2
<1>3. NumberOf(WordOf(n)) = n
  BY WordRoundTrip
<1>4. CASE p + WordBytes <= l
  <2>1. word = Cursor(TRUE, Part(s, p + WordBytes, l), WordOf(n))
    BY <1>1, <1>2, <1>4
  <2>2. word.ok /\ word.left = Part(s, p + WordBytes, l) /\ word.value = WordOf(n)
    BY <2>1 DEF Cursor
  <2>3. TakeWord(Part(s, p, l)) = Cursor(TRUE, word.left, NumberOf(word.value))
    BY <2>2 DEF TakeWord
  <2> HIDE DEF word
  <2> QED
    BY <1>3, <1>4, <2>2, <2>3
<1>5. CASE ~(p + WordBytes <= l)
  <2>1. ~word.ok
    BY <1>1, <1>5 DEF Thrown, Cursor
  <2> QED
    BY <1>5, <2>1 DEF TakeWord
<1> QED
  BY <1>4, <1>5

LEMMA TakeSizedPart ==
    ASSUME NEW s \in Seq(FileByte), NEW l \in 0..Len(s), NEW p \in 0..l,
           NEW b \in Seq(FileByte), Len(b) < WordLimit,
           Holds(s, p, WordOf(Len(b))), Holds(s, p + WordBytes, b)
    PROVE  TakeSized(Part(s, p, l)) = IF p + WordBytes + Len(b) <= l
                                      THEN Cursor(TRUE, Part(s, p + WordBytes + Len(b), l), b)
                                      ELSE Thrown
<1> DEFINE size == TakeWord(Part(s, p, l))
           q == p + WordBytes
<1>0. WordBytes \in Nat /\ Len(b) \in Nat /\ Len(s) \in Nat
  BY FormatAssumption
<1>1. size = IF q <= l THEN Cursor(TRUE, Part(s, q, l), Len(b)) ELSE Thrown
  BY <1>0, TakeWordPart
<1>2. TakeSized(Part(s, p, l)) = IF size.ok THEN Take(size.left, size.value) ELSE Thrown
  BY DEF TakeSized
<1>3. CASE q <= l
  <2>1. q \in 0..l
    BY <1>0, <1>3
  <2>2. size.ok /\ size.left = Part(s, q, l) /\ size.value = Len(b)
    BY <1>1, <1>3 DEF Cursor
  <2>3. Take(Part(s, q, l), Len(b)) = IF q + Len(b) <= l
                                      THEN Cursor(TRUE, Part(s, q + Len(b), l), Part(s, q, q + Len(b)))
                                      ELSE Thrown
    BY <1>0, <2>1, TakePart
  <2>4. Part(s, q, q + Len(b)) = b
    BY <1>0, <2>1, HeldPart
  <2> QED
    BY <1>2, <2>2, <2>3, <2>4
<1>4. CASE ~(q <= l)
  <2>1. ~size.ok /\ ~(p + WordBytes + Len(b) <= l)
    BY <1>0, <1>1, <1>4 DEF Thrown, Cursor
  <2> QED
    BY <1>2, <2>1
<1> QED
  BY <1>3, <1>4
-----------------------------------------------------------------------------
(***************************************************************************)
(* Inputs.                                                                 *)
(***************************************************************************)

(* What is written for each chunk. *)
ChunkBytes(input) == [i \in 1..Len(input) |-> WordOf(Len(input[i])) \o input[i]]

LEMMA InputPieces ==
    ASSUME NEW input, InputFits(input)
    PROVE  \E upto \in [0..Len(input) -> Seq(FileByte)] :
              /\ upto[0] = WordOf(Len(input))
              /\ \A i \in 1..Len(input) : upto[i] = upto[i - 1] \o ChunkBytes(input)[i]
              /\ SerializeInput(input) = upto[Len(input)]
<1> DEFINE n == Len(input)
           V == Seq(FileByte)
           base == WordOf(n)
           step == [p \in V \X (1..n) |-> p[1] \o WordOf(Len(input[p[2]])) \o input[p[2]]]
           Def(f) == [i \in 0..n |-> IF i = 0 THEN WordOf(Len(input))
                                     ELSE f[i - 1] \o WordOf(Len(input[i])) \o input[i]]
           upto == CHOOSE f : f = Def(f)
<1>0. n \in Nat /\ \A i \in 1..n : Len(input[i]) \in Nat /\ input[i] \in V
  BY DEF InputFits
<1>1. base \in V /\ \A i \in 1..n : WordOf(Len(input[i])) \in V
  BY <1>0, WordType
<1>2. \A v \in V, i \in 1..n : v \o WordOf(Len(input[i])) \o input[i] \in V
  BY <1>0, <1>1
<1>3. IsStep(step, n, V)
  BY <1>2 DEF IsStep
<1>4. \A v \in V, i \in 1..n : step[<<v, i>>] = v \o WordOf(Len(input[i])) \o input[i]
  OBVIOUS
<1> HIDE DEF step
<1>5. PICK g : Follows(g, n, V, base, step)
  BY <1>0, <1>1, <1>3, Recursion
<1>6. g = Def(g)
  <2>1. ASSUME NEW i \in 1..n
        PROVE  g[i] = g[i - 1] \o WordOf(Len(input[i])) \o input[i]
    <3>1. g[i - 1] \in V
      BY <1>0, <1>5 DEF Follows
    <3> QED
      BY <1>4, <1>5, <3>1 DEF Follows
  <2> QED
    BY <1>5, <2>1 DEF Follows
<1>7. upto = Def(upto)
  BY <1>6
<1>8. SerializeInput(input) = upto[n]
  BY DEF SerializeInput
<1> HIDE DEF upto
<1>9. /\ upto[0] = base
      /\ \A i \in 1..n : upto[i] = upto[i - 1] \o WordOf(Len(input[i])) \o input[i]
      /\ upto = [i \in 0..n |-> upto[i]]
  <2>1. \A i \in 0..n : upto[i] = IF i = 0 THEN base
                                  ELSE upto[i - 1] \o WordOf(Len(input[i])) \o input[i]
    BY <1>7
  <2>2. 0 \in 0..n /\ 1..n \subseteq 0..n /\ 0 \notin 1..n
    BY <1>0
  <2> QED
    BY <1>7, <2>1, <2>2
<1> DEFINE T == {i \in 0..n : upto[i] \in V}
<1>10. 0..n \subseteq T
  <2>1. 0 \in T
    BY <1>0, <1>1, <1>9
  <2>2. ASSUME NEW i \in 1..n, i - 1 \in T
        PROVE  i \in T
    <3>1. upto[i - 1] \in V
      BY <2>2
    <3>2. upto[i] \in V
      BY <1>2, <1>9, <3>1
    <3> QED
      BY <3>2
  <2> HIDE DEF T
  <2> QED
    BY <1>0, <2>1, <2>2, UpTo
<1>11. upto \in [0..n -> V]
  BY <1>9, <1>10
<1>12. \A i \in 1..n : upto[i] = upto[i - 1] \o ChunkBytes(input)[i]
  <2>1. ASSUME NEW i \in 1..n
        PROVE  upto[i] = upto[i - 1] \o ChunkBytes(input)[i]
    <3>1. upto[i - 1] \in V
      BY <1>0, <1>11
    <3>2. upto[i - 1] \o WordOf(Len(input[i])) \o input[i]
              = upto[i - 1] \o (WordOf(Len(input[i])) \o input[i])
      <4>1. /\ upto[i - 1] \in Seq(FileByte) /\ WordOf(Len(input[i])) \in Seq(FileByte)
            /\ input[i] \in Seq(FileByte)
        BY <1>0, <1>1, <3>1
      <4> QED
        BY <4>1, Joined
    <3> QED
      BY <1>9, <3>2 DEF ChunkBytes
  <2> QED
    BY <2>1
<1> QED
  BY <1>8, <1>9, <1>11, <1>12

LEMMA WholePart ==
    ASSUME NEW s \in Seq(FileByte)
    PROVE  Part(s, 0, Len(s)) = s
<1>1. Len(s) \in Nat /\ Len(s) \in 0..Len(s) /\ 0 \in 0..Len(s) /\ \A k \in 1..Len(s) : 0 + k = k
  OBVIOUS
<1>2. /\ Part(s, 0, Len(s)) \in Seq(FileByte)
      /\ Len(Part(s, 0, Len(s))) = Len(s) - 0
      /\ \A k \in 1..(Len(s) - 0) : Part(s, 0, Len(s))[k] = s[0 + k]
  BY <1>1, PartProperties
<1>3. Len(s) - 0 = Len(s)
  BY <1>1
<1> QED
  BY <1>1, <1>2, <1>3, SameBytes

(* Where the chunks of an input are in its bytes. *)
LEMMA ChunksHeld ==
    ASSUME NEW input, InputFits(input)
    PROVE  LET s == SerializeInput(input)  n == Len(input) IN
           /\ s \in Seq(FileByte)
           /\ Holds(s, 0, WordOf(n))
           /\ \E at \in [0..n -> 0..Len(s)] :
                 /\ at[0] = WordBytes
                 /\ \A i \in 1..n : /\ Holds(s, at[i - 1], WordOf(Len(input[i])))
                                    /\ Holds(s, at[i - 1] + WordBytes, input[i])
                                    /\ at[i] = at[i - 1] + WordBytes + Len(input[i])
<1> DEFINE s == SerializeInput(input)
           n == Len(input)
           piece == ChunkBytes(input)
<1>0. n \in Nat /\ WordBytes \in Nat /\ \A i \in 1..n : Len(input[i]) \in Nat /\ input[i] \in Seq(FileByte)
  BY FormatAssumption DEF InputFits
<1>1. PICK upto \in [0..n -> Seq(FileByte)] :
          /\ upto[0] = WordOf(n)
          /\ \A i \in 1..n : upto[i] = upto[i - 1] \o piece[i]
          /\ s = upto[n]
  BY InputPieces
<1>2. /\ \A i \in 1..n : /\ WordOf(Len(input[i])) \in Seq(FileByte)
                         /\ Len(WordOf(Len(input[i]))) = WordBytes
                         /\ piece[i] = WordOf(Len(input[i])) \o input[i]
      /\ Len(WordOf(n)) = WordBytes
  BY <1>0, WordType DEF ChunkBytes
<1>3. \A i \in 1..n : piece[i] \in Seq(FileByte) /\ Len(piece[i]) = WordBytes + Len(input[i])
  <2>1. \A a, b \in Seq(FileByte) : a \o b \in Seq(FileByte) /\ Len(a \o b) = Len(a) + Len(b)
    OBVIOUS
  <2> HIDE DEF piece
  <2> QED
    BY <1>0, <1>2, <2>1
<1>4. piece \in [1..n -> Seq(FileByte)]
  BY <1>3 DEF ChunkBytes
<1>5. s \in Seq(FileByte) /\ Len(s) \in Nat
  BY <1>0, <1>1
<1> HIDE DEF s, n, piece
<1>6. /\ Holds(s, 0, upto[0])
      /\ \A i \in 1..n : Holds(s, Len(upto[i - 1]), piece[i])
      /\ \A i \in 1..n : Len(upto[i]) = Len(upto[i - 1]) + Len(piece[i])
  BY <1>0, <1>1, <1>4, PiecesHeld
<1>7. \A i \in 0..n : Len(upto[i]) \in 0..Len(s)
  <2>1. ASSUME NEW i \in 0..n
        PROVE  Len(upto[i]) \in 0..Len(s)
    <3>1. Len(upto[i]) \in Nat
      BY <1>1
    <3>2. CASE i = 0
      BY <1>5, <1>6, <3>1, <3>2 DEF Holds
    <3>3. CASE i # 0
      <4>1. i \in 1..n
        BY <1>0, <3>3
      <4>2. Len(upto[i]) <= Len(s)
        BY <1>6, <4>1 DEF Holds
      <4> QED
        BY <1>5, <3>1, <4>2
    <3> QED
      BY <3>2, <3>3
  <2> QED
    BY <2>1
<1> DEFINE at == [i \in 0..n |-> Len(upto[i])]
<1>8. at \in [0..n -> 0..Len(s)] /\ at[0] = WordBytes
  BY <1>0, <1>1, <1>2, <1>7
<1>9. ASSUME NEW i \in 1..n
      PROVE  /\ Holds(s, at[i - 1], WordOf(Len(input[i])))
             /\ Holds(s, at[i - 1] + WordBytes, input[i])
             /\ at[i] = at[i - 1] + WordBytes + Len(input[i])
  <2>1. i - 1 \in 0..n /\ i \in 0..n
    BY <1>0
  <2>2. at[i - 1] = Len(upto[i - 1]) /\ at[i] = Len(upto[i]) /\ Len(upto[i - 1]) \in Nat
    BY <1>7, <2>1
  <2>3. Holds(s, Len(upto[i - 1]), WordOf(Len(input[i])) \o input[i])
    BY <1>2, <1>6
  <2>4. /\ Holds(s, Len(upto[i - 1]), WordOf(Len(input[i])))
        /\ Holds(s, Len(upto[i - 1]) + WordBytes, input[i])
    BY <1>0, <1>2, <1>5, <2>2, <2>3, HeldTwo
  <2>5. Len(upto[i]) = Len(upto[i - 1]) + WordBytes + Len(input[i])
    <3>1. /\ Len(upto[i]) = Len(upto[i - 1]) + Len(piece[i])
          /\ Len(piece[i]) = WordBytes + Len(input[i])
          /\ Len(input[i]) \in Nat
      BY <1>0, <1>3, <1>6
    <3>2. Len(upto[i - 1]) \in Nat
      BY <2>2
    <3>3. \A a, b \in Nat : a + (WordBytes + b) = a + WordBytes + b
      BY <1>0
    <3> QED
      BY <3>1, <3>2, <3>3
  <2> QED
    BY <2>2, <2>4, <2>5
<1> HIDE DEF at
<1>10. Holds(s, 0, WordOf(n))
  BY <1>1, <1>6
<1> QED
  BY <1>5, <1>8, <1>9, <1>10 DEF s, n

(* An input is what is parsed from its bytes. *)
LEMMA InputRoundTrip ==
    ASSUME NEW input, InputFits(input)
    PROVE  /\ SerializeInput(input) \in Seq(FileByte)
           /\ DeserializeInput(SerializeInput(input)).ok
           /\ DeserializeInput(SerializeInput(input)).value = input
<1> DEFINE s == SerializeInput(input)
           n == Len(input)
           l == Len(s)
<1>1. s \in Seq(FileByte) /\ Holds(s, 0, WordOf(n)) /\ n \in Nat /\ n < WordLimit /\ l \in Nat /\ WordBytes \in Nat
  BY ChunksHeld, FormatAssumption DEF InputFits
<1>2. PICK at \in [0..n -> 0..l] :
          /\ at[0] = WordBytes
          /\ \A i \in 1..n : /\ Holds(s, at[i - 1], WordOf(Len(input[i])))
                             /\ Holds(s, at[i - 1] + WordBytes, input[i])
                             /\ at[i] = at[i - 1] + WordBytes + Len(input[i])
  BY ChunksHeld
<1>3. \A i \in 1..n : input[i] \in Seq(FileByte) /\ Len(input[i]) < WordLimit
  BY DEF InputFits
<1>a. l = Len(s) /\ n = Len(input)
  OBVIOUS
<1> HIDE DEF s, n, l
<1> DEFINE total == TakeWord(s)
           g == [i \in 0..n |-> Cursor(TRUE, Part(s, at[i], l), SubSeq(input, 1, i))]
           Def(f) == [i \in 0..total.value |-> IF i = 0 THEN Cursor(TRUE, total.left, <<>>) ELSE AddChunk(f[i - 1])]
           after == CHOOSE f : f = Def(f)
<1>4. total = Cursor(TRUE, Part(s, WordBytes, l), n)
  <2>1. l \in 0..Len(s) /\ 0 \in 0..l /\ 0 + WordBytes = WordBytes /\ Part(s, 0, l) = s
    BY <1>1, <1>a, WholePart
  <2>2. WordBytes <= l
    <3>1. at[0] \in 0..l
      BY <1>1
    <3> QED
      BY <1>1, <1>2, <3>1
  <2>3. TakeWord(Part(s, 0, l)) = IF 0 + WordBytes <= l THEN Cursor(TRUE, Part(s, 0 + WordBytes, l), n) ELSE Thrown
    BY <1>1, <2>1, TakeWordPart
  <2> QED
    BY <1>1, <2>1, <2>2, <2>3
<1>5. total.ok /\ total.value = n /\ total.left = Part(s, WordBytes, l)
  BY <1>4 DEF Cursor
<1> HIDE DEF total
<1>6. \A i \in 1..n : AddChunk(Cursor(TRUE, Part(s, at[i - 1], l), SubSeq(input, 1, i - 1)))
                        = Cursor(TRUE, Part(s, at[i], l), SubSeq(input, 1, i))
  <2> SUFFICES ASSUME NEW i \in 1..n
               PROVE  AddChunk(Cursor(TRUE, Part(s, at[i - 1], l), SubSeq(input, 1, i - 1)))
                        = Cursor(TRUE, Part(s, at[i], l), SubSeq(input, 1, i))
    OBVIOUS
  <2> DEFINE so_far == Cursor(TRUE, Part(s, at[i - 1], l), SubSeq(input, 1, i - 1))
             chunk == TakeSized(so_far.left)
  <2>1. so_far.ok /\ so_far.left = Part(s, at[i - 1], l) /\ so_far.value = SubSeq(input, 1, i - 1)
    BY DEF Cursor
  <2> HIDE DEF so_far
  <2>2. /\ i - 1 \in 0..n /\ at[i - 1] \in 0..l /\ at[i] \in 0..l
        /\ at[i] = at[i - 1] + WordBytes + Len(input[i])
    <3>1. i - 1 \in 0..n /\ i \in 0..n
      BY <1>1
    <3> QED
      BY <1>2, <3>1
  <2>3. chunk = Cursor(TRUE, Part(s, at[i], l), input[i])
    <3>1. l \in 0..Len(s) /\ at[i - 1] + WordBytes + Len(input[i]) <= l
      BY <1>1, <1>a, <2>2
    <3>2. /\ input[i] \in Seq(FileByte) /\ Len(input[i]) < WordLimit
          /\ Holds(s, at[i - 1], WordOf(Len(input[i])))
          /\ Holds(s, at[i - 1] + WordBytes, input[i])
      BY <1>2, <1>3
    <3>3. TakeSized(Part(s, at[i - 1], l)) =
              IF at[i - 1] + WordBytes + Len(input[i]) <= l
              THEN Cursor(TRUE, Part(s, at[i - 1] + WordBytes + Len(input[i]), l), input[i])
              ELSE Thrown
      BY <1>1, <2>2, <3>1, <3>2, TakeSizedPart
    <3> QED
      BY <2>1, <2>2, <3>1, <3>3
  <2>4. chunk.ok /\ chunk.left = Part(s, at[i], l) /\ chunk.value = input[i]
    BY <2>3 DEF Cursor
  <2>5. Append(SubSeq(input, 1, i - 1), input[i]) = SubSeq(input, 1, i)
    BY <1>1, <1>a DEF InputFits
  <2>6. AddChunk(so_far) = Cursor(TRUE, chunk.left, Append(so_far.value, chunk.value))
    BY <2>1, <2>4 DEF AddChunk
  <2> HIDE DEF chunk
  <2>7. AddChunk(so_far) = Cursor(TRUE, Part(s, at[i], l), SubSeq(input, 1, i))
    BY <2>1, <2>4, <2>5, <2>6
  <2> QED
    BY <2>7 DEF so_far
<1>7. g = Def(g)
  <2>1. \A i \in 1..n : i - 1 \in 0..n /\ i \in 0..n
    BY <1>1
  <2>2. \A i \in 1..n : g[i] = AddChunk(g[i - 1])
    BY <1>6, <2>1
  <2>3. SubSeq(input, 1, 0) = <<>>
    OBVIOUS
  <2>4. 0 \in 0..n /\ g[0] = Cursor(TRUE, total.left, <<>>)
    <3>1. 0 \in 0..n /\ g[0] = Cursor(TRUE, Part(s, at[0], l), SubSeq(input, 1, 0))
      BY <1>1
    <3> QED
      BY <1>2, <1>5, <2>3, <3>1
  <2> HIDE DEF g
  <2>5. g = [i \in 0..n |-> g[i]]
    BY DEF g
  <2>6. \A i \in 0..n : g[i] = IF i = 0 THEN Cursor(TRUE, total.left, <<>>) ELSE AddChunk(g[i - 1])
    <3>1. \A i \in 0..n : i = 0 \/ i \in 1..n
      BY <1>1
    <3> QED
      BY <2>2, <2>4, <3>1
  <2> QED
    BY <1>5, <2>5, <2>6
<1>8. after = Def(after)
  BY <1>7
<1>9. DeserializeInput(s) = after[n]
  BY <1>5 DEF DeserializeInput, total
<1> HIDE DEF after
<1> DEFINE T == {i \in 0..n : after[i] = Cursor(TRUE, Part(s, at[i], l), SubSeq(input, 1, i))}
<1>10. 0..n \subseteq T
  <2>1. 0 \in T
    <3>1. SubSeq(input, 1, 0) = <<>>
      OBVIOUS
    <3>2. 0 \in 0..n /\ after[0] = Cursor(TRUE, total.left, <<>>)
      BY <1>1, <1>5, <1>8
    <3>3. after[0] = Cursor(TRUE, Part(s, at[0], l), SubSeq(input, 1, 0))
      BY <1>2, <1>5, <3>1, <3>2
    <3> QED
      BY <3>2, <3>3
  <2>2. ASSUME NEW i \in 1..n, i - 1 \in T
        PROVE  i \in T
    <3>1. i \in 0..n /\ i # 0
      BY <1>1
    <3>2. after[i] = AddChunk(after[i - 1])
      BY <1>5, <1>8, <3>1
    <3>3. after[i - 1] = Cursor(TRUE, Part(s, at[i - 1], l), SubSeq(input, 1, i - 1))
      BY <2>2
    <3>4. after[i] = Cursor(TRUE, Part(s, at[i], l), SubSeq(input, 1, i))
      BY <1>6, <3>2, <3>3
    <3> QED
      BY <3>1, <3>4
  <2> HIDE DEF T
  <2> QED
    BY <1>1, <2>1, <2>2, UpTo
<1>11. after[n] = Cursor(TRUE, Part(s, at[n], l), SubSeq(input, 1, n))
  BY <1>1, <1>10
<1>12. SubSeq(input, 1, n) = input
  BY <1>a DEF InputFits
<1>13. DeserializeInput(s).ok /\ DeserializeInput(s).value = input
  BY <1>9, <1>11, <1>12 DEF Cursor
<1> QED
  BY <1>1, <1>13 DEF s
-----------------------------------------------------------------------------
(***************************************************************************)
(* The order in which a cluster is written.                                *)
(***************************************************************************)

IsAscending(s, n) == \A i, j \in 1..n : i < j => s[i] < s[j]

LEMMA CanAscend ==
    ASSUME NEW S \in SUBSET Nat, IsFiniteSet(S)
    PROVE  \E s \in [1..Cardinality(S) -> S] : IsAscending(s, Cardinality(S))
<1> DEFINE Written(T) == \E s \in [1..Cardinality(T) -> T] : IsAscending(s, Cardinality(T))
           U == {T \in SUBSET S : ~Written(T)}
<1> SUFFICES ASSUME S \in U
             PROVE  FALSE
  OBVIOUS
<1>1. PICK m \in U : \A y \in U : y \subseteq m => y = m
  <2>1. IsWellFoundedOn(StrictSubsetOrdering(S), FiniteSubsetsOf(S))
    BY FS_StrictSubsetOrderingWellFounded
  <2>2. U \subseteq FiniteSubsetsOf(S) /\ U # {} /\ U \in SUBSET SUBSET S
    BY FS_Subset DEF FiniteSubsetsOf
  <2> HIDE DEF U
  <2>3. PICK m \in U : \A y \in U : ~(<<y, m>> \in StrictSubsetOrdering(S))
    BY <2>1, <2>2, WFMin
  <2> QED
    BY <2>2, <2>3 DEF StrictSubsetOrdering
<1>2. IsFiniteSet(m) /\ m \in SUBSET Nat /\ Cardinality(m) \in Nat /\ m \in SUBSET S
  BY FS_Subset, FS_CardinalityType
<1>3. m # {}
  <2>1. SUFFICES ASSUME m = {}
                 PROVE  Written(m)
    OBVIOUS
  <2>2. Cardinality(m) = 0
    BY <2>1, FS_EmptySet
  <2> DEFINE s == [i \in 1..0 |-> 0]
  <2>3. s \in [1..Cardinality(m) -> m] /\ IsAscending(s, Cardinality(m))
    BY <2>2 DEF IsAscending
  <2> QED
    BY <2>3
<1>4. PICK x \in m : \A n \in m : n <= x
  BY <1>2, <1>3, LargestOf
<1> DEFINE n == Cardinality(m)
           r == m \ {x}
<1>5. n \in Nat \ {0} /\ Cardinality(r) = n - 1 /\ r \in SUBSET S /\ r # m /\ r \subseteq m
  <2>1. Cardinality(r) = n - 1
    BY <1>2, <1>4, FS_RemoveElement
  <2>2. n # 0
    BY <1>2, <1>3, FS_EmptySet
  <2> QED
    BY <1>2, <1>4, <2>1, <2>2
<1>6. Written(r)
  BY <1>1, <1>5
<1>7. PICK s \in [1..(n - 1) -> r] : IsAscending(s, n - 1)
  BY <1>5, <1>6
<1> HIDE DEF n
<1> DEFINE t == [i \in 1..n |-> IF i = n THEN x ELSE s[i]]
<1>8. ASSUME NEW i \in 1..n
      PROVE  t[i] \in m /\ (i # n => i \in 1..(n - 1) /\ t[i] = s[i] /\ t[i] < x)
  <2>1. CASE i = n
    BY <2>1
  <2>2. CASE i # n
    <3>1. i \in 1..(n - 1)
      BY <1>5, <2>2
    <3>2. s[i] \in r
      BY <1>7, <3>1
    <3>3. s[i] < x
      <4>1. s[i] \in m /\ s[i] # x
        BY <3>2
      <4>2. s[i] \in Nat /\ x \in Nat /\ s[i] <= x
        BY <1>2, <1>4, <4>1
      <4> QED
        BY <4>1, <4>2
    <3> QED
      BY <1>4, <2>2, <3>1, <3>2, <3>3
  <2> QED
    BY <2>1, <2>2
<1>9. ASSUME NEW i \in 1..n, NEW j \in 1..n, i < j
      PROVE  t[i] < t[j]
  <2>1. i # n /\ i \in 1..(n - 1)
    BY <1>5, <1>9
  <2>2. CASE j = n
    BY <1>5, <1>8, <2>1, <2>2
  <2>3. CASE j # n
    <3>1. j \in 1..(n - 1) /\ t[j] = s[j] /\ t[i] = s[i]
      BY <1>8, <2>1, <2>3
    <3> QED
      BY <1>7, <1>9, <2>1, <3>1 DEF IsAscending
  <2> QED
    BY <2>2, <2>3
<1>10. t \in [1..n -> m] /\ IsAscending(t, n)
  BY <1>8, <1>9 DEF IsAscending
<1>11. Written(m)
  BY <1>10 DEF n
<1> QED
  BY <1>11

(* Every generator is written, and none twice. *)
LEMMA AscendingProperties ==
    ASSUME NEW S \in SUBSET Nat, IsFiniteSet(S)
    PROVE  LET s == Ascending(S)  n == Cardinality(S) IN
           /\ s \in [1..n -> S]
           /\ \A i, j \in 1..n : i # j => s[i] # s[j]
           /\ \A x \in S : \E i \in 1..n : s[i] = x
<1> DEFINE s == Ascending(S)  n == Cardinality(S)
<1>1. n \in Nat
  BY FS_CardinalityType
<1>2. s \in [1..n -> S] /\ IsAscending(s, n)
  BY CanAscend DEF Ascending, IsAscending
<1> HIDE DEF s
<1>3. ASSUME NEW i \in 1..n, NEW j \in 1..n, i # j
      PROVE  s[i] # s[j]
  <2>1. s[i] \in S /\ s[j] \in S
    BY <1>2
  <2>2. s[i] \in Nat /\ s[j] \in Nat
    BY <2>1
  <2>3. i < j \/ j < i
    BY <1>1, <1>3
  <2> QED
    BY <1>2, <2>2, <2>3 DEF IsAscending
<1>4. s \in Injection(1..n, S)
  BY <1>2, <1>3 DEF Injection, IsInjective
<1>5. Cardinality(1..n) = n
  BY <1>1, FS_Interval
<1>6. s \in Surjection(1..n, S)
  BY <1>4, <1>5, FS_Injection
<1> QED
  BY <1>2, <1>3, <1>6 DEF Surjection, s
-----------------------------------------------------------------------------
(***************************************************************************)
(* Clusters.                                                               *)
(***************************************************************************)
Size(c) == Cardinality(DOMAIN c)
Gid(c, i) == Ascending(DOMAIN c)[i]
InputBytes(c, i) == SerializeInput(c[Gid(c, i)])
EntryBytes(c, i) == WordOf(Gid(c, i)) \o (WordOf(Len(InputBytes(c, i))) \o InputBytes(c, i))

LEMMA Entries ==
    ASSUME NEW c, ClusterFits(c)
    PROVE  /\ Size(c) \in Nat /\ Size(c) < WordLimit
           /\ \A i \in 1..Size(c) :
                 /\ Gid(c, i) \in DOMAIN c /\ Gid(c, i) \in Nat /\ Gid(c, i) < WordLimit
                 /\ InputFits(c[Gid(c, i)])
                 /\ InputBytes(c, i) \in Seq(FileByte)
                 /\ Len(InputBytes(c, i)) \in Nat /\ Len(InputBytes(c, i)) < WordLimit
           /\ \A i, j \in 1..Size(c) : i # j => Gid(c, i) # Gid(c, j)
           /\ \A g \in DOMAIN c : \E i \in 1..Size(c) : Gid(c, i) = g
<1>1. DOMAIN c \in SUBSET Nat /\ IsFiniteSet(DOMAIN c) /\ Size(c) < WordLimit
  BY DEF ClusterFits, Size
<1>2. Size(c) \in Nat
  BY <1>1, FS_CardinalityType DEF Size
<1>3. /\ Ascending(DOMAIN c) \in [1..Size(c) -> DOMAIN c]
      /\ \A i, j \in 1..Size(c) : i # j => Gid(c, i) # Gid(c, j)
      /\ \A g \in DOMAIN c : \E i \in 1..Size(c) : Gid(c, i) = g
  BY <1>1, AscendingProperties DEF Size, Gid
<1>4. ASSUME NEW i \in 1..Size(c)
      PROVE  /\ Gid(c, i) \in DOMAIN c /\ Gid(c, i) \in Nat /\ Gid(c, i) < WordLimit
             /\ InputFits(c[Gid(c, i)])
             /\ InputBytes(c, i) \in Seq(FileByte)
             /\ Len(InputBytes(c, i)) \in Nat /\ Len(InputBytes(c, i)) < WordLimit
  <2>1. Gid(c, i) \in DOMAIN c
    BY <1>3 DEF Gid
  <2>2. /\ Gid(c, i) \in Nat /\ Gid(c, i) < WordLimit
        /\ InputFits(c[Gid(c, i)])
        /\ Len(InputBytes(c, i)) < WordLimit
    BY <2>1 DEF ClusterFits, InputBytes
  <2>3. InputBytes(c, i) \in Seq(FileByte)
    BY <2>2, InputRoundTrip DEF InputBytes
  <2> QED
    BY <2>1, <2>2, <2>3
<1> QED
  BY <1>1, <1>2, <1>3, <1>4

LEMMA EntryType ==
    ASSUME NEW c, ClusterFits(c), NEW i \in 1..Size(c)
    PROVE  /\ EntryBytes(c, i) \in Seq(FileByte)
           /\ Len(EntryBytes(c, i)) = WordBytes + WordBytes + Len(InputBytes(c, i))
           /\ \A u \in Seq(FileByte) :
                 u \o WordOf(Gid(c, i)) \o WordOf(Len(InputBytes(c, i))) \o InputBytes(c, i) = u \o EntryBytes(c, i)
<1> DEFINE a == WordOf(Gid(c, i))  b == WordOf(Len(InputBytes(c, i)))  d == InputBytes(c, i)
<1>1. Gid(c, i) \in Nat /\ Len(InputBytes(c, i)) \in Nat /\ d \in Seq(FileByte)
  BY Entries
<1>2. a \in Seq(FileByte) /\ b \in Seq(FileByte) /\ Len(a) = WordBytes /\ Len(b) = WordBytes
  BY <1>1, WordType
<1>3. EntryBytes(c, i) = a \o (b \o d) /\ WordBytes \in Nat /\ Len(d) \in Nat
  BY <1>1, FormatAssumption DEF EntryBytes
<1> HIDE DEF a, b, d
<1>4. ASSUME NEW u \in Seq(FileByte)
      PROVE  /\ ((u \o a) \o b) \o d = u \o (a \o (b \o d))
             /\ a \o (b \o d) \in Seq(FileByte)
             /\ Len(a \o (b \o d)) = Len(a) + (Len(b) + Len(d))
  <2>1. a \in Seq(FileByte) /\ b \in Seq(FileByte) /\ d \in Seq(FileByte)
    BY <1>1, <1>2
  <2>2. u \o a \in Seq(FileByte) /\ b \o d \in Seq(FileByte) /\ Len(b \o d) = Len(b) + Len(d)
    BY <2>1
  <2>3. ((u \o a) \o b) \o d = (u \o a) \o (b \o d)
    <3> DEFINE v == u \o a
    <3>1. v \in Seq(FileByte)
      BY <2>2
    <3> HIDE DEF v
    <3>2. (v \o b) \o d = v \o (b \o d)
      BY <2>1, <3>1, Joined
    <3> QED
      BY <3>2 DEF v
  <2>4. (u \o a) \o (b \o d) = u \o (a \o (b \o d))
    BY <2>1, <2>2, Joined
  <2>5. a \o (b \o d) \in Seq(FileByte) /\ Len(a \o (b \o d)) = Len(a) + Len(b \o d)
    BY <2>1, <2>2
  <2> QED
    BY <2>1, <2>2, <2>3, <2>4, <2>5
<1>5. EntryBytes(c, i) \in Seq(FileByte) /\ Len(EntryBytes(c, i)) = Len(a) + (Len(b) + Len(d))
  BY <1>2, <1>3, <1>4
<1>6. \A u \in Seq(FileByte) : ((u \o a) \o b) \o d = u \o EntryBytes(c, i)
  BY <1>3, <1>4
<1>7. Len(a) + (Len(b) + Len(d)) = WordBytes + WordBytes + Len(d)
  BY <1>2, <1>3
<1> QED
  BY <1>5, <1>6, <1>7 DEF a, b, d

LEMMA ClusterPieces ==
    ASSUME NEW c, ClusterFits(c)
    PROVE  \E upto \in [0..Size(c) -> Seq(FileByte)] :
              /\ upto[0] = WordOf(Size(c))
              /\ \A i \in 1..Size(c) : upto[i] = upto[i - 1] \o EntryBytes(c, i)
              /\ Serialize(c) = upto[Size(c)]
<1> DEFINE n == Size(c)
           V == Seq(FileByte)
           base == WordOf(n)
           step == [p \in V \X (1..n) |-> p[1] \o EntryBytes(c, p[2])]
           Entered(u, i) == u \o WordOf(Gid(c, i)) \o WordOf(Len(InputBytes(c, i))) \o InputBytes(c, i)
           Def(f) == [i \in 0..n |-> IF i = 0 THEN base ELSE Entered(f[i - 1], i)]
           upto == CHOOSE f : f = Def(f)
<1>0. n \in Nat /\ \A i \in 1..n : EntryBytes(c, i) \in V
  BY Entries, EntryType
<1>1. base \in V
  BY <1>0, WordType
<1>2. \A v \in V, i \in 1..n : v \o EntryBytes(c, i) \in V /\ Entered(v, i) = v \o EntryBytes(c, i)
  <2>1. ASSUME NEW v \in V, NEW i \in 1..n
        PROVE  Entered(v, i) = v \o EntryBytes(c, i)
    BY EntryType
  <2>2. ASSUME NEW v \in V, NEW i \in 1..n
        PROVE  v \o EntryBytes(c, i) \in V
    BY <1>0
  <2> HIDE DEF Entered
  <2> QED
    BY <2>1, <2>2
<1>3. IsStep(step, n, V)
  BY <1>2 DEF IsStep
<1>4. \A v \in V, i \in 1..n : step[<<v, i>>] = v \o EntryBytes(c, i)
  OBVIOUS
<1>5. Serialize(c) = upto[n]
  BY DEF Serialize, Size, Gid, InputBytes
<1> HIDE DEF step, n, Entered, base
<1>6. PICK g : Follows(g, n, V, base, step)
  BY <1>0, <1>1, <1>3, Recursion
<1>7. g = Def(g)
  <2>1. ASSUME NEW i \in 1..n
        PROVE  g[i] = Entered(g[i - 1], i)
    <3>1. g[i - 1] \in V
      BY <1>0, <1>6 DEF Follows
    <3> QED
      BY <1>2, <1>4, <1>6, <3>1 DEF Follows
  <2> QED
    BY <1>6, <2>1 DEF Follows
<1>8. upto = Def(upto)
  BY <1>7
<1> HIDE DEF upto
<1>9. /\ upto[0] = base
      /\ \A i \in 1..n : upto[i] = Entered(upto[i - 1], i)
      /\ upto = [i \in 0..n |-> upto[i]]
  <2>1. \A i \in 0..n : upto[i] = IF i = 0 THEN base ELSE Entered(upto[i - 1], i)
    BY <1>8
  <2>2. upto = [i \in 0..n |-> upto[i]]
    BY <1>8
  <2>3. 0 \in 0..n /\ \A i \in 1..n : i \in 0..n /\ i # 0
    BY <1>0
  <2> QED
    BY <2>1, <2>2, <2>3
<1> DEFINE T == {i \in 0..n : upto[i] \in V}
<1>10. 0..n \subseteq T
  <2>1. 0 \in T
    BY <1>0, <1>1, <1>9
  <2>2. ASSUME NEW i \in 1..n, i - 1 \in T
        PROVE  i \in T
    <3>1. upto[i - 1] \in V
      BY <2>2
    <3>2. upto[i] \in V
      BY <1>2, <1>9, <3>1
    <3> QED
      BY <3>2
  <2> HIDE DEF T
  <2> QED
    BY <1>0, <2>1, <2>2, UpTo
<1>11. upto \in [0..n -> V]
  BY <1>9, <1>10
<1>12. \A i \in 1..n : upto[i] = upto[i - 1] \o EntryBytes(c, i)
  <2>1. ASSUME NEW i \in 1..n
        PROVE  upto[i - 1] \in V
    BY <1>0, <1>11
  <2> QED
    BY <1>2, <1>9, <2>1
<1> QED
  BY <1>5, <1>9, <1>11, <1>12 DEF n, base

(* Where the generators and the inputs of a cluster are in its file. *)
LEMMA EntriesHeld ==
    ASSUME NEW c, ClusterFits(c)
    PROVE  LET s == Serialize(c) IN
           /\ s \in Seq(FileByte)
           /\ Holds(s, 0, WordOf(Size(c)))
           /\ \E at \in [0..Size(c) -> 0..Len(s)] :
                 /\ at[0] = WordBytes
                 /\ at[Size(c)] = Len(s)
                 /\ \A i \in 1..Size(c) :
                       /\ Holds(s, at[i - 1], WordOf(Gid(c, i)))
                       /\ Holds(s, at[i - 1] + WordBytes, WordOf(Len(InputBytes(c, i))))
                       /\ Holds(s, at[i - 1] + WordBytes + WordBytes, InputBytes(c, i))
                       /\ at[i] = at[i - 1] + WordBytes + WordBytes + Len(InputBytes(c, i))
<1> DEFINE s == Serialize(c)
           n == Size(c)
           piece == [i \in 1..n |-> EntryBytes(c, i)]
<1>0. /\ n \in Nat /\ WordBytes \in Nat
      /\ \A i \in 1..n : Gid(c, i) \in Nat /\ Len(InputBytes(c, i)) \in Nat /\ InputBytes(c, i) \in Seq(FileByte)
  BY FormatAssumption, Entries
<1>1. PICK upto \in [0..n -> Seq(FileByte)] :
          /\ upto[0] = WordOf(n)
          /\ \A i \in 1..n : upto[i] = upto[i - 1] \o EntryBytes(c, i)
          /\ s = upto[n]
  BY ClusterPieces
<1>2. /\ \A i \in 1..n : /\ WordOf(Gid(c, i)) \in Seq(FileByte)
                         /\ Len(WordOf(Gid(c, i))) = WordBytes
                         /\ WordOf(Len(InputBytes(c, i))) \in Seq(FileByte)
                         /\ Len(WordOf(Len(InputBytes(c, i)))) = WordBytes
      /\ Len(WordOf(n)) = WordBytes
  BY <1>0, WordType
<1>3. \A i \in 1..n : /\ EntryBytes(c, i) \in Seq(FileByte)
                      /\ Len(EntryBytes(c, i)) = WordBytes + WordBytes + Len(InputBytes(c, i))
                      /\ piece[i] = EntryBytes(c, i)
  BY EntryType
<1>4. piece \in [1..n -> Seq(FileByte)]
  BY <1>3
<1>5. s \in Seq(FileByte) /\ Len(s) \in Nat
  BY <1>0, <1>1
<1> HIDE DEF s, n, piece
<1>6. /\ Holds(s, 0, upto[0])
      /\ \A i \in 1..n : Holds(s, Len(upto[i - 1]), EntryBytes(c, i))
      /\ \A i \in 1..n : Len(upto[i]) = Len(upto[i - 1]) + Len(EntryBytes(c, i))
  <2>1. \A i \in 1..n : upto[i] = upto[i - 1] \o piece[i]
    BY <1>1, <1>3
  <2>2. /\ Holds(s, 0, upto[0])
        /\ \A i \in 1..n : Holds(s, Len(upto[i - 1]), piece[i])
        /\ \A i \in 1..n : Len(upto[i]) = Len(upto[i - 1]) + Len(piece[i])
    BY <1>0, <1>1, <1>4, <2>1, PiecesHeld
  <2> QED
    BY <1>3, <2>2
<1>7. \A i \in 0..n : Len(upto[i]) \in 0..Len(s)
  <2>1. ASSUME NEW i \in 0..n
        PROVE  Len(upto[i]) \in 0..Len(s)
    <3>1. Len(upto[i]) \in Nat
      BY <1>1
    <3>2. CASE i = 0
      BY <1>5, <1>6, <3>1, <3>2 DEF Holds
    <3>3. CASE i # 0
      <4>1. i \in 1..n /\ i - 1 \in 0..n
        BY <1>0, <3>3
      <4>2. Len(upto[i - 1]) + Len(EntryBytes(c, i)) <= Len(s)
        BY <1>6, <4>1 DEF Holds
      <4>3. Len(upto[i]) <= Len(s)
        BY <1>6, <4>1, <4>2
      <4> QED
        BY <1>5, <3>1, <4>3
    <3> QED
      BY <3>2, <3>3
  <2> QED
    BY <2>1
<1> DEFINE at == [i \in 0..n |-> Len(upto[i])]
<1>8. at \in [0..n -> 0..Len(s)] /\ at[0] = WordBytes /\ at[n] = Len(s)
  BY <1>0, <1>1, <1>2, <1>7
<1>9. ASSUME NEW i \in 1..n
      PROVE  /\ Holds(s, at[i - 1], WordOf(Gid(c, i)))
             /\ Holds(s, at[i - 1] + WordBytes, WordOf(Len(InputBytes(c, i))))
             /\ Holds(s, at[i - 1] + WordBytes + WordBytes, InputBytes(c, i))
             /\ at[i] = at[i - 1] + WordBytes + WordBytes + Len(InputBytes(c, i))
  <2> DEFINE p == Len(upto[i - 1])
             b == WordOf(Len(InputBytes(c, i))) \o InputBytes(c, i)
  <2>1. i - 1 \in 0..n /\ i \in 0..n
    BY <1>0
  <2>2. at[i - 1] = p /\ at[i] = Len(upto[i]) /\ p \in Nat
    BY <1>7, <2>1
  <2>3. Holds(s, p, WordOf(Gid(c, i)) \o b) /\ b \in Seq(FileByte)
    <3>1. Holds(s, p, EntryBytes(c, i))
      BY <1>6
    <3>2. b \in Seq(FileByte)
      BY <1>0, <1>2
    <3> QED
      BY <3>1, <3>2 DEF EntryBytes
  <2> HIDE DEF p, b
  <2>4. Holds(s, p, WordOf(Gid(c, i))) /\ Holds(s, p + WordBytes, b) /\ p + WordBytes \in Nat
    <3>1. WordOf(Gid(c, i)) \in Seq(FileByte) /\ Len(WordOf(Gid(c, i))) = WordBytes
      BY <1>2
    <3>2. Holds(s, p, WordOf(Gid(c, i))) /\ Holds(s, p + Len(WordOf(Gid(c, i))), b)
      BY <1>5, <2>2, <2>3, <3>1, HeldTwo
    <3> QED
      BY <1>0, <2>2, <3>1, <3>2
  <2>5. /\ Holds(s, p + WordBytes, WordOf(Len(InputBytes(c, i))))
        /\ Holds(s, p + WordBytes + WordBytes, InputBytes(c, i))
    <3> DEFINE q == p + WordBytes
               w == WordOf(Len(InputBytes(c, i)))
    <3>1. w \in Seq(FileByte) /\ Len(w) = WordBytes /\ InputBytes(c, i) \in Seq(FileByte) /\ q \in Nat
      BY <1>0, <1>2, <2>4
    <3>2. Holds(s, q, w \o InputBytes(c, i))
      BY <2>4 DEF b
    <3> HIDE DEF q, w
    <3>3. Holds(s, q, w) /\ Holds(s, q + Len(w), InputBytes(c, i))
      BY <1>5, <3>1, <3>2, HeldTwo
    <3> QED
      BY <3>1, <3>3 DEF q, w
  <2>6. Len(upto[i]) = p + WordBytes + WordBytes + Len(InputBytes(c, i))
    <3>1. Len(upto[i]) = p + (WordBytes + WordBytes + Len(InputBytes(c, i)))
      BY <1>3, <1>6 DEF p
    <3>2. \A x, y, z \in Nat : x + (y + y + z) = x + y + y + z
      OBVIOUS
    <3> QED
      BY <1>0, <2>2, <3>1, <3>2
  <2> QED
    BY <2>2, <2>4, <2>5, <2>6
<1> HIDE DEF at
<1>10. Holds(s, 0, WordOf(n))
  BY <1>1, <1>6
<1> QED
  BY <1>5, <1>8, <1>9, <1>10 DEF s, n

(* The first k generators, with their inputs. *)
FirstOf(c, k) == [g \in {Gid(c, i) : i \in 1..k} |-> c[g]]

LEMMA FirstAndLast ==
    ASSUME NEW c, ClusterFits(c)
    PROVE  FirstOf(c, 0) = <<>> /\ FirstOf(c, Size(c)) = c
<1>1. FirstOf(c, 0) = <<>>
  <2> DEFINE gids == {Gid(c, i) : i \in 1..0}
  <2>1. gids = {}
    OBVIOUS
  <2>2. FirstOf(c, 0) = [g \in gids |-> c[g]]
    BY DEF FirstOf
  <2> HIDE DEF gids
  <2> QED
    BY <2>1, <2>2
<1>2. FirstOf(c, Size(c)) = c
  <2>1. {Gid(c, i) : i \in 1..Size(c)} = DOMAIN c
    <3>1. /\ \A i \in 1..Size(c) : Gid(c, i) \in DOMAIN c
          /\ \A g \in DOMAIN c : \E i \in 1..Size(c) : Gid(c, i) = g
      BY Entries
    <3> QED
      BY <3>1
  <2>2. c = [g \in DOMAIN c |-> c[g]]
    BY DEF ClusterFits
  <2> QED
    BY <2>1, <2>2 DEF FirstOf
<1> QED
  BY <1>1, <1>2

LEMMA OneMore ==
    ASSUME NEW c, ClusterFits(c), NEW k \in 1..Size(c)
    PROVE  /\ Gid(c, k) \notin DOMAIN FirstOf(c, k - 1)
           /\ [g \in DOMAIN FirstOf(c, k - 1) \union {Gid(c, k)} |->
                   IF g = Gid(c, k) THEN c[Gid(c, k)] ELSE FirstOf(c, k - 1)[g]] = FirstOf(c, k)
<1> DEFINE before == {Gid(c, i) : i \in 1..(k - 1)}
           upto == {Gid(c, i) : i \in 1..k}
<1>1. Size(c) \in Nat /\ \A i \in 1..(k - 1) : i \in 1..Size(c) /\ i # k
  BY Entries
<1>2. Gid(c, k) \notin before
  BY <1>1, Entries
<1>3. upto = before \union {Gid(c, k)}
  <2>1. \A i \in 1..k : i \in 1..(k - 1) \/ i = k
    BY <1>1
  <2>2. k \in 1..k /\ \A i \in 1..(k - 1) : i \in 1..k
    BY <1>1
  <2> QED
    BY <2>1, <2>2
<1>4. FirstOf(c, k - 1) = [g \in before |-> c[g]] /\ FirstOf(c, k) = [g \in upto |-> c[g]]
  BY DEF FirstOf
<1> HIDE DEF before, upto
<1> QED
  BY <1>2, <1>3, <1>4

(* What parsing a file that was cut after l bytes has come to after k of    *)
(* the generators: it goes on as long as the bytes are there.               *)
Parsing(c, at, l, k) ==
    IF at[k] <= l THEN Cursor(TRUE, Part(Serialize(c), at[k], l), FirstOf(c, k)) ELSE Thrown

LEMMA InputAdded ==
    ASSUME NEW c, ClusterFits(c), NEW l \in 0..Len(Serialize(c)),
           Serialize(c) \in Seq(FileByte),
           NEW at \in [0..Size(c) -> 0..Len(Serialize(c))],
           NEW k \in 1..Size(c),
           Holds(Serialize(c), at[k - 1], WordOf(Gid(c, k))),
           Holds(Serialize(c), at[k - 1] + WordBytes, WordOf(Len(InputBytes(c, k)))),
           Holds(Serialize(c), at[k - 1] + WordBytes + WordBytes, InputBytes(c, k)),
           at[k] = at[k - 1] + WordBytes + WordBytes + Len(InputBytes(c, k))
    PROVE  AddInput(Parsing(c, at, l, k - 1)) = Parsing(c, at, l, k)
<1> DEFINE s == Serialize(c)
           p == at[k - 1]
           b == InputBytes(c, k)
           so_far == Parsing(c, at, l, k - 1)
           gid == TakeWord(so_far.left)
           bytes == TakeSized(gid.left)
           input == DeserializeInput(bytes.value)
           parsed == so_far.ok /\ gid.ok /\ gid.value \notin DOMAIN so_far.value /\ bytes.ok /\ input.ok
           added == [g \in DOMAIN so_far.value \union {gid.value} |->
                        IF g = gid.value THEN input.value ELSE so_far.value[g]]
<1> SUFFICES AddInput(so_far) = Parsing(c, at, l, k)
  OBVIOUS
<1>1. AddInput(so_far) = IF parsed THEN Cursor(TRUE, bytes.left, added) ELSE Thrown
  BY DEF AddInput
<1>2. /\ WordBytes \in Nat /\ Len(s) \in Nat /\ l \in Nat /\ Len(b) \in Nat /\ Len(b) < WordLimit
      /\ b \in Seq(FileByte) /\ Gid(c, k) \in Nat /\ Gid(c, k) < WordLimit
      /\ p \in Nat /\ at[k] = p + WordBytes + WordBytes + Len(b)
  <2>1. Size(c) \in Nat
    BY Entries
  <2>2. k - 1 \in 0..Size(c)
    BY <2>1
  <2>3. p \in Nat
    BY <2>2
  <2> QED
    BY <2>3, Entries, FormatAssumption
<1>3. DeserializeInput(b).ok /\ DeserializeInput(b).value = c[Gid(c, k)]
  BY Entries, InputRoundTrip DEF InputBytes
<1>4. so_far = IF p <= l THEN Cursor(TRUE, Part(s, p, l), FirstOf(c, k - 1)) ELSE Thrown
  BY DEF Parsing
<1>5. Parsing(c, at, l, k) = IF at[k] <= l THEN Cursor(TRUE, Part(s, at[k], l), FirstOf(c, k)) ELSE Thrown
  BY DEF Parsing
<1>6. /\ l \in 0..Len(s) /\ s \in Seq(FileByte)
      /\ Holds(s, p, WordOf(Gid(c, k)))
      /\ Holds(s, p + WordBytes, WordOf(Len(b)))
      /\ Holds(s, p + WordBytes + WordBytes, b)
  OBVIOUS
<1> HIDE DEF s, b, p, so_far
<1>7. CASE ~(p <= l)
  <2>1. ~so_far.ok
    BY <1>4, <1>7 DEF Thrown, Cursor
  <2>2. ~(at[k] <= l)
    BY <1>2, <1>7
  <2> QED
    BY <1>1, <1>5, <2>1, <2>2
<1>8. CASE p <= l
  <2>1. so_far.ok /\ so_far.left = Part(s, p, l) /\ so_far.value = FirstOf(c, k - 1)
    BY <1>4, <1>8 DEF Cursor
  <2>2. gid = IF p + WordBytes <= l THEN Cursor(TRUE, Part(s, p + WordBytes, l), Gid(c, k)) ELSE Thrown
    <3>1. p \in 0..l
      BY <1>2, <1>8
    <3> QED
      BY <1>2, <1>6, <2>1, <3>1, TakeWordPart
  <2> HIDE DEF gid
  <2>3. CASE ~(p + WordBytes <= l)
    <3>1. ~gid.ok
      BY <2>2, <2>3 DEF Thrown, Cursor
    <3>2. ~(at[k] <= l)
      BY <1>2, <2>3
    <3> QED
      BY <1>1, <1>5, <3>1, <3>2
  <2>4. CASE p + WordBytes <= l
    <3>1. gid.ok /\ gid.left = Part(s, p + WordBytes, l) /\ gid.value = Gid(c, k)
      BY <2>2, <2>4 DEF Cursor
    <3>2. bytes = IF at[k] <= l THEN Cursor(TRUE, Part(s, at[k], l), b) ELSE Thrown
      <4> DEFINE q == p + WordBytes
      <4>1. q \in 0..l /\ at[k] = q + WordBytes + Len(b)
        BY <1>2, <2>4
      <4>2. Holds(s, q, WordOf(Len(b))) /\ Holds(s, q + WordBytes, b)
        BY <1>6
      <4>3. gid.left = Part(s, q, l)
        BY <3>1
      <4> HIDE DEF q
      <4>4. TakeSized(Part(s, q, l)) = IF q + WordBytes + Len(b) <= l
                                       THEN Cursor(TRUE, Part(s, q + WordBytes + Len(b), l), b)
                                       ELSE Thrown
        BY <1>2, <1>6, <4>1, <4>2, TakeSizedPart
      <4> QED
        BY <4>1, <4>3, <4>4
    <3> HIDE DEF bytes
    <3>3. CASE ~(at[k] <= l)
      <4>1. ~bytes.ok
        BY <3>2, <3>3 DEF Thrown, Cursor
      <4> QED
        BY <1>1, <1>5, <3>3, <4>1
    <3>4. CASE at[k] <= l
      <4>1. bytes.ok /\ bytes.left = Part(s, at[k], l) /\ bytes.value = b
        BY <3>2, <3>4 DEF Cursor
      <4>2. input.ok /\ input.value = c[Gid(c, k)]
        BY <1>3, <4>1
      <4> HIDE DEF input
      <4>3. parsed
        <5>1. Gid(c, k) \notin DOMAIN FirstOf(c, k - 1)
          BY OneMore
        <5>2. gid.value \notin DOMAIN so_far.value
          BY <2>1, <3>1, <5>1
        <5> QED
          BY <2>1, <3>1, <4>1, <4>2, <5>2
      <4>4. added = [g \in DOMAIN FirstOf(c, k - 1) \union {Gid(c, k)} |->
                        IF g = Gid(c, k) THEN c[Gid(c, k)] ELSE FirstOf(c, k - 1)[g]]
        BY <2>1, <3>1, <4>2
      <4>5. added = FirstOf(c, k)
        BY <4>4, OneMore
      <4> HIDE DEF parsed, added
      <4> QED
        BY <1>1, <1>5, <3>4, <4>1, <4>3, <4>5
    <3> QED
      BY <3>3, <3>4
  <2> QED
    BY <2>3, <2>4
<1> QED
  BY <1>7, <1>8

(* InputCluster::Deserialize gives back the cluster that was serialized,    *)
(* and rejects every file that was cut short: a session that was killed     *)
(* while it wrote leaves no file that would be taken for another cluster.   *)
THEOREM RoundTrip ==
    ASSUME NEW c, ClusterFits(c)
    PROVE  /\ Serialize(c) \in Seq(FileByte)
           /\ \A content \in Prefixes(Serialize(c)) :
                 /\ Deserialize(content).ok <=> content = Serialize(c)
                 /\ Deserialize(content).ok => Deserialize(content).value = c
<1> DEFINE s == Serialize(c)
           n == Size(c)
<1>1. s \in Seq(FileByte) /\ Holds(s, 0, WordOf(n))
  BY EntriesHeld
<1>2. PICK at \in [0..n -> 0..Len(s)] :
          /\ at[0] = WordBytes
          /\ at[n] = Len(s)
          /\ \A i \in 1..n : /\ Holds(s, at[i - 1], WordOf(Gid(c, i)))
                             /\ Holds(s, at[i - 1] + WordBytes, WordOf(Len(InputBytes(c, i))))
                             /\ Holds(s, at[i - 1] + WordBytes + WordBytes, InputBytes(c, i))
                             /\ at[i] = at[i - 1] + WordBytes + WordBytes + Len(InputBytes(c, i))
  BY EntriesHeld
<1>3. n \in Nat /\ n < WordLimit /\ WordBytes \in Nat
  BY Entries, FormatAssumption
<1>4. ASSUME NEW l \in 0..Len(s), NEW k \in 1..n
      PROVE  AddInput(Parsing(c, at, l, k - 1)) = Parsing(c, at, l, k)
  BY <1>1, <1>2, InputAdded
<1>5. ASSUME NEW l \in 0..Len(s)
      PROVE  /\ Deserialize(Part(s, 0, l)).ok <=> l = Len(s)
             /\ Deserialize(Part(s, 0, l)).ok => Deserialize(Part(s, 0, l)).value = c
  <2> DEFINE file == Part(s, 0, l)
             total == TakeWord(file)
             g == [i \in 0..n |-> Parsing(c, at, l, i)]
             Def(f) == [i \in 0..total.value |-> IF i = 0 THEN Cursor(TRUE, total.left, <<>>) ELSE AddInput(f[i - 1])]
             after == CHOOSE f : f = Def(f)
  <2>a. Deserialize(file) = IF total.ok THEN after[total.value] ELSE Thrown
    BY DEF Deserialize
  <2>b. s = Serialize(c) /\ Len(s) \in Nat /\ l \in Nat
    BY <1>1
  <2> HIDE DEF s, n
  <2>1. total = IF WordBytes <= l THEN Cursor(TRUE, Part(s, WordBytes, l), n) ELSE Thrown
    <3>1. 0 \in 0..l /\ 0 + WordBytes = WordBytes
      BY <1>3, <2>b
    <3>2. TakeWord(Part(s, 0, l)) = IF 0 + WordBytes <= l THEN Cursor(TRUE, Part(s, 0 + WordBytes, l), n) ELSE Thrown
      BY <1>1, <1>3, <3>1, TakeWordPart
    <3> QED
      BY <3>1, <3>2
  <2> HIDE DEF total
  <2>2. CASE ~(WordBytes <= l)
    <3>1. ~total.ok
      BY <2>1, <2>2 DEF Thrown, Cursor
    <3>2. Deserialize(file) = Thrown
      BY <2>a, <3>1
    <3>3. l # Len(s)
      <4>1. at[0] \in 0..Len(s)
        BY <1>3
      <4> QED
        BY <1>2, <2>2, <2>b, <4>1
    <3> QED
      BY <3>2, <3>3 DEF Thrown, Cursor
  <2>3. CASE WordBytes <= l
    <3>1. total.ok /\ total.value = n /\ total.left = Part(s, WordBytes, l)
      BY <2>1, <2>3 DEF Cursor
    <3>2. Cursor(TRUE, total.left, <<>>) = Parsing(c, at, l, 0)
      BY <1>2, <2>3, <2>b, <3>1, FirstAndLast DEF Parsing
    <3>3. g = Def(g)
      <4>1. \A i \in 0..n : i = 0 \/ (i \in 1..n /\ i - 1 \in 0..n)
        BY <1>3
      <4>2. \A i \in 0..n : g[i] = IF i = 0 THEN Cursor(TRUE, total.left, <<>>) ELSE AddInput(g[i - 1])
        BY <1>4, <3>2, <4>1
      <4>3. g = [i \in 0..n |-> g[i]]
        OBVIOUS
      <4> HIDE DEF g
      <4> QED
        BY <3>1, <4>2, <4>3
    <3>4. after = Def(after)
      BY <3>3
    <3> HIDE DEF after
    <3> DEFINE T == {i \in 0..n : after[i] = Parsing(c, at, l, i)}
    <3>5. 0..n \subseteq T
      <4>1. 0 \in T
        <5>1. 0 \in 0..n
          BY <1>3
        <5>2. after[0] = Cursor(TRUE, total.left, <<>>)
          BY <3>1, <3>4, <5>1
        <5> QED
          BY <3>2, <5>1, <5>2
      <4>2. ASSUME NEW i \in 1..n, i - 1 \in T
            PROVE  i \in T
        <5>1. i \in 0..n /\ i # 0
          BY <1>3
        <5>2. after[i] = AddInput(after[i - 1])
          BY <3>1, <3>4, <5>1
        <5>3. after[i] = Parsing(c, at, l, i)
          BY <1>4, <4>2, <5>2
        <5> QED
          BY <5>1, <5>3
      <4> HIDE DEF T
      <4> QED
        BY <1>3, <4>1, <4>2, UpTo
    <3>6. Deserialize(file) = Parsing(c, at, l, n)
      <4>1. n \in T
        BY <1>3, <3>5
      <4> QED
        BY <2>a, <3>1, <4>1
    <3>7. Parsing(c, at, l, n) = IF Len(s) <= l THEN Cursor(TRUE, Part(s, Len(s), l), c) ELSE Thrown
      BY <1>2, <2>b, FirstAndLast DEF Parsing, n
    <3>8. Len(s) <= l <=> l = Len(s)
      BY <2>b
    <3> QED
      BY <3>6, <3>7, <3>8 DEF Thrown, Cursor
  <2> QED
    BY <2>2, <2>3
<1>6. ASSUME NEW content \in Prefixes(s)
      PROVE  /\ Deserialize(content).ok <=> content = s
             /\ Deserialize(content).ok => Deserialize(content).value = c
  <2>1. PICK l \in 0..Len(s) : content = SubSeq(s, 1, l)
    BY DEF Prefixes
  <2>2. content = Part(s, 0, l) /\ Len(content) = l
    <3>1. 0 + 1 = 1 /\ l - 0 = l /\ 0 \in 0..l
      OBVIOUS
    <3>2. content = Part(s, 0, l)
      BY <2>1, <3>1 DEF Part
    <3>3. Len(Part(s, 0, l)) = l - 0
      BY <1>1, <3>1, PartProperties
    <3> QED
      BY <3>1, <3>2, <3>3
  <2>3. content = s <=> l = Len(s)
    BY <1>1, <2>2, WholePart
  <2> QED
    BY <1>5, <2>2, <2>3
<1> QED
  BY <1>1, <1>6
-----------------------------------------------------------------------------
(***************************************************************************)
(* Sessions.                                                               *)
(***************************************************************************)

Parsed(content) == Deserialize(content)

CrashWritten == writing.prefix = "crash"
Writing == pc \in {"opening", "writing"}

(* The disk: what is parsed from it is a cluster, the one the file is named *)
(* after if the engine has written it.                                      *)
FilesInv ==
    /\ saved = SavedIn(disk)
    /\ \A file \in DOMAIN disk : Parsed(disk[file]).ok =>
          /\ Parsed(disk[file]).value \in Cluster
          /\ file.prefix # "user" => Parsed(disk[file]).value = file.of

(* The file that is written: that of a crash, or of a kept cluster.         *)
WritingInv ==
    /\ pc \in {"off", "loading", "manager"} => writing = NoFile
    /\ Writing => /\ writing.of \in Cluster
                  /\ \/ writing.prefix = "crash" /\ writing.dir = CrashDir
                     \/ /\ writing.prefix = "" /\ HaveWorkDir /\ writing.dir = WorkDir
                        /\ Covers[writing.of] \subseteq seen
                        /\ ~StaticLeft

(* What was loaded is on the disk. *)
LoadedInv ==
    /\ todo \subseteq ListedIn(disk)
    /\ pc # "loading" => todo = {}
    /\ pc \in {"loading", "manager"} => corpusDisk \subseteq saved \union {EmptyCluster}
    /\ ~RunStatic => todo = {} /\ corpusDisk \subseteq {EmptyCluster}

DiskInv == TypeOK /\ FilesInv /\ WritingInv /\ LoadedInv

(* What was kept is on the disk, or about to be, or could not be written.   *)
KeptInv ==
    /\ pc = "loading" => corpus \subseteq {EmptyCluster}
    /\ pc = "manager" /\ HaveWorkDir => corpus \subseteq saved \union {EmptyCluster} \union unwritten
    /\ Writing /\ ~CrashWritten =>
           corpus \subseteq saved \union {EmptyCluster} \union unwritten \union {writing.of}

(* What was saved was seen, or is still to be loaded and run. *)
ToLoad(c) == \E file \in todo : Parsed(disk[file]).ok /\ Parsed(disk[file]).value = c
SeenInv ==
    /\ pc = "loading" => \A c \in saved : c \in corpusDisk \/ ToLoad(c)
    /\ pc = "manager" => \A c \in saved : c \in corpusDisk \/ Covers[c] \subseteq seen
    /\ Writing /\ ~CrashWritten => \A c \in saved : Covers[c] \subseteq seen

(* What is about to be written is new to all that was saved. *)
NewInv == Writing /\ ~CrashWritten => ~(Covers[writing.of] \subseteq Archive!Covered(saved))
-----------------------------------------------------------------------------
(* A cluster is what is parsed from its file, and from no part of the file. *)
LEMMA FormatFits ==
    ASSUME NEW c \in Cluster
    PROVE  /\ Serialize(c) \in Seq(FileByte)
           /\ \A content \in Prefixes(Serialize(c)) :
                 /\ Parsed(content).ok <=> content = Serialize(c)
                 /\ Parsed(content).ok => Parsed(content).value = c
  BY ClustersFit, RoundTrip DEF Parsed
-----------------------------------------------------------------------------
(***************************************************************************)
(* The disk.                                                               *)
(***************************************************************************)

(* An empty file holds no cluster. *)
LEMMA EmptyFile == ~Parsed(<<>>).ok
<1>1. ~TakeWord(<<>>).ok
  BY FormatAssumption DEF TakeWord, Take, Thrown, Cursor
<1> QED
  BY <1>1 DEF Parsed, Deserialize, Thrown, Cursor

LEMMA SavedInDef ==
    ASSUME NEW d, NEW c
    PROVE  c \in SavedIn(d) <=> \E file \in ListedIn(d) : Parsed(d[file]).ok /\ Parsed(d[file]).value = c
  BY DEF SavedIn, Parsed

(* What is written changes one file, and of the saved clusters only those   *)
(* that this file held or holds.                                            *)
LEMMA PutFile ==
    ASSUME NEW content, Put(content), FilesInv
    PROVE  /\ DOMAIN disk' = DOMAIN disk \union {writing}
           /\ \A file \in DOMAIN disk' : disk'[file] = IF file = writing THEN content ELSE disk[file]
           /\ saved' = SavedIn(disk')
           /\ \A c \in saved' : c \in saved \/ (Parsed(content).ok /\ c = Parsed(content).value)
           /\ \A c \in saved : c \in saved' \/ /\ writing \in ListedIn(disk)
                                               /\ Parsed(disk[writing]).ok
                                               /\ c = Parsed(disk[writing]).value
           /\ (\E i \in 1..Len(Arguments) : Arguments[i] = writing.dir) =>
                 (Parsed(content).ok => Parsed(content).value \in saved')
           /\ ~(\E i \in 1..Len(Arguments) : Arguments[i] = writing.dir) => saved' = saved
<1>1. /\ DOMAIN disk' = DOMAIN disk \union {writing}
      /\ \A file \in DOMAIN disk' : disk'[file] = IF file = writing THEN content ELSE disk[file]
      /\ saved' = SavedIn(disk')
  BY DEF Put
<1>2. \A file : file \in ListedIn(disk') <=>
         file \in ListedIn(disk) \/ (file = writing /\ \E i \in 1..Len(Arguments) : Arguments[i] = writing.dir)
  BY <1>1 DEF ListedIn
<1>3. ListedIn(disk) \subseteq DOMAIN disk /\ ListedIn(disk') \subseteq DOMAIN disk'
  BY DEF ListedIn
<1>4. ASSUME NEW c
      PROVE  /\ c \in saved <=> \E file \in ListedIn(disk) :
                                    Parsed(disk[file]).ok /\ Parsed(disk[file]).value = c
             /\ c \in saved' <=> \E file \in ListedIn(disk') :
                                    Parsed(disk'[file]).ok /\ Parsed(disk'[file]).value = c
  BY <1>1, SavedInDef DEF FilesInv
<1>5. \A c \in saved' : c \in saved \/ (Parsed(content).ok /\ c = Parsed(content).value)
  BY <1>1, <1>2, <1>3, <1>4
<1>6. \A c \in saved : c \in saved' \/ /\ writing \in ListedIn(disk)
                                       /\ Parsed(disk[writing]).ok
                                       /\ c = Parsed(disk[writing]).value
  BY <1>1, <1>2, <1>3, <1>4
<1>7. (\E i \in 1..Len(Arguments) : Arguments[i] = writing.dir) =>
         (Parsed(content).ok => Parsed(content).value \in saved')
  BY <1>1, <1>2, <1>3, <1>4
<1>8. ~(\E i \in 1..Len(Arguments) : Arguments[i] = writing.dir) => saved' = saved
  <2> SUFFICES ASSUME ~(\E i \in 1..Len(Arguments) : Arguments[i] = writing.dir)
               PROVE  saved' = saved
    OBVIOUS
  <2>1. ListedIn(disk') = ListedIn(disk) /\ writing \notin ListedIn(disk)
    <3>1. \A file : file \in ListedIn(disk') <=> file \in ListedIn(disk)
      BY <1>2
    <3>2. writing \notin ListedIn(disk)
      BY DEF ListedIn
    <3> QED
      BY <3>1, <3>2
  <2>2. \A c : c \in saved <=> c \in saved'
    BY <1>1, <1>3, <1>4, <2>1
  <2> QED
    BY <2>2
<1> QED
  BY <1>1, <1>5, <1>6, <1>7, <1>8
-----------------------------------------------------------------------------
(***************************************************************************)
(* The invariants of the disk and of what is loaded from it.               *)
(***************************************************************************)

(* The file that is written, as WritingInv describes it. *)
LEMMA WritingFacts ==
    ASSUME DiskInv, Writing
    PROVE  /\ writing.of \in Cluster
           /\ writing.prefix # "user"
           /\ CrashWritten => writing.dir = CrashDir
           /\ ~CrashWritten => /\ HaveWorkDir /\ writing.dir = WorkDir
                               /\ Covers[writing.of] \subseteq seen
                               /\ ~StaticLeft
  BY DEF DiskInv, WritingInv, CrashWritten

(* What a write can leave of a file: it is not parsed, or was written whole *)
(* and holds the cluster it is named after.                                 *)
LEMMA WrittenContent ==
    ASSUME DiskInv, Writing, NEW content \in Prefixes(Serialize(writing.of)) \union {<<>>}
    PROVE  /\ content \in Seq(FileByte)
           /\ Parsed(content).ok => Parsed(content).value = writing.of
           /\ Parsed(Serialize(writing.of)).ok
<1>1. writing.of \in Cluster
  BY WritingFacts
<1>2. Serialize(writing.of) \in Seq(FileByte)
  BY <1>1, FormatFits
<1>3. CASE content \in Prefixes(Serialize(writing.of))
  <2>1. content \in Seq(FileByte)
    BY <1>2, <1>3 DEF Prefixes
  <2>2. Parsed(content).ok => Parsed(content).value = writing.of
    BY <1>1, <1>3, FormatFits DEF Parsed
  <2>3. Serialize(writing.of) \in Prefixes(Serialize(writing.of))
    BY <1>2 DEF Prefixes
  <2> QED
    BY <1>1, <2>1, <2>2, <2>3, FormatFits DEF Parsed
<1>4. CASE content = <<>>
  <2>1. Serialize(writing.of) \in Prefixes(Serialize(writing.of))
    BY <1>2 DEF Prefixes
  <2> QED
    BY <1>1, <1>4, <2>1, EmptyFile, FormatFits DEF Parsed
<1> QED
  BY <1>3, <1>4

LEMMA InitDisk == Init => DiskInv
<1> SUFFICES ASSUME Init
             PROVE  DiskInv
  OBVIOUS
<1>1. TypeOK
  BY SessionAssumption, FilesAssumption DEF Init, TypeOK
<1>2. FilesInv
  BY FilesAssumption DEF Init, FilesInv, Parsed
<1>3. WritingInv /\ LoadedInv
  BY DEF Init, WritingInv, LoadedInv, Writing
<1> QED
  BY <1>1, <1>2, <1>3 DEF DiskInv

(* Files change only as WrittenContent says. *)
LEMMA PutKeeps ==
    ASSUME DiskInv, Writing, NEW content \in Prefixes(Serialize(writing.of)) \union {<<>>}, Put(content)
    PROVE  /\ FilesInv'
           /\ \A file \in DOMAIN disk' : disk'[file] \in Seq(FileByte)
           /\ DOMAIN disk \subseteq DOMAIN disk'
           /\ \A c \in saved' : c \in saved \/ (c = writing.of /\ Parsed(content).ok)
           /\ \A c \in saved : c \in saved' \/ c = writing.of
<1>1. FilesInv /\ \A file \in DOMAIN disk : disk[file] \in Seq(FileByte)
  BY DEF DiskInv, TypeOK
<1>2. /\ content \in Seq(FileByte)
      /\ Parsed(content).ok => Parsed(content).value = writing.of
      /\ writing.of \in Cluster /\ writing.prefix # "user"
  BY WrittenContent, WritingFacts
<1>3. /\ DOMAIN disk' = DOMAIN disk \union {writing}
      /\ \A file \in DOMAIN disk' : disk'[file] = IF file = writing THEN content ELSE disk[file]
      /\ saved' = SavedIn(disk')
      /\ \A c \in saved' : c \in saved \/ (Parsed(content).ok /\ c = Parsed(content).value)
      /\ \A c \in saved : c \in saved' \/ /\ writing \in ListedIn(disk)
                                          /\ Parsed(disk[writing]).ok
                                          /\ c = Parsed(disk[writing]).value
  BY <1>1, PutFile
<1>4. FilesInv'
  <2>1. \A file \in DOMAIN disk' : Parsed(disk'[file]).ok =>
          /\ Parsed(disk'[file]).value \in Cluster
          /\ file.prefix # "user" => Parsed(disk'[file]).value = file.of
    BY <1>1, <1>2, <1>3 DEF FilesInv
  <2> QED
    BY <1>3, <2>1 DEF FilesInv, Parsed
<1>5. \A c \in saved : c \in saved' \/ c = writing.of
  BY <1>1, <1>2, <1>3 DEF FilesInv, ListedIn
<1> QED
  BY <1>1, <1>2, <1>3, <1>4, <1>5

(* The steps that leave the files alone, by the conjuncts they can disturb. *)
LEMMA TypeStep == DiskInv /\ [Next]_vars => TypeOK'
<1> SUFFICES ASSUME DiskInv, [Next]_vars
             PROVE  TypeOK'
  OBVIOUS
<1>0. /\ pc \in {"off", "loading", "manager", "opening", "writing"}
      /\ todo \subseteq DOMAIN disk /\ corpusDisk \subseteq Cluster /\ corpus \subseteq Cluster
      /\ seen \subseteq Feature /\ curRuns \in Nat /\ sessions \in 0..MaxSessions
      /\ \A file \in DOMAIN disk : disk[file] \in Seq(FileByte)
      /\ \A c \in Cluster : Covers[c] \subseteq Feature
      /\ EmptyCluster \in Cluster /\ MaxSessions \in Nat
  BY SessionAssumption DEF DiskInv, TypeOK
<1>1. CASE Start
  BY <1>0, <1>1 DEF Start, TypeOK, ListedIn, files
<1>2. CASE Load
  <2>1. ASSUME NEW file \in todo, LoadInputCluster(file)
        PROVE  todo' \subseteq todo /\ corpusDisk' \subseteq Cluster
    <3>1. Parsed(disk[file]).ok => Parsed(disk[file]).value \in Cluster
      BY <1>0, <2>1 DEF DiskInv, FilesInv
    <3> QED
      BY <1>0, <2>1, <3>1 DEF LoadInputCluster, Parsed
  <2> QED
    BY <1>0, <1>2, <2>1 DEF Load, TypeOK, files
<1>3. CASE \E cluster \in corpusDisk : StaticRun(cluster)
  BY <1>0, <1>3 DEF StaticRun, Crash, Shown, Discarded, Kept, TypeOK, files
<1>4. CASE \E cluster \in Cluster : DynamicRun(cluster)
  <2>1. PICK cluster \in Cluster : DynamicRun(cluster)
    BY <1>4
  <2>2. pc' \in {pc, "opening"} /\ seen' \subseteq Feature /\ corpus' \subseteq Cluster
    BY <1>0, <2>1 DEF DynamicRun, Crash, Shown, Discarded, Kept, WriteNew
  <2> QED
    BY <1>0, <2>1, <2>2 DEF DynamicRun, TypeOK, files
<1>5. CASE Open
  <2>1. \A file \in DOMAIN disk' : disk'[file] \in Seq(FileByte)
    BY <1>5, PutKeeps DEF Open, Writing
  <2>2. DOMAIN disk \subseteq DOMAIN disk'
    BY <1>5, PutKeeps DEF Open, Writing
  <2> QED
    BY <1>0, <1>5, <2>1, <2>2 DEF Open, TypeOK, memory
<1>6. CASE OpenFails
  BY <1>0, <1>6 DEF OpenFails, WriteReturns, Forgotten, TypeOK, files, memory
<1>7. CASE Write
  <2>1. /\ \A file \in DOMAIN disk' : disk'[file] \in Seq(FileByte)
        /\ DOMAIN disk \subseteq DOMAIN disk'
    BY <1>7, PutKeeps DEF Write, Writing
  <2> QED
    BY <1>0, <1>7, <2>1 DEF Write, WriteReturns, Forgotten, TypeOK, memory
<1>8. CASE ManagerReturn
  BY <1>0, <1>8 DEF ManagerReturn, Forgotten, TypeOK, files
<1>9. CASE Killed
  <2>1. /\ \A file \in DOMAIN disk' : disk'[file] \in Seq(FileByte)
        /\ DOMAIN disk \subseteq DOMAIN disk'
    <3>1. CASE pc = "writing"
      BY <1>9, <3>1, PutKeeps DEF Killed, Writing
    <3>2. CASE pc # "writing"
      BY <1>0, <1>9, <3>2 DEF Killed, files
    <3> QED
      BY <3>1, <3>2
  <2> QED
    BY <1>0, <1>9, <2>1 DEF Killed, Forgotten, TypeOK
<1>10. CASE Over \/ UNCHANGED vars
  BY <1>0, <1>10 DEF Over, vars, files, memory, TypeOK
<1> QED
  BY <1>1, <1>2, <1>3, <1>4, <1>5, <1>6, <1>7, <1>8, <1>9, <1>10 DEF Next

(* Every step but a write leaves the files alone. *)
LEMMA FilesStep == DiskInv /\ [Next]_vars => FilesInv'
<1> SUFFICES ASSUME DiskInv, [Next]_vars
             PROVE  FilesInv'
  OBVIOUS
<1>1. CASE UNCHANGED files
  BY <1>1 DEF files, DiskInv, FilesInv
<1>2. CASE Open
  BY <1>2, PutKeeps DEF Open, Writing
<1>3. CASE Write \/ (Killed /\ pc = "writing")
  BY <1>3, PutKeeps DEF Write, Killed, Writing
<1> QED
  BY <1>1, <1>2, <1>3 DEF Next, Start, Load, StaticRun, DynamicRun, OpenFails, ManagerReturn,
                          Killed, Over, vars

LEMMA WritingStep == DiskInv /\ [Next]_vars => WritingInv'
<1> SUFFICES ASSUME DiskInv, [Next]_vars
             PROVE  WritingInv'
  OBVIOUS
<1> USE DEF WritingInv, Writing
<1>0. WritingInv /\ pc \in {"off", "loading", "manager", "opening", "writing"} /\ corpusDisk \subseteq Cluster
  BY DEF DiskInv, TypeOK
<1>1. CASE Start
  BY <1>0, <1>1 DEF Start
<1>2. CASE Load
  BY <1>0, <1>2 DEF Load
<1>3. CASE \E cluster \in corpusDisk : StaticRun(cluster)
  <2>1. PICK cluster \in corpusDisk : StaticRun(cluster)
    BY <1>3
  <2>2. CASE Crash(cluster)
    <3>1. /\ writing'.prefix = "crash" /\ writing'.dir = CrashDir
          /\ writing'.of = cluster /\ pc' = "opening"
      BY <2>2 DEF Crash, File
    <3> QED
      BY <1>0, <2>1, <3>1
  <2> QED
    BY <1>0, <2>1, <2>2 DEF StaticRun
<1>4. CASE \E cluster \in Cluster : DynamicRun(cluster)
  <2>1. PICK cluster \in Cluster : DynamicRun(cluster)
    BY <1>4
  <2>2. CASE Crash(cluster)
    <3>1. /\ writing'.prefix = "crash" /\ writing'.dir = CrashDir
          /\ writing'.of = cluster /\ pc' = "opening"
      BY <2>2 DEF Crash, File
    <3> QED
      BY <1>0, <2>1, <3>1
  <2>3. CASE WriteNew(cluster) /\ Shown(cluster) /\ HaveWorkDir
    <3>1. Covers[cluster] \subseteq seen' /\ ~StaticLeft'
      BY <2>1, <2>3 DEF DynamicRun, Shown, StaticLeft
    <3>2. /\ writing'.prefix = "" /\ writing'.dir = WorkDir
          /\ writing'.of = cluster /\ pc' = "opening"
      <4>1. writing' = File(WorkDir, "", cluster) /\ pc' = "opening"
        BY <2>3 DEF WriteNew
      <4> QED
        BY <4>1 DEF File
    <3> QED
      BY <2>1, <2>3, <3>1, <3>2
  <2> QED
    BY <1>0, <2>1, <2>2, <2>3 DEF DynamicRun, WriteNew
<1>5. CASE Open
  BY <1>0, <1>5 DEF Open, memory, StaticLeft
<1>6. CASE OpenFails
  BY <1>0, <1>6 DEF OpenFails, WriteReturns, Forgotten
<1>7. CASE Write
  BY <1>0, <1>7 DEF Write, WriteReturns, Forgotten
<1>8. CASE ManagerReturn \/ Killed
  BY <1>0, <1>8 DEF ManagerReturn, Killed, Forgotten
<1>9. CASE Over \/ UNCHANGED vars
  BY <1>0, <1>9 DEF Over, vars, memory, StaticLeft
<1> QED
  BY <1>1, <1>2, <1>3, <1>4, <1>5, <1>6, <1>7, <1>8, <1>9 DEF Next

LEMMA LoadedStep == DiskInv /\ [Next]_vars => LoadedInv'
<1> SUFFICES ASSUME DiskInv, [Next]_vars
             PROVE  LoadedInv'
  OBVIOUS
<1> USE DEF LoadedInv
<1>0. /\ pc \in {"off", "loading", "manager", "opening", "writing"} /\ LoadedInv /\ WritingInv
      /\ saved = SavedIn(disk) /\ RunStatic \in BOOLEAN
  BY SessionAssumption DEF DiskInv, TypeOK, FilesInv
<1>a. Writing /\ ~CrashWritten => corpusDisk \subseteq {EmptyCluster}
  BY <1>0, WritingFacts DEF StaticLeft
<1>1. CASE Start
  BY <1>0, <1>1 DEF Start, files
<1>2. CASE Load
  <2>1. ASSUME NEW file \in todo, LoadInputCluster(file)
        PROVE  /\ todo' \subseteq todo
               /\ corpusDisk' \subseteq corpusDisk \union saved
    <3>1. Parsed(disk[file]).ok => Parsed(disk[file]).value \in saved
      BY <1>0, <2>1, SavedInDef
    <3> QED
      BY <2>1, <3>1 DEF LoadInputCluster, Parsed
  <2> QED
    BY <1>0, <1>2, <2>1 DEF Load, files
<1>3. CASE \E cluster \in corpusDisk : StaticRun(cluster)
  BY <1>0, <1>3 DEF StaticRun, files
<1>4. CASE \E cluster \in Cluster : DynamicRun(cluster)
  BY <1>0, <1>4 DEF DynamicRun, files
<1>5. CASE Open
  BY <1>0, <1>5 DEF Open, memory
<1>6. CASE OpenFails
  BY <1>0, <1>a, <1>6 DEF OpenFails, WriteReturns, Forgotten, memory, Writing, CrashWritten, ListedIn
<1>7. CASE Write
  BY <1>0, <1>a, <1>7 DEF Write, WriteReturns, Forgotten, memory, Writing, CrashWritten
<1>8. CASE ManagerReturn \/ Killed
  BY <1>0, <1>8 DEF ManagerReturn, Killed, Forgotten
<1>9. CASE Over \/ UNCHANGED vars
  BY <1>0, <1>9 DEF Over, vars, memory, files
<1> QED
  BY <1>1, <1>2, <1>3, <1>4, <1>5, <1>6, <1>7, <1>8, <1>9 DEF Next

LEMMA DiskInvariant == Spec => []DiskInv
<1>1. DiskInv /\ [Next]_vars => DiskInv'
  BY TypeStep, FilesStep, WritingStep, LoadedStep DEF DiskInv
<1> QED
  BY <1>1, InitDisk, PTL DEF Spec

(* The variables keep their types: whatever is loaded is a cluster, and     *)
(* whatever is on the disk is bytes.                                        *)
THEOREM SessionTypes == Spec => []TypeOK
<1>1. DiskInv => TypeOK
  BY DEF DiskInv
<1> QED
  BY <1>1, DiskInvariant, PTL

(* A file that the engine has written, however often it was killed while    *)
(* it wrote, is not parsed or holds the cluster it is named after.          *)
THEOREM NamesHold == Spec => []HoldsItsName
<1>1. DiskInv => HoldsItsName
  BY DEF DiskInv, FilesInv, HoldsItsName, Parsed
<1> QED
  BY <1>1, DiskInvariant, PTL
-----------------------------------------------------------------------------
(***************************************************************************)
(* What was kept is on the disk.                                           *)
(***************************************************************************)

(* The file of a kept cluster is among those that the next session loads.   *)
LEMMA WorkDirListed == HaveWorkDir => \E i \in 1..Len(Arguments) : Arguments[i] = WorkDir
<1> SUFFICES ASSUME HaveWorkDir
             PROVE  \E i \in 1..Len(Arguments) : Arguments[i] = WorkDir
  OBVIOUS
<1>1. Len(Arguments) \in Nat
  BY SessionAssumption
<1>2. DirectoryArguments \in SUBSET Nat /\ DirectoryArguments # {}
  BY <1>1 DEF HaveWorkDir, DirectoryArguments
<1>3. \E m \in DirectoryArguments : \A n \in DirectoryArguments : m <= n
  BY <1>2, SmallestOf
<1>4. Min(DirectoryArguments) \in DirectoryArguments
  BY <1>3 DEF Min
<1> QED
  BY <1>4 DEF DirectoryArguments, WorkDir

LEMMA KeptStep == DiskInv /\ KeptInv /\ [Next]_vars => KeptInv'
<1> SUFFICES ASSUME DiskInv, KeptInv, [Next]_vars
             PROVE  KeptInv'
  OBVIOUS
<1> USE DEF KeptInv, Writing
<1>0. /\ pc \in {"off", "loading", "manager", "opening", "writing"} /\ LoadedInv /\ WritingInv
      /\ Writing /\ ~CrashWritten => HaveWorkDir /\ writing.dir = WorkDir
  BY WritingFacts DEF DiskInv, TypeOK
<1>1. CASE Start
  BY <1>0, <1>1 DEF Start
<1>2. CASE Load
  BY <1>0, <1>2 DEF Load, LoadedInv, files
<1>3. CASE \E cluster \in corpusDisk : StaticRun(cluster)
  <2>1. PICK cluster \in corpusDisk : StaticRun(cluster)
    BY <1>3
  <2>2. CASE Crash(cluster)
    BY <1>0, <2>1, <2>2 DEF StaticRun, Crash, File, CrashWritten
  <2>3. CASE ~Crash(cluster)
    <3>1. /\ corpus' \subseteq corpus \union {cluster}
          /\ pc' = "manager" /\ UNCHANGED <<saved, unwritten>>
      BY <2>1, <2>3 DEF StaticRun, Discarded, Kept, files
    <3> QED
      BY <1>0, <2>1, <3>1 DEF StaticRun, LoadedInv
  <2> QED
    BY <2>2, <2>3
<1>4. CASE \E cluster \in Cluster : DynamicRun(cluster)
  <2>1. PICK cluster \in Cluster : DynamicRun(cluster)
    BY <1>4
  <2>2. CASE Crash(cluster)
    BY <1>0, <2>1, <2>2 DEF DynamicRun, Crash, File, CrashWritten
  <2>3. CASE Discarded /\ UNCHANGED <<pc, writing>>
    BY <1>0, <2>1, <2>3 DEF DynamicRun, Discarded, files
  <2>4. CASE Kept(cluster) /\ WriteNew(cluster) /\ HaveWorkDir
    <3>1. pc' = "opening" /\ writing' = File(WorkDir, "", cluster)
      BY <2>4 DEF WriteNew
    <3>2. writing'.of = cluster
      BY <3>1 DEF File
    <3> QED
      BY <1>0, <2>1, <2>4, <3>1, <3>2 DEF DynamicRun, Kept, files
  <2>5. CASE Kept(cluster) /\ WriteNew(cluster) /\ ~HaveWorkDir
    <3>1. UNCHANGED <<pc, writing>>
      BY <2>5 DEF WriteNew
    <3> QED
      BY <2>1, <2>5, <3>1 DEF DynamicRun
  <2> QED
    BY <2>1, <2>2, <2>3, <2>4, <2>5 DEF DynamicRun
<1>5. CASE Open
  <2>1. \A c \in saved : c \in saved' \/ c = writing.of
    BY <1>5, PutKeeps DEF Open
  <2> QED
    BY <1>0, <1>5, <2>1 DEF Open, memory, CrashWritten
<1>6. CASE OpenFails
  BY <1>0, <1>6 DEF OpenFails, WriteReturns, Forgotten, memory, files, CrashWritten
<1>7. CASE Write
  <2>1. PICK content \in Prefixes(Serialize(writing.of)) :
            Put(content) /\ WriteReturns(content = Serialize(writing.of))
    BY <1>7 DEF Write
  <2>2. CASE CrashWritten
    BY <2>1, <2>2 DEF WriteReturns, CrashWritten
  <2>3. CASE ~CrashWritten
    <3>1. \A c \in saved : c \in saved' \/ c = writing.of
      BY <1>7, <2>1, PutKeeps DEF Write
    <3>2. content = Serialize(writing.of) => writing.of \in saved'
      <4> SUFFICES ASSUME content = Serialize(writing.of)
                   PROVE  writing.of \in saved'
        OBVIOUS
      <4>1. Parsed(content).ok /\ Parsed(content).value = writing.of
        BY <1>7, <2>1, WrittenContent DEF Write
      <4>2. \E i \in 1..Len(Arguments) : Arguments[i] = writing.dir
        BY <1>0, <1>7, <2>3, WorkDirListed DEF Write
      <4> QED
        BY <2>1, <4>1, <4>2, PutFile DEF DiskInv
    <3> QED
      BY <1>7, <2>1, <2>3, <3>1, <3>2 DEF Write, WriteReturns, memory, CrashWritten
  <2> QED
    BY <2>2, <2>3
<1>8. CASE ManagerReturn \/ Killed
  BY <1>0, <1>8 DEF ManagerReturn, Killed, Forgotten
<1>9. CASE Over \/ UNCHANGED vars
  BY <1>0, <1>9 DEF Over, vars, files, memory, CrashWritten
<1> QED
  BY <1>1, <1>2, <1>3, <1>4, <1>5, <1>6, <1>7, <1>8, <1>9 DEF Next

(* Between runs everything in the corpus is on the disk, but the empty      *)
(* cluster and what could not be written: a kill loses one run.             *)
THEOREM KeptHolds == Spec => []KeptIsSaved
<1>1. Init => KeptInv
  BY DEF Init, KeptInv, Writing
<1>2. KeptInv => KeptIsSaved
  BY DEF KeptInv, KeptIsSaved
<1> QED
  BY <1>1, <1>2, KeptStep, DiskInvariant, PTL DEF Spec
-----------------------------------------------------------------------------
(***************************************************************************)
(* What was saved is loaded, run and seen, so that what is saved is new.   *)
(***************************************************************************)
LEMMA CoveredDef ==
    ASSUME NEW clusters, NEW features, \A c \in clusters : Covers[c] \subseteq features
    PROVE  Archive!Covered(clusters) \subseteq features
  BY DEF Archive!Covered

LEMMA SeenStep == RunStatic /\ DiskInv /\ SeenInv /\ [Next]_vars => SeenInv'
<1> SUFFICES ASSUME RunStatic, DiskInv, SeenInv, [Next]_vars
             PROVE  SeenInv'
  OBVIOUS
<1> USE DEF SeenInv, Writing
<1>0. /\ pc \in {"off", "loading", "manager", "opening", "writing"} /\ LoadedInv /\ WritingInv
      /\ Writing /\ ~CrashWritten => Covers[writing.of] \subseteq seen
      /\ \A c : c \in saved <=> \E file \in ListedIn(disk) : Parsed(disk[file]).ok /\ Parsed(disk[file]).value = c
  BY WritingFacts, SavedInDef DEF DiskInv, TypeOK, FilesInv
<1>1. CASE Start
  BY <1>0, <1>1 DEF Start, ToLoad, files
<1>2. CASE Load
  <2>1. CASE todo = {}
    BY <1>0, <1>2, <2>1 DEF Load, ToLoad, files
  <2>2. ASSUME NEW file \in todo, LoadInputCluster(file), pc' = pc
        PROVE  SeenInv'
    <3>1. todo' = todo \ {file}
      BY <2>2 DEF LoadInputCluster
    <3>2. corpusDisk' = corpusDisk \union (IF Parsed(disk[file]).ok THEN {Parsed(disk[file]).value} ELSE {})
      BY <2>2 DEF LoadInputCluster, Parsed
    <3>3. UNCHANGED <<disk, saved>> /\ pc = "loading" /\ pc' = "loading"
      BY <1>2, <2>2 DEF Load, files
    <3>4. ASSUME NEW c \in saved
          PROVE  c \in corpusDisk' \/ ToLoad(c)'
      BY <3>1, <3>2, <3>3 DEF ToLoad
    <3> QED
      BY <3>3, <3>4
  <2> QED
    BY <1>2, <2>1, <2>2 DEF Load
<1>3. CASE \E cluster \in corpusDisk : StaticRun(cluster)
  <2>1. PICK cluster \in corpusDisk : StaticRun(cluster)
    BY <1>3
  <2>2. CASE Crash(cluster)
    BY <1>0, <2>1, <2>2 DEF StaticRun, Crash, File, CrashWritten
  <2>3. CASE ~Crash(cluster)
    BY <1>0, <2>1, <2>3 DEF StaticRun, Shown, files
  <2> QED
    BY <2>2, <2>3
<1>4. CASE \E cluster \in Cluster : DynamicRun(cluster)
  <2>1. PICK cluster \in Cluster : DynamicRun(cluster)
    BY <1>4
  <2>2. CASE Crash(cluster)
    BY <1>0, <2>1, <2>2 DEF DynamicRun, Crash, File, CrashWritten
  <2>3. CASE ~Crash(cluster)
    <3>1. pc = "manager" /\ pc' \in {"manager", "opening"} /\ corpusDisk = {} /\ corpusDisk' = {}
          /\ seen' = seen \union Covers[cluster] /\ saved' = saved
      BY <2>1, <2>3 DEF DynamicRun, StaticLeft, Shown, WriteNew, files
    <3> QED
      BY <1>0, <3>1
  <2> QED
    BY <2>2, <2>3
<1>5. CASE Open
  <2>1. \A c \in saved' : c \in saved \/ (c = writing.of /\ Parsed(<<>>).ok)
    BY <1>5, PutKeeps DEF Open
  <2> QED
    BY <1>0, <1>5, <2>1 DEF Open, memory, CrashWritten
<1>6. CASE OpenFails
  BY <1>0, <1>6 DEF OpenFails, WriteReturns, Forgotten, memory, files, CrashWritten
<1>7. CASE Write
  <2>1. \A c \in saved' : c \in saved \/ c = writing.of
    BY <1>7, PutKeeps DEF Write
  <2> QED
    BY <1>0, <1>7, <2>1 DEF Write, WriteReturns, memory, CrashWritten
<1>8. CASE ManagerReturn \/ Killed
  BY <1>0, <1>8 DEF ManagerReturn, Killed, Forgotten
<1>9. CASE Over \/ UNCHANGED vars
  BY <1>0, <1>9 DEF Over, vars, files, memory, CrashWritten, ToLoad
<1> QED
  BY <1>1, <1>2, <1>3, <1>4, <1>5, <1>6, <1>7, <1>8, <1>9 DEF Next

LEMMA SeenCovers == RunStatic /\ DiskInv /\ SeenInv => SeenCoversSaved
<1> SUFFICES ASSUME RunStatic, DiskInv, SeenInv, pc \in {"manager", "opening", "writing"},
                    ~StaticLeft, ~CrashWritten
             PROVE  Archive!Covered(saved) \subseteq seen
  BY DEF SeenCoversSaved, CrashWritten
<1>1. \A c \in saved : Covers[c] \subseteq seen
  BY DEF SeenInv, StaticLeft, Writing
<1> QED
  BY <1>1, CoveredDef

LEMMA SeenInvariant == RunStatic => (Spec => []SeenInv)
<1> SUFFICES ASSUME RunStatic
             PROVE  Spec => []SeenInv
  OBVIOUS
<1>1. Init => SeenInv
  BY DEF Init, SeenInv, Writing
<1>2. DiskInv /\ SeenInv /\ [Next]_vars => SeenInv'
  BY SeenStep
<1> QED
  BY <1>1, <1>2, DiskInvariant, PTL DEF Spec

(* When the saved clusters have been run, the sensors know all that any of  *)
(* them shows, and nothing is found a second time.                          *)
THEOREM SavedIsSeen == RunStatic => (Spec => []SeenCoversSaved)
<1> SUFFICES ASSUME RunStatic
             PROVE  Spec => []SeenCoversSaved
  OBVIOUS
<1>1. DiskInv /\ SeenInv => SeenCoversSaved
  BY SeenCovers
<1>2. Spec => []SeenInv
  BY SeenInvariant
<1> QED
  BY <1>1, <1>2, DiskInvariant, PTL
-----------------------------------------------------------------------------
(***************************************************************************)
(* The files are an archive, if the clusters of earlier sessions are run   *)
(* first and crashes are written where no session looks for clusters.      *)
(***************************************************************************)
CrashesApart == \A i \in 1..Len(Arguments) : Arguments[i] # CrashDir

LEMMA CoveredMonotone ==
    ASSUME NEW A, NEW B, A \subseteq B
    PROVE  Archive!Covered(A) \subseteq Archive!Covered(B)
  BY DEF Archive!Covered

LEMMA NewStep == RunStatic /\ DiskInv /\ SeenInv /\ NewInv /\ [Next]_vars => NewInv'
<1> SUFFICES ASSUME RunStatic, DiskInv, SeenInv, NewInv, [Next]_vars, Writing', ~CrashWritten'
             PROVE  ~(Covers[writing'.of] \subseteq Archive!Covered(saved'))
  BY DEF NewInv, Archive!Covered
<1> USE DEF Writing, CrashWritten
<1>0. pc \in {"off", "loading", "manager", "opening", "writing"}
  BY DEF DiskInv, TypeOK
<1>1. CASE Writing /\ pc' = pc /\ UNCHANGED <<writing, saved>>
  BY <1>1 DEF NewInv
<1>2. CASE \E cluster \in Cluster : DynamicRun(cluster)
  <2>1. PICK cluster \in Cluster : DynamicRun(cluster)
    BY <1>2
  <2>2. ~Crash(cluster)
    BY DEF Crash, File
  <2>3. pc = "manager" /\ ~StaticLeft /\ saved' = saved /\ IsNew(cluster) /\ WriteNew(cluster) /\ HaveWorkDir
    BY <1>0, <2>1, <2>2 DEF DynamicRun, WriteNew, files
  <2>4. writing'.of = cluster
    <3>1. writing' = File(WorkDir, "", cluster)
      BY <2>3 DEF WriteNew
    <3> QED
      BY <3>1 DEF File
  <2>5. Archive!Covered(saved) \subseteq seen
    <3>1. writing = NoFile
      BY <2>3 DEF DiskInv, WritingInv
    <3>2. writing.prefix # "crash"
      BY <3>1 DEF NoFile, File
    <3> QED
      BY <2>3, <3>2, SeenCovers DEF SeenCoversSaved
  <2> QED
    BY <2>3, <2>4, <2>5 DEF IsNew
<1>3. CASE Open
  <2>1. \A c \in saved' : c \in saved
    BY <1>3, PutKeeps, EmptyFile DEF Open
  <2>2. Archive!Covered(saved') \subseteq Archive!Covered(saved)
    BY <2>1, CoveredMonotone
  <2> QED
    BY <1>3, <2>2 DEF Open, NewInv
<1>4. CASE \E cluster \in corpusDisk : StaticRun(cluster)
  BY <1>0, <1>4 DEF StaticRun, Crash, File
<1>5. CASE Start \/ Load \/ OpenFails \/ Write \/ ManagerReturn \/ Killed
  BY <1>0, <1>5 DEF Start, Load, OpenFails, Write, WriteReturns, ManagerReturn, Killed
<1>6. CASE Over \/ UNCHANGED vars
  BY <1>1, <1>6 DEF Over, vars, files
<1> QED
  BY <1>2, <1>3, <1>4, <1>5, <1>6 DEF Next

LEMMA ArchiveInit == DiskInv => saved \in SUBSET Cluster
<1> SUFFICES ASSUME DiskInv, NEW c \in saved
             PROVE  c \in Cluster
  OBVIOUS
<1>1. PICK file \in ListedIn(disk) : Parsed(disk[file]).ok /\ Parsed(disk[file]).value = c
  BY SavedInDef DEF DiskInv, FilesInv
<1> QED
  BY <1>1 DEF DiskInv, FilesInv, ListedIn

(* A write leaves the archive as it was, or saves what is written. *)
LEMMA ArchivePut ==
    ASSUME RunStatic, CrashesApart, DiskInv, NewInv, Writing,
           NEW content \in Prefixes(Serialize(writing.of)) \union {<<>>}, Put(content)
    PROVE  saved' = saved \/ Archive!Save(writing.of)
<1>1. CASE CrashWritten
  <2>1. ~(\E i \in 1..Len(Arguments) : Arguments[i] = writing.dir)
    BY <1>1, WritingFacts DEF CrashesApart
  <2> QED
    BY <2>1, PutFile DEF DiskInv
<1>2. CASE ~CrashWritten
  <2>1. ~(Covers[writing.of] \subseteq Archive!Covered(saved))
    BY <1>2 DEF NewInv
  <2>2. writing.of \notin saved
    BY <2>1 DEF Archive!Covered
  <2>3. saved \subseteq saved' /\ saved' \subseteq saved \union {writing.of}
    BY <2>2, PutKeeps
  <2>4. saved' = saved \/ saved' = saved \union {writing.of}
    BY <2>3
  <2> QED
    BY <2>1, <2>4 DEF Archive!Save
<1> QED
  BY <1>1, <1>2

LEMMA ArchiveStep ==
    RunStatic /\ CrashesApart /\ DiskInv /\ NewInv /\ [Next]_vars => [Archive!Next]_saved
<1> SUFFICES ASSUME RunStatic, CrashesApart, DiskInv, NewInv, [Next]_vars, saved' # saved
             PROVE  Archive!Next
  OBVIOUS
<1>1. ~(UNCHANGED files)
  BY DEF files
<1>2. /\ Writing
      /\ \E content \in Prefixes(Serialize(writing.of)) \union {<<>>} : Put(content)
  BY <1>1 DEF Next, Start, Load, StaticRun, DynamicRun, Open, OpenFails, Write, ManagerReturn,
              Killed, Over, vars, Writing
<1>3. Archive!Save(writing.of) /\ writing.of \in Cluster
  BY <1>2, ArchivePut, WritingFacts
<1> QED
  BY <1>3 DEF Archive!Next

(* However sessions end, no saved cluster is lost, and each was new to all  *)
(* that was saved before it.                                                *)
THEOREM SessionsAreArchive == RunStatic /\ CrashesApart => (Spec => ArchiveSpec)
<1> SUFFICES ASSUME RunStatic, CrashesApart
             PROVE  Spec => ArchiveSpec
  OBVIOUS
<1>1. Init => NewInv
  BY DEF Init, NewInv, Writing
<1>2. DiskInv /\ SeenInv /\ NewInv /\ [Next]_vars => NewInv'
  BY NewStep
<1>3. Spec => []SeenInv
  BY SeenInvariant
<1>4. Spec => []NewInv
  BY <1>1, <1>2, <1>3, DiskInvariant, PTL DEF Spec
<1>5. DiskInv => Archive!Init
  BY ArchiveInit DEF Archive!Init
<1>6. DiskInv /\ NewInv /\ [Next]_vars => [Archive!Next]_saved
  BY ArchiveStep
<1> QED
  BY <1>4, <1>5, <1>6, DiskInvariant, PTL DEF Spec, ArchiveSpec, Archive!Spec
=============================================================================
