----------------------------- MODULE Inductions -----------------------------
(***************************************************************************)
(* Induction and recursion, as facts about sets.  The library's induction  *)
(* theorems have an operator as a parameter; here induction is over the    *)
(* members of a set instead, from the one of them that has none, WFMin.    *)
(***************************************************************************)
EXTENDS Integers, FiniteSets, FiniteSetTheorems, WellFoundedInduction, TLAPS

(* A set of natural numbers has a smallest one. *)
LEMMA SmallestOf ==
    ASSUME NEW T \in SUBSET Nat, T # {}
    PROVE  \E m \in T : \A n \in T : m <= n
<1> DEFINE R == OpToRel(<, Nat)
<1>1. \A x, y \in Nat : <<y, x>> \in R <=> y < x
  BY DEF OpToRel
<1>2. IsWellFoundedOn(R, Nat)
  BY NatLessThanWellFounded
<1> HIDE DEF R
<1>3. \E x \in T : \A y \in T : ~(<<y, x>> \in R)
  BY <1>2, WFMin
<1>4. PICK x \in T : \A y \in T : ~(<<y, x>> \in R)
  BY <1>3
<1>5. ASSUME NEW y \in T
      PROVE  x <= y
  <2>1. x \in Nat /\ y \in Nat
    OBVIOUS
  <2>2. ~(y < x)
    BY <1>1, <1>4, <2>1
  <2> QED
    BY <2>1, <2>2
<1> QED
  BY <1>5

(* Induction up to n: what holds of 0, and of i if of i - 1. *)
LEMMA UpTo ==
    ASSUME NEW n \in Nat, NEW T, 0 \in T, \A i \in 1..n : i - 1 \in T => i \in T
    PROVE  0..n \subseteq T
<1> SUFFICES ASSUME (0..n) \ T # {}
             PROVE  FALSE
  OBVIOUS
<1> DEFINE U == (0..n) \ T
<1>1. U \in SUBSET Nat /\ U # {}
  OBVIOUS
<1>2. U \subseteq 0..n /\ 0 \notin U /\ \A i \in 0..n : i \in U <=> i \notin T
  OBVIOUS
<1> HIDE DEF U
<1>3. PICK m \in U : \A k \in U : m <= k
  BY <1>1, SmallestOf
<1>4. m \in 1..n /\ m - 1 \in 0..n
  BY <1>2, <1>3
<1>5. m - 1 \notin U
  BY <1>1, <1>3, <1>4
<1> QED
  BY <1>2, <1>3, <1>4, <1>5

(* A function can be defined by recursion up to n, from a step that is a    *)
(* function of the value before and the index.                              *)
IsStep(step, n, V) == step \in [V \X (1..n) -> V]
Follows(g, n, V, base, step) ==
    g \in [0..n -> V] /\ g[0] = base /\ \A i \in 1..n : g[i] = step[<<g[i - 1], i>>]

LEMMA Recursion ==
    ASSUME NEW n \in Nat, NEW V, NEW base \in V, NEW step, IsStep(step, n, V)
    PROVE  \E g : Follows(g, n, V, base, step)
<1>0. step \in [V \X (1..n) -> V]
  BY DEF IsStep
<1> DEFINE P(k, g) == g \in [0..k -> V] /\ g[0] = base /\ \A i \in 1..k : g[i] = step[<<g[i - 1], i>>]
           T == {k \in 0..n : \E g : P(k, g)}
<1>1. 0 \in T
  <2> DEFINE g == [k \in 0..0 |-> base]
  <2>1. P(0, g)
    OBVIOUS
  <2> HIDE DEF P, g
  <2> QED
    BY <2>1
<1>2. ASSUME NEW i \in 1..n, i - 1 \in T
      PROVE  i \in T
  <2>1. PICK g : P(i - 1, g)
    BY <1>2
  <2>2. i - 1 \in 0..(i - 1) /\ i \in 0..n
    OBVIOUS
  <2>3. g[i - 1] \in V /\ step[<<g[i - 1], i>>] \in V
    BY <1>0, <2>1, <2>2
  <2> DEFINE h == [k \in 0..i |-> IF k = i THEN step[<<g[i - 1], i>>] ELSE g[k]]
  <2>4. h \in [0..i -> V]
    BY <2>1, <2>3
  <2>5. h[0] = base
    BY <2>1
  <2>6. ASSUME NEW k \in 1..i
        PROVE  h[k] = step[<<h[k - 1], k>>]
    <3>1. k - 1 \in 0..i /\ k \in 0..i /\ k - 1 # i
      OBVIOUS
    <3>2. h[k - 1] = g[k - 1]
      BY <3>1
    <3>3. CASE k = i
      BY <3>1, <3>2, <3>3
    <3>4. CASE k # i
      <4>1. k \in 1..(i - 1)
        BY <3>4
      <4> QED
        BY <2>1, <3>1, <3>2, <3>4, <4>1
    <3> QED
      BY <3>3, <3>4
  <2>7. P(i, h)
    BY <2>4, <2>5, <2>6
  <2> HIDE DEF P, h
  <2> QED
    BY <2>2, <2>7
<1> HIDE DEF P
<1>3. n \in T
  <2> HIDE DEF T
  <2> QED
    BY <1>1, <1>2, UpTo
<1> QED
  BY <1>3 DEF P, Follows
(* Of sets of members of a finite set, one has none of the others inside. *)
LEMMA SmallestSet ==
    ASSUME NEW S, IsFiniteSet(S), NEW U \in SUBSET (SUBSET S), U # {}
    PROVE  \E m \in U : \A y \in U : y \subseteq m => y = m
<1>1. IsWellFoundedOn(StrictSubsetOrdering(S), FiniteSubsetsOf(S))
  BY FS_StrictSubsetOrderingWellFounded
<1>2. U \subseteq FiniteSubsetsOf(S)
  BY FS_Subset DEF FiniteSubsetsOf
<1>3. \E m \in U : \A y \in U : ~(<<y, m>> \in StrictSubsetOrdering(S))
  BY <1>1, <1>2, WFMin
<1>4. PICK m \in U : \A y \in U : ~(<<y, m>> \in StrictSubsetOrdering(S))
  BY <1>3
<1>5. \A y \in U : y \subseteq m => y = m
  BY <1>4 DEF StrictSubsetOrdering
<1> QED
  BY <1>5

(* Induction over a finite set: what holds of the empty set, and of a set   *)
(* with one more member if of the set.                                      *)
LEMMA OneByOne ==
    ASSUME NEW S, IsFiniteSet(S), NEW P, {} \in P,
           \A T \in SUBSET S : \A x \in S \ T : T \in P => T \union {x} \in P
    PROVE  S \in P
<1> SUFFICES ASSUME S \notin P
             PROVE  FALSE
  OBVIOUS
<1> DEFINE U == (SUBSET S) \ P
<1>1. PICK m \in U : \A y \in U : y \subseteq m => y = m
  <2>1. U \in SUBSET (SUBSET S) /\ U # {}
    OBVIOUS
  <2> HIDE DEF U
  <2> QED
    BY <2>1, SmallestSet
<1>2. PICK x \in m : TRUE
  OBVIOUS
<1>3. m \ {x} \in P /\ x \in S \ (m \ {x}) /\ m \ {x} \in SUBSET S /\ (m \ {x}) \union {x} = m
  BY <1>1, <1>2
<1> QED
  BY <1>3

LEMMA LargestOf ==
    ASSUME NEW S \in SUBSET Nat, IsFiniteSet(S), S # {}
    PROVE  \E m \in S : \A n \in S : n <= m
<1> DEFINE P == {T \in SUBSET S : T = {} \/ \E m \in T : \A n \in T : n <= m}
<1>1. {} \in P
  OBVIOUS
<1>2. ASSUME NEW T \in SUBSET S, NEW x \in S \ T, T \in P
      PROVE  T \union {x} \in P
  <2>1. CASE T = {}
    BY <2>1
  <2>2. CASE T # {}
    <3>1. PICK m \in T : \A n \in T : n <= m
      BY <1>2, <2>2
    <3>2. CASE x <= m
      BY <3>1, <3>2
    <3>3. CASE m <= x
      <4>1. \A n \in T \union {x} : n <= x
        BY <3>1, <3>3
      <4> QED
        BY <4>1
    <3> QED
      BY <3>2, <3>3
  <2> QED
    BY <2>1, <2>2
<1>3. S \in P
  <2> HIDE DEF P
  <2> QED
    BY <1>1, <1>2, OneByOne
<1> QED
  BY <1>3
==============================================================================
