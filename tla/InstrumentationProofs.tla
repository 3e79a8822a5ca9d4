----------------------- MODULE InstrumentationProofs -----------------------
(***************************************************************************)
(* What the allocation tracker holds, what its sum is, and when a cycle    *)
(* counts: for any sensors in use, any code, addresses and sizes.          *)
(***************************************************************************)
EXTENDS Instrumentation, Inductions

(***************************************************************************)
(* Sums: they can be taken in any order.                                   *)
(***************************************************************************)
Numbers(f) == IsFiniteSet(DOMAIN f) /\ f \in [DOMAIN f -> Nat]

(* t gives the sum over each part of the domain, in the order of CHOOSE... *)
Chosen(s) == CHOOSE a \in s : TRUE
SumsBy(t, f, C) ==
    t = [s \in C |-> IF s = {} THEN 0 ELSE f[Chosen(s)] + t[s \ {Chosen(s)}]]
(* ... and whatever member comes last. *)
Sums(t, f) ==
    /\ t \in [SUBSET DOMAIN f -> Nat]
    /\ t[{}] = 0
    /\ \A s \in SUBSET DOMAIN f : \A x \in s : t[s] = f[x] + t[s \ {x}]

LEMMA CanSum ==
    ASSUME NEW f, Numbers(f)
    PROVE  \E t : t \in [SUBSET DOMAIN f -> Nat] /\ SumsBy(t, f, SUBSET DOMAIN f)
<1> DEFINE D == DOMAIN f
           n == Cardinality(D)
           Small(k) == {s \in SUBSET D : Cardinality(s) <= k}
           P(k, g) == g \in [Small(k) -> Nat] /\ SumsBy(g, f, Small(k))
           T == {k \in 0..n : \E g : P(k, g)}
<1>0. /\ n \in Nat
      /\ \A s \in SUBSET D : /\ IsFiniteSet(s) /\ Cardinality(s) \in 0..n
                             /\ Cardinality(s) = 0 <=> s = {}
                             /\ \A x \in s : Cardinality(s \ {x}) = Cardinality(s) - 1
  <2>1. n \in Nat
    BY FS_CardinalityType DEF Numbers
  <2>2. ASSUME NEW s \in SUBSET D
        PROVE  /\ IsFiniteSet(s) /\ Cardinality(s) \in 0..n
               /\ Cardinality(s) = 0 <=> s = {}
               /\ \A x \in s : Cardinality(s \ {x}) = Cardinality(s) - 1
    <3>1. IsFiniteSet(s) /\ Cardinality(s) <= n
      BY FS_Subset DEF Numbers
    <3>2. Cardinality(s) \in Nat /\ (Cardinality(s) = 0 <=> s = {})
      BY <3>1, FS_CardinalityType, FS_EmptySet
    <3>3. \A x \in s : Cardinality(s \ {x}) = Cardinality(s) - 1
      BY <3>1, FS_RemoveElement
    <3> QED
      BY <2>1, <3>1, <3>2, <3>3
  <2> QED
    BY <2>1, <2>2
<1>1. \A s \in SUBSET D : s # {} => Chosen(s) \in s
  BY DEF Chosen
<1>2. 0 \in T
  <2> DEFINE g == [s \in Small(0) |-> 0]
  <2>1. \A s \in Small(0) : s = {}
    BY <1>0
  <2>2. P(0, g)
    BY <2>1 DEF SumsBy
  <2> HIDE DEF P, g
  <2> QED
    BY <1>0, <2>2
<1>3. ASSUME NEW k \in 1..n, k - 1 \in T
      PROVE  k \in T
  <2>1. PICK g : P(k - 1, g)
    BY <1>3
  <2> DEFINE h == [s \in Small(k) |-> IF s = {} THEN 0 ELSE f[Chosen(s)] + g[s \ {Chosen(s)}]]
  <2>2. ASSUME NEW s \in Small(k), s # {}
        PROVE  s \ {Chosen(s)} \in Small(k - 1) /\ s \ {Chosen(s)} \in Small(k) /\ Chosen(s) \in D
    <3>1. Chosen(s) \in s
      BY <1>1, <2>2
    <3>2. Cardinality(s \ {Chosen(s)}) = Cardinality(s) - 1 /\ Cardinality(s) \in Nat /\ Cardinality(s) <= k
      BY <1>0, <3>1
    <3> QED
      BY <3>1, <3>2
  <2>3. \A d \in D : f[d] \in Nat
    BY DEF Numbers
  <2>4. h \in [Small(k) -> Nat]
    <3>1. \A s \in Small(k - 1) : g[s] \in Nat
      BY <2>1
    <3>2. ASSUME NEW s \in Small(k)
          PROVE  (IF s = {} THEN 0 ELSE f[Chosen(s)] + g[s \ {Chosen(s)}]) \in Nat
      <4>1. CASE s = {}
        BY <4>1
      <4>2. CASE s # {}
        <5>1. f[Chosen(s)] \in Nat /\ g[s \ {Chosen(s)}] \in Nat
          BY <2>2, <2>3, <3>1, <4>2
        <5> QED
          BY <4>2, <5>1
      <4> QED
        BY <4>1, <4>2
    <3> HIDE DEF Small
    <3> QED
      BY <3>2
  <2>5. \A s \in Small(k - 1) : g[s] = IF s = {} THEN 0 ELSE f[Chosen(s)] + g[s \ {Chosen(s)}]
    BY <2>1 DEF SumsBy
  <2>6. \A s \in Small(k - 1) : s \in Small(k) /\ h[s] = g[s]
    <3>1. \A s \in Small(k - 1) : s \in Small(k)
      BY <1>0
    <3> HIDE DEF Small
    <3> QED
      BY <2>5, <3>1
  <2>7. \A s \in Small(k) : h[s] = IF s = {} THEN 0 ELSE f[Chosen(s)] + h[s \ {Chosen(s)}]
    <3> HIDE DEF Small
    <3> QED
      BY <2>2, <2>6
  <2>8. h = [s \in Small(k) |-> h[s]]
    OBVIOUS
  <2>9. SumsBy(h, f, Small(k))
    <3> HIDE DEF h, Small
    <3> QED
      BY <2>7, <2>8 DEF SumsBy
  <2>10. P(k, h)
    BY <2>4, <2>9
  <2> HIDE DEF P, h
  <2> QED
    BY <1>0, <2>10
<1>4. n \in T
  <2> HIDE DEF T, n
  <2>1. 0..n \subseteq T
    BY <1>0, <1>2, <1>3, UpTo
  <2> QED
    BY <1>0, <2>1
<1>5. PICK g : P(n, g)
  BY <1>4
<1>6. Small(n) = SUBSET D
  BY <1>0
<1> QED
  BY <1>5, <1>6

LEMMA AnyOrder ==
    ASSUME NEW f, Numbers(f), NEW t, t \in [SUBSET DOMAIN f -> Nat], SumsBy(t, f, SUBSET DOMAIN f)
    PROVE  Sums(t, f)
<1> DEFINE D == DOMAIN f
           U == {s \in SUBSET D : ~(\A x \in s : t[s] = f[x] + t[s \ {x}])}
<1>1. t[{}] = 0
  BY DEF SumsBy
<1>2. ASSUME NEW s \in SUBSET D, s # {}
      PROVE  Chosen(s) \in s /\ t[s] = f[Chosen(s)] + t[s \ {Chosen(s)}]
  BY <1>2 DEF Chosen, SumsBy
<1>3. \A d \in D : f[d] \in Nat
  BY DEF Numbers
<1>4. U = {}
  <2> SUFFICES ASSUME U # {}
               PROVE  FALSE
    OBVIOUS
  <2>1. U \in SUBSET (SUBSET D) /\ IsFiniteSet(D)
    BY DEF Numbers
  <2>2. PICK m \in U : \A y \in U : y \subseteq m => y = m
    <3> HIDE DEF U, D
    <3> QED
      BY <2>1, SmallestSet
  <2>3. m \in SUBSET D /\ \E x \in m : t[m] # f[x] + t[m \ {x}]
    BY <2>2
  <2>4. PICK x \in m : t[m] # f[x] + t[m \ {x}]
    BY <2>3
  <2>5. \A s \in SUBSET D : s \subseteq m /\ s # m => \A z \in s : t[s] = f[z] + t[s \ {z}]
    BY <2>2
  <2> HIDE DEF U
  <2> DEFINE y == Chosen(m)
  <2>6. y \in m /\ t[m] = f[y] + t[m \ {y}] /\ x # y
    BY <1>2, <2>3, <2>4
  <2> HIDE DEF y
  <2>7. t[m \ {y}] = f[x] + t[(m \ {y}) \ {x}]
    BY <2>3, <2>5, <2>6
  <2>8. t[m \ {x}] = f[y] + t[(m \ {x}) \ {y}]
    BY <2>3, <2>5, <2>6
  <2> DEFINE w == t[(m \ {x}) \ {y}]
  <2>9. (m \ {y}) \ {x} = (m \ {x}) \ {y} /\ (m \ {x}) \ {y} \in SUBSET D
    BY <2>3
  <2>10. f[x] \in Nat /\ f[y] \in Nat /\ w \in Nat
    BY <1>3, <2>3, <2>6, <2>9
  <2>11. t[m] = f[y] + (f[x] + w) /\ t[m \ {x}] = f[y] + w
    BY <2>6, <2>7, <2>8, <2>9
  <2> HIDE DEF w
  <2> QED
    BY <2>4, <2>10, <2>11
<1> QED
  BY <1>1, <1>4 DEF Sums

LEMMA TotalIsSum ==
    ASSUME NEW f, Numbers(f)
    PROVE  \E t : Sums(t, f) /\ Total(f) = t[DOMAIN f]
<1> DEFINE D == DOMAIN f
           Def(g) == [s \in SUBSET D |-> IF s = {} THEN 0 ELSE f[Chosen(s)] + g[s \ {Chosen(s)}]]
           t == CHOOSE g : g = Def(g)
<1>1. PICK g : g \in [SUBSET D -> Nat] /\ g = Def(g)
  BY CanSum DEF SumsBy
<1>2. t = Def(t)
  BY <1>1
<1>3. Total(f) = t[D]
  BY DEF Total, MapThenFoldSet, Chosen
<1> HIDE DEF t
<1>4. t \in [SUBSET D -> Nat]
  <2> DEFINE U == {s \in SUBSET D : t[s] \notin Nat}
  <2>1. t = [s \in SUBSET D |-> t[s]]
    BY <1>2
  <2>2. U = {}
    <3> SUFFICES ASSUME U # {}
                 PROVE  FALSE
      OBVIOUS
    <3>1. U \in SUBSET (SUBSET D) /\ IsFiniteSet(D)
      BY DEF Numbers
    <3>2. PICK m \in U : \A y \in U : y \subseteq m => y = m
      <4> HIDE DEF U, D
      <4> QED
        BY <3>1, SmallestSet
    <3>3. t[m] = IF m = {} THEN 0 ELSE f[Chosen(m)] + t[m \ {Chosen(m)}]
      BY <1>2, <3>2
    <3>4. m # {}
      BY <3>2, <3>3
    <3>5. Chosen(m) \in m
      BY <3>4 DEF Chosen
    <3>6. m \ {Chosen(m)} \in SUBSET D /\ m \ {Chosen(m)} \notin U
      BY <3>2, <3>5
    <3>7. t[m \ {Chosen(m)}] \in Nat /\ f[Chosen(m)] \in Nat
      BY <3>2, <3>5, <3>6 DEF Numbers
    <3> QED
      BY <3>2, <3>3, <3>4, <3>7
  <2> QED
    BY <2>1, <2>2
<1>5. SumsBy(t, f, SUBSET DOMAIN f)
  BY <1>2 DEF SumsBy
<1>6. Sums(t, f)
  <2> HIDE DEF D
  <2> QED
    BY <1>4, <1>5, AnyOrder DEF D
<1> QED
  BY <1>3, <1>6

(* A function with one more value, or one less. *)
LEMMA SamePart ==
    ASSUME NEW f, NEW g, Numbers(f), DOMAIN g \subseteq DOMAIN f, \A a \in DOMAIN g : g[a] = f[a],
           Numbers(g), NEW t, NEW u, Sums(t, f), Sums(u, g)
    PROVE  u[DOMAIN g] = t[DOMAIN g]
<1> DEFINE P == {s \in SUBSET DOMAIN g : u[s] = t[s]}
<1>1. {} \in P
  BY DEF Sums
<1>2. ASSUME NEW s \in SUBSET DOMAIN g, NEW x \in DOMAIN g \ s, s \in P
      PROVE  s \union {x} \in P
  <2> DEFINE r == s \union {x}
  <2>1. r \in SUBSET DOMAIN g /\ r \in SUBSET DOMAIN f /\ x \in r /\ r \ {x} = s
    OBVIOUS
  <2> HIDE DEF r
  <2>2. u[r] = g[x] + u[s] /\ t[r] = f[x] + t[s]
    BY <2>1 DEF Sums
  <2> QED
    BY <1>2, <2>1, <2>2 DEF r
<1>3. DOMAIN g \in P
  <2>1. IsFiniteSet(DOMAIN g)
    BY DEF Numbers
  <2> HIDE DEF P
  <2> QED
    BY <1>1, <1>2, <2>1, OneByOne
<1> QED
  BY <1>3

LEMMA TotalWithout ==
    ASSUME NEW f, Numbers(f), NEW a \in DOMAIN f
    PROVE  /\ Numbers(Without(f, a))
           /\ Total(f) = f[a] + Total(Without(f, a))
<1> DEFINE g == Without(f, a)
<1>1. DOMAIN g = DOMAIN f \ {a} /\ \A b \in DOMAIN g : g[b] = f[b]
  BY DEF Without
<1>2. Numbers(g)
  <2>1. IsFiniteSet(DOMAIN f \ {a})
    BY FS_RemoveElement DEF Numbers
  <2> QED
    BY <1>1, <2>1 DEF Numbers, Without
<1> HIDE DEF g
<1>3. PICK t : Sums(t, f) /\ Total(f) = t[DOMAIN f]
  BY TotalIsSum
<1>4. PICK u : Sums(u, g) /\ Total(g) = u[DOMAIN g]
  BY <1>2, TotalIsSum
<1>5. u[DOMAIN g] = t[DOMAIN g]
  BY <1>1, <1>2, <1>3, <1>4, SamePart
<1>6. t[DOMAIN f] = f[a] + t[DOMAIN f \ {a}]
  BY <1>3 DEF Sums
<1> QED
  BY <1>1, <1>2, <1>3, <1>4, <1>5, <1>6 DEF g

LEMMA TotalWith ==
    ASSUME NEW f, Numbers(f), NEW a, a \notin DOMAIN f, NEW v \in Nat
    PROVE  /\ Numbers(With(f, a, v))
           /\ Total(With(f, a, v)) = v + Total(f)
<1> DEFINE g == With(f, a, v)
<1>1. DOMAIN g = DOMAIN f \union {a} /\ g[a] = v /\ \A b \in DOMAIN f : g[b] = f[b]
  BY DEF With
<1>2. Numbers(g)
  <2>1. IsFiniteSet(DOMAIN f \union {a})
    BY FS_AddElement DEF Numbers
  <2> QED
    BY <1>1, <2>1 DEF Numbers, With
<1>3. Without(g, a) = f
  <2>1. Without(g, a) = [b \in DOMAIN f |-> f[b]]
    BY <1>1 DEF Without
  <2> QED
    BY <2>1 DEF Numbers
<1> HIDE DEF g
<1> QED
  BY <1>1, <1>2, <1>3, TotalWithout DEF g

LEMMA TotalType ==
    ASSUME NEW f, Numbers(f)
    PROVE  Total(f) \in Nat /\ (DOMAIN f = {} => Total(f) = 0)
<1>1. PICK t : Sums(t, f) /\ Total(f) = t[DOMAIN f]
  BY TotalIsSum
<1> QED
  BY <1>1 DEF Sums
-----------------------------------------------------------------------------
Block == [size : Nat, known : BOOLEAN, of : {"target", "engine"}]

(* A table of blocks; those that the tracker should know. *)
Blocks(h) == h \in [DOMAIN h -> Block]
Known(h) == {a \in DOMAIN h : h[a].known}
Live(h) == [a \in Known(h) |-> h[a].size]

(* Only a callback that has set the flag is running while it is set. *)
FlagInv ==
    /\ pc \in {"idle", "recording", "flagged", "plain"}
    /\ inLib \in BOOLEAN
    /\ inLib <=> pc = "flagged"
    /\ off \in [Builtin -> BOOLEAN]
    /\ upset \in BOOLEAN
    /\ lost # {} => upset

(* The tracker's map against a heap and the places of lost blocks. *)
Holds(map, h, places) ==
    /\ DOMAIN map = Known(h) \union places
    /\ \A a \in Known(h) \ places : map[a] = h[a].size

HeapInv ==
    /\ Blocks(heap)
    /\ DOMAIN tracker = {"map", "cur", "max"}
    /\ pc # "idle" => Holds(tracker.map, heap, lost)

IInv == FlagInv /\ HeapInv
-----------------------------------------------------------------------------
(* A block is added to a table at a free address. *)
LEMMA BlockAdded ==
    ASSUME NEW h, Blocks(h), NEW a, a \notin DOMAIN h, NEW block \in Block
    PROVE  /\ Blocks(With(h, a, block))
           /\ Known(With(h, a, block)) = Known(h) \union (IF block.known THEN {a} ELSE {})
           /\ block.known => Live(With(h, a, block)) = With(Live(h), a, block.size)
           /\ \A b \in DOMAIN h : With(h, a, block)[b] = h[b]
           /\ With(h, a, block)[a] = block
<1>1. DOMAIN With(h, a, block) = DOMAIN h \union {a}
  BY DEF With
<1>2. \A b \in DOMAIN h : With(h, a, block)[b] = h[b]
  BY DEF With
<1>3. With(h, a, block)[a] = block
  BY DEF With
<1>4. Blocks(With(h, a, block))
  BY DEF With, Blocks
<1>5. Known(With(h, a, block)) = Known(h) \union (IF block.known THEN {a} ELSE {})
  BY <1>1, <1>2, <1>3 DEF Known
<1>6. ASSUME block.known PROVE Live(With(h, a, block)) = With(Live(h), a, block.size)
  <2>1. Known(With(h, a, block)) = Known(h) \union {a}
    BY <1>5, <1>6
  <2>2. \A b \in Known(h) : With(h, a, block)[b].size = h[b].size
    BY <1>2 DEF Known
  <2>3. DOMAIN Live(h) = Known(h) /\ a \notin Known(h)
    BY DEF Live, Known
  <2> QED BY <2>1, <2>2, <2>3, <1>3 DEF Live, With
<1> QED BY <1>2, <1>3, <1>4, <1>5, <1>6

(* A block is taken out of a table. *)
LEMMA BlockRemoved ==
    ASSUME NEW h, Blocks(h), NEW a \in DOMAIN h
    PROVE  /\ Blocks(Without(h, a))
           /\ DOMAIN Without(h, a) = DOMAIN h \ {a}
           /\ Known(Without(h, a)) = Known(h) \ {a}
           /\ \A b \in DOMAIN h \ {a} : Without(h, a)[b] = h[b]
<1>1. DOMAIN Without(h, a) = DOMAIN h \ {a}
  BY DEF Without
<1>2. \A b \in DOMAIN h \ {a} : Without(h, a)[b] = h[b]
  BY DEF Without
<1>3. Blocks(Without(h, a))
  BY DEF Without, Blocks
<1>4. Known(Without(h, a)) = Known(h) \ {a}
  BY <1>1, <1>2 DEF Known
<1> QED BY <1>1, <1>2, <1>3, <1>4

(* The tracker's two operations on a map that is right. *)
LEMMA AddMallocMap ==
    ASSUME NEW a, NEW size, DOMAIN tracker = {"map", "cur", "max"}
    PROVE  /\ DOMAIN AddMalloc(a, size).map = DOMAIN tracker.map \union {a}
           /\ \A b \in DOMAIN tracker.map : AddMalloc(a, size).map[b] = tracker.map[b]
           /\ a \notin DOMAIN tracker.map => AddMalloc(a, size).map[a] = size
           /\ DOMAIN AddMalloc(a, size) = {"map", "cur", "max"}
<1>1. CASE a \in DOMAIN tracker.map
  BY <1>1 DEF AddMalloc
<1>2. CASE a \notin DOMAIN tracker.map
  BY <1>2 DEF AddMalloc, With
<1> QED BY <1>1, <1>2

LEMMA AddFreeMap ==
    ASSUME NEW a, DOMAIN tracker = {"map", "cur", "max"}
    PROVE  /\ DOMAIN AddFree(a).map = DOMAIN tracker.map \ {a}
           /\ \A b \in DOMAIN tracker.map \ {a} : AddFree(a).map[b] = tracker.map[b]
           /\ DOMAIN AddFree(a) = {"map", "cur", "max"}
<1>1. CASE a \in DOMAIN tracker.map
  BY <1>1 DEF AddFree, Without
<1>2. CASE a \notin DOMAIN tracker.map
  BY <1>2 DEF AddFree
<1> QED BY <1>1, <1>2

(* The tracker hears of just what it should.                               *)
LEMMA HearsWhatCounts == FlagInv => (Tracking <=> Counted)
BY DEF FlagInv, Tracking, Hooked, Counted

(* ... so while no block was lost it holds the blocks it should know.      *)
LEMMA NothingLost ==
    ASSUME IInv, pc # "idle", ~upset, Numbers(tracker.map)
    PROVE  tracker.map = Live(heap)
<1>1. lost = {} /\ Holds(tracker.map, heap, lost)
  BY DEF IInv, FlagInv, HeapInv
<1>2. /\ DOMAIN tracker.map = Known(heap)
      /\ \A a \in Known(heap) : tracker.map[a] = heap[a].size
  BY <1>1 DEF Holds
<1>3. tracker.map = [a \in DOMAIN tracker.map |-> tracker.map[a]]
  BY DEF Numbers
<1> QED BY <1>2, <1>3 DEF Live
-----------------------------------------------------------------------------
LEMMA InitIInv == Init => IInv
<1> SUFFICES ASSUME Init PROVE IInv
  OBVIOUS
<1>1. FlagInv
  BY DEF Init, FlagInv
<1>2. heap = None /\ DOMAIN None = {} /\ pc = "idle"
  BY DEF Init, None
<1>3. Blocks(heap)
  BY <1>2 DEF Blocks, None
<1>4. DOMAIN tracker = {"map", "cur", "max"}
  BY DEF Init
<1> QED BY <1>1, <1>2, <1>3, <1>4 DEF IInv, HeapInv

(* A step that leaves the memory alone and stays inside the cycle. *)
LEMMA OutsideHeap ==
    ASSUME HeapInv, UNCHANGED <<heap, tracker, lost>>, pc' # "idle" => pc # "idle"
    PROVE  HeapInv'
BY DEF HeapInv, Blocks, Known, Holds

(* malloc_hook_malloc, by anybody at any time. *)
LEMMA HookMallocKeeps ==
    ASSUME IInv, NEW p, NEW a, NEW size \in Nat, NEW owner \in {"target", "engine"},
           HookMalloc(p, a, size, owner), pc' = pc
    PROVE  HeapInv'
<1> DEFINE block == [size |-> size, known |-> Counted, of |-> owner]
<1>1. Counted \in BOOLEAN /\ (Counted <=> Tracking)
  BY HearsWhatCounts DEF IInv, Counted
<1>2. block \in Block /\ block.known = Counted /\ block.size = size
  BY <1>1 DEF Block
<1>3. heap' = With(heap, a, block) /\ a \notin DOMAIN heap /\ lost' = lost
  BY DEF HookMalloc
<1>4. Blocks(heap) /\ DOMAIN tracker = {"map", "cur", "max"}
  BY DEF IInv, HeapInv
<1>5. tracker' = IF Tracking THEN AddMalloc(a, size) ELSE tracker
  BY DEF HookMalloc
<1>6. DOMAIN tracker' = {"map", "cur", "max"}
  BY <1>4, <1>5, AddMallocMap
<1> HIDE DEF block
<1>7. /\ Blocks(heap') /\ Known(heap') = Known(heap) \union (IF Counted THEN {a} ELSE {})
      /\ \A b \in DOMAIN heap : heap'[b] = heap[b]
      /\ heap'[a] = block
  BY <1>2, <1>3, <1>4, BlockAdded
<1>8. Known(heap) \subseteq DOMAIN heap
  BY DEF Known
<1>9. ASSUME pc # "idle" PROVE Holds(tracker'.map, heap', lost)
  <2>1. /\ DOMAIN tracker.map = Known(heap) \union lost
        /\ \A b \in Known(heap) \ lost : tracker.map[b] = heap[b].size
    BY <1>9 DEF IInv, HeapInv, Holds
  <2>2. CASE Tracking
    <3>1. /\ DOMAIN tracker'.map = DOMAIN tracker.map \union {a}
          /\ \A b \in DOMAIN tracker.map : tracker'.map[b] = tracker.map[b]
          /\ a \notin DOMAIN tracker.map => tracker'.map[a] = size
      BY <2>2, <1>4, <1>5, AddMallocMap
    <3>2. Known(heap') = Known(heap) \union {a}
      BY <2>2, <1>1, <1>7
    <3>3. ASSUME NEW b \in Known(heap') \ lost PROVE tracker'.map[b] = heap'[b].size
      <4>1. CASE b = a
        <5>1. a \notin DOMAIN tracker.map
          BY <4>1, <3>3, <2>1, <1>3, <1>8
        <5> QED BY <5>1, <4>1, <3>1, <1>7, <1>2
      <4>2. CASE b # a
        <5>1. b \in Known(heap) \ lost /\ b \in DOMAIN heap /\ b \in DOMAIN tracker.map
          BY <4>2, <3>2, <3>3, <2>1, <1>8
        <5> QED BY <5>1, <3>1, <2>1, <1>7
      <4> QED BY <4>1, <4>2
    <3> QED BY <3>1, <3>2, <3>3, <2>1 DEF Holds
  <2>3. CASE ~Tracking
    <3>1. tracker' = tracker /\ Known(heap') = Known(heap)
      BY <2>3, <1>1, <1>5, <1>7
    <3> QED BY <3>1, <2>1, <1>7, <1>8 DEF Holds
  <2> QED BY <2>2, <2>3
<1> QED BY <1>3, <1>6, <1>7, <1>9 DEF HeapInv

LEMMA ReallocKeeps ==
    ASSUME IInv, NEW a, NEW b, NEW size \in Nat, Realloc(a, b, size)
    PROVE  HeapInv'
<1> DEFINE block == [size |-> size, known |-> FALSE, of |-> "target"]
           rest == Without(heap, a)
<1>1. block \in Block /\ ~block.known
  BY DEF Block
<1>2. a \in DOMAIN heap /\ (b \notin DOMAIN heap \/ b = a) /\ heap' = With(rest, b, block)
  BY DEF Realloc
<1>3. Blocks(heap)
  BY DEF IInv, HeapInv
<1>4. /\ Blocks(rest) /\ DOMAIN rest = DOMAIN heap \ {a} /\ Known(rest) = Known(heap) \ {a}
      /\ \A c \in DOMAIN heap \ {a} : rest[c] = heap[c]
  BY <1>2, <1>3, BlockRemoved
<1>5. b \notin DOMAIN rest
  BY <1>2, <1>4
<1> HIDE DEF block, rest
<1>6. /\ Blocks(heap') /\ Known(heap') = Known(rest)
      /\ \A c \in DOMAIN rest : heap'[c] = rest[c]
  BY <1>1, <1>2, <1>4, <1>5, BlockAdded
<1>7. tracker' = tracker /\ pc' = pc /\ pc # "idle"
  BY DEF Realloc, Event
<1>8. lost' = IF heap[a].known THEN lost \union {a} ELSE lost
  BY DEF Realloc, Lose
<1>9. Holds(tracker.map, heap, lost) /\ Known(heap) \subseteq DOMAIN heap
  BY <1>7 DEF IInv, HeapInv, Known
<1>10. heap[a].known <=> a \in Known(heap)
  BY <1>2 DEF Known
<1>11. Known(heap') \union lost' = Known(heap) \union lost
  BY <1>4, <1>6, <1>8, <1>10
<1>12. ASSUME NEW c \in Known(heap') \ lost' PROVE tracker.map[c] = heap'[c].size
  <2>1. c \in Known(heap) \ lost /\ c # a /\ c \in DOMAIN heap
    BY <1>12, <1>4, <1>6, <1>8, <1>9
  <2> QED BY <2>1, <1>4, <1>6, <1>9 DEF Holds
<1> QED BY <1>6, <1>7, <1>9, <1>11, <1>12 DEF HeapInv, IInv, Holds

LEMMA FreeKeeps ==
    ASSUME IInv, NEW a, Free(a)
    PROVE  HeapInv'
<1>1. a \in DOMAIN heap /\ heap' = Without(heap, a) /\ pc' = pc
  BY DEF Free
<1>2. Blocks(heap) /\ DOMAIN tracker = {"map", "cur", "max"}
  BY DEF IInv, HeapInv
<1>3. /\ Blocks(heap') /\ Known(heap') = Known(heap) \ {a}
      /\ \A c \in DOMAIN heap \ {a} : heap'[c] = heap[c]
  BY <1>1, <1>2, BlockRemoved
<1>4. tracker' = IF Counted THEN AddFree(a) ELSE tracker
  BY HearsWhatCounts DEF Free, IInv
<1>5. DOMAIN tracker' = {"map", "cur", "max"}
  BY <1>2, <1>4, AddFreeMap
<1>6. ASSUME pc # "idle" PROVE Holds(tracker'.map, heap', lost')
  <2>1. /\ DOMAIN tracker.map = Known(heap) \union lost
        /\ \A b \in Known(heap) \ lost : tracker.map[b] = heap[b].size
    BY <1>6 DEF IInv, HeapInv, Holds
  <2>2. Known(heap) \subseteq DOMAIN heap /\ (heap[a].known <=> a \in Known(heap))
    BY <1>1 DEF Known
  <2>3. CASE Counted
    <3>1. lost' = lost \ {a} /\ tracker' = AddFree(a)
      BY <2>3, <1>4 DEF Free, Lose
    <3>2. /\ DOMAIN tracker'.map = DOMAIN tracker.map \ {a}
          /\ \A b \in DOMAIN tracker.map \ {a} : tracker'.map[b] = tracker.map[b]
      BY <3>1, <1>2, AddFreeMap
    <3>3. ASSUME NEW c \in Known(heap') \ lost' PROVE tracker'.map[c] = heap'[c].size
      <4>1. c # a /\ c \in Known(heap) \ lost /\ c \in DOMAIN heap /\ c \in DOMAIN tracker.map
        BY <3>3, <3>1, <1>3, <2>1, <2>2
      <4> QED BY <4>1, <3>2, <2>1, <1>3
    <3>4. DOMAIN tracker'.map = Known(heap') \union lost'
      BY <3>1, <3>2, <2>1, <1>3
    <3> QED BY <3>3, <3>4 DEF Holds
  <2>4. CASE ~Counted
    <3>1. lost' = (IF a \in Known(heap) THEN lost \union {a} ELSE lost) /\ tracker' = tracker
      BY <2>4, <2>2, <1>4, <1>6 DEF Free, Lose
    <3>2. Known(heap') \union lost' = Known(heap) \union lost
      BY <3>1, <1>3
    <3>3. ASSUME NEW c \in Known(heap') \ lost' PROVE tracker'.map[c] = heap'[c].size
      <4>1. c # a /\ c \in Known(heap) \ lost /\ c \in DOMAIN heap
        BY <3>3, <3>1, <1>3, <2>2
      <4> QED BY <4>1, <3>1, <2>1, <1>3
    <3> QED BY <3>1, <3>2, <3>3, <2>1 DEF Holds
  <2> QED BY <2>3, <2>4
<1> QED BY <1>1, <1>3, <1>5, <1>6 DEF HeapInv

(* The history of lost blocks. *)
LEMMA LoseKeeps ==
    ASSUME FlagInv, NEW places, Lose(places), UNCHANGED <<pc, inLib, off>>
    PROVE  FlagInv'
<1>1. lost' = places /\ upset' = (upset \/ places # {})
  BY DEF Lose
<1> QED BY <1>1 DEF FlagInv
-----------------------------------------------------------------------------
(* Every step keeps the invariant: one step of the proof for each action. *)
LEMMA NextIInv == IInv /\ [Next]_vars => IInv'
<1> SUFFICES ASSUME IInv, [Next]_vars PROVE IInv'
  OBVIOUS
<1>0. Sizes \subseteq Nat
  BY InstrumentationAssumption
<1>1. CASE StartRecord
  <2>1. FlagInv'
    BY <1>1 DEF StartRecord, IInv, FlagInv
  <2>2. /\ DOMAIN heap' = DOMAIN heap
        /\ \A a \in DOMAIN heap : heap'[a] = [heap[a] EXCEPT !.known = FALSE]
    BY <1>1 DEF StartRecord
  <2>3. Blocks(heap') /\ Known(heap') = {}
    <3>1. \A a \in DOMAIN heap : heap'[a] \in Block /\ ~heap'[a].known
      BY <2>2 DEF IInv, HeapInv, Blocks, Block
    <3>2. heap' = [a \in DOMAIN heap |-> [heap[a] EXCEPT !.known = FALSE]]
      BY <1>1 DEF StartRecord
    <3> QED BY <3>1, <3>2, <2>2 DEF Blocks, Known
  <2>4. tracker'.map = None /\ DOMAIN tracker' = {"map", "cur", "max"} /\ lost' = {}
    BY <1>1 DEF StartRecord, IInv, HeapInv
  <2>5. Holds(None, heap', {})
    BY <2>3 DEF None, Holds
  <2> QED BY <2>1, <2>3, <2>4, <2>5 DEF IInv, HeapInv
<1>2. CASE StopRecord
  <2>1. pc' = "idle" /\ pc = "recording" /\ UNCHANGED <<inLib, off, heap, tracker, lost, upset>>
    BY <1>2 DEF StopRecord, ofHeap
  <2>2. FlagInv'
    BY <2>1 DEF IInv, FlagInv
  <2>3. HeapInv'
    BY <2>1, OutsideHeap DEF IInv
  <2> QED BY <2>2, <2>3 DEF IInv
<1>3. ASSUME NEW b \in Builtin, SetOff(b) PROVE IInv'
  <2>1. off' = [off EXCEPT ![b] = ~@] /\ UNCHANGED <<pc, inLib, heap, tracker, lost, upset>>
    BY <1>3 DEF SetOff, ofHeap
  <2>2. off' \in [Builtin -> BOOLEAN]
    BY <2>1 DEF IInv, FlagInv
  <2>3. FlagInv' /\ HeapInv'
    BY <2>1, <2>2, OutsideHeap DEF IInv, FlagInv
  <2> QED BY <2>3 DEF IInv
<1>4. ASSUME NEW p \in PC, NEW a \in Address, NEW size \in Sizes, NEW owner \in {"target", "engine"},
             HookMalloc(p, a, size, owner), UNCHANGED <<pc, inLib, off>>
      PROVE  IInv'
  <2>1. FlagInv'
    BY <1>4 DEF HookMalloc, IInv, FlagInv
  <2>2. HeapInv'
    BY <1>0, <1>4, HookMallocKeeps
  <2> QED BY <2>1, <2>2 DEF IInv
<1>5. ASSUME NEW p \in PC, NEW a \in Address, NEW size \in Sizes,
             Malloc(p, a, size) \/ EngineMalloc(p, a, size)
      PROVE  IInv'
  BY <1>4, <1>5 DEF Malloc, EngineMalloc, Event
<1>6. ASSUME NEW a \in Address, NEW b \in Address, NEW size \in Sizes, Realloc(a, b, size) PROVE IInv'
  <2>1. FlagInv'
    BY <1>6, LoseKeeps DEF Realloc, IInv
  <2>2. HeapInv'
    BY <1>0, <1>6, ReallocKeeps
  <2> QED BY <2>1, <2>2 DEF IInv
<1>7. ASSUME NEW a \in Address, Free(a) PROVE IInv'
  <2>1. FlagInv'
    BY <1>7, LoseKeeps DEF Free, IInv
  <2>2. HeapInv'
    BY <1>7, FreeKeeps
  <2> QED BY <2>1, <2>2 DEF IInv
<1>8. ASSUME NEW g \in Guards, Guard(g) PROVE IInv'
  <2>1. pc = "recording" /\ pc' = "flagged" /\ inLib' = TRUE /\ UNCHANGED <<off, heap, tracker, lost, upset>>
    BY <1>8 DEF Guard, Event, ofHeap
  <2>2. FlagInv' /\ HeapInv'
    BY <2>1, OutsideHeap DEF IInv, FlagInv
  <2> QED BY <2>2 DEF IInv
<1>9. ASSUME pc = "recording", UNCHANGED <<off, heap, tracker, lost, upset>>,
             \/ pc' = "flagged" /\ inLib' = TRUE
             \/ pc' = "plain" /\ inLib' = inLib
      PROVE  IInv'
  <2>1. HeapInv'
    BY <1>9, OutsideHeap DEF IInv
  <2>2. inLib = FALSE
    BY <1>9 DEF IInv, FlagInv
  <2>3. pc' \in {"flagged", "plain"} /\ inLib' \in BOOLEAN /\ (inLib' <=> pc' = "flagged")
    BY <1>9, <2>2
  <2>4. off' \in [Builtin -> BOOLEAN] /\ upset' \in BOOLEAN /\ (lost' # {} => upset')
    BY <1>9 DEF IInv, FlagInv
  <2>5. FlagInv'
    BY <2>3, <2>4 DEF FlagInv
  <2> QED BY <2>1, <2>5 DEF IInv
<1>10. ASSUME NEW c, HandleCmp(c) PROVE pc = "recording" /\ UNCHANGED <<off, heap, tracker, lost, upset>>
  BY <1>10 DEF HandleCmp, Event, ofHeap
<1>11. ASSUME NEW c \in Compares, TraceCmp(c) \/ TraceDiv(c) PROVE IInv'
  BY <1>9, <1>10, <1>11 DEF TraceCmp, TraceDiv
<1>12. ASSUME NEW s \in Switches, TraceSwitch(s) PROVE IInv'
  <2>1. PICK c : HandleCmp(c) /\ pc' = "plain" /\ inLib' = inLib
    BY <1>12 DEF TraceSwitch
  <2> QED BY <1>9, <1>10, <2>1
<1>13. ASSUME NEW seen, ProfileOnly(seen) PROVE IInv'
  <2>1. pc = "recording" /\ UNCHANGED <<off, heap, tracker, lost, upset>> /\ pc' = "plain" /\ inLib' = inLib
    BY <1>13 DEF ProfileOnly, Event, ofHeap
  <2> QED BY <1>9, <2>1
<1>14. ASSUME NEW call \in Calls, TraceIndir(call) PROVE IInv'
  BY <1>13, <1>14 DEF TraceIndir
<1>15. ASSUME NEW m \in Memcmps, HookMemcmp(m) PROVE IInv'
  BY <1>13, <1>15 DEF HookMemcmp
<1>16. CASE Return
  <2>1. pc # "idle" /\ UNCHANGED <<off, heap, tracker, lost, upset>>
    BY <1>16 DEF Return, Leave, ofHeap
  <2>2. FlagInv' /\ HeapInv'
    BY <1>16, <2>1, OutsideHeap DEF Return, Leave, IInv, FlagInv
  <2> QED BY <2>2 DEF IInv
<1>17. CASE UNCHANGED vars
  <2>1. UNCHANGED <<pc, inLib, off, heap, tracker, lost, upset>>
    BY <1>17 DEF vars, ofHeap
  <2>2. FlagInv' /\ HeapInv'
    BY <2>1, OutsideHeap DEF IInv, FlagInv
  <2> QED BY <2>2 DEF IInv
<1>18. Over => UNCHANGED vars
  BY DEF Over
<1> QED
  BY <1>1, <1>2, <1>3, <1>5, <1>6, <1>7, <1>8, <1>11, <1>12, <1>14, <1>15, <1>16, <1>17, <1>18
     DEF Next

(***************************************************************************)
(* The tables of the allocator and of the tracker.                         *)
(***************************************************************************)
AllocInv ==
    /\ IsFiniteSet(DOMAIN heap) /\ DOMAIN heap \subseteq Address
    /\ \A a \in DOMAIN heap : heap[a].size \in Sizes
    /\ Numbers(tracker.map) /\ DOMAIN tracker.map \subseteq Address
    /\ tracker.cur = Total(tracker.map)
    /\ {tracker.max, peak, best, reported} \subseteq Nat

LEMMA EmptyNumbers == Numbers(None) /\ DOMAIN None = {} /\ Total(None) = 0
<1>1. Numbers(None) /\ DOMAIN None = {}
  BY FS_EmptySet DEF Numbers, None
<1> QED
  BY <1>1, TotalType

LEMMA UsageType ==
    ASSUME NEW h, Blocks(h), IsFiniteSet(DOMAIN h)
    PROVE  Numbers(Live(h)) /\ Usage(h) = Total(Live(h)) /\ Usage(h) \in Nat
<1>1. Known(h) \subseteq DOMAIN h /\ DOMAIN Live(h) = Known(h)
  BY DEF Known, Live
<1>2. IsFiniteSet(Known(h))
  BY <1>1, FS_Subset
<1>3. \A a \in Known(h) : h[a].size \in Nat
  BY <1>1 DEF Blocks, Block
<1>4. Numbers(Live(h))
  BY <1>1, <1>2, <1>3 DEF Numbers, Live
<1>5. Usage(h) = Total(Live(h))
  BY DEF Usage, Live, Known
<1> QED
  BY <1>4, <1>5, TotalType

(* AllocationTracker::AddMalloc and AddFree: curAlloc stays the sum. *)
LEMMA AddMallocSum ==
    ASSUME Numbers(tracker.map), tracker.cur = Total(tracker.map), tracker.max \in Nat,
           NEW a \in Address, DOMAIN tracker.map \subseteq Address, NEW size \in Nat,
           DOMAIN tracker = {"map", "cur", "max"}
    PROVE  /\ Numbers(AddMalloc(a, size).map) /\ DOMAIN AddMalloc(a, size).map \subseteq Address
           /\ AddMalloc(a, size).cur = Total(AddMalloc(a, size).map)
           /\ AddMalloc(a, size).max \in Nat
<1>1. CASE a \in DOMAIN tracker.map
  BY <1>1 DEF AddMalloc
<1>2. CASE a \notin DOMAIN tracker.map
  <2>1. Numbers(With(tracker.map, a, size)) /\ Total(With(tracker.map, a, size)) = size + Total(tracker.map)
    BY <1>2, TotalWith
  <2>2. DOMAIN With(tracker.map, a, size) \subseteq Address
    BY DEF With
  <2>3. Total(tracker.map) \in Nat
    BY TotalType
  <2> QED
    BY <1>2, <2>1, <2>2, <2>3 DEF AddMalloc
<1> QED
  BY <1>1, <1>2

LEMMA AddFreeSum ==
    ASSUME Numbers(tracker.map), tracker.cur = Total(tracker.map), tracker.max \in Nat,
           NEW a, DOMAIN tracker.map \subseteq Address,
           DOMAIN tracker = {"map", "cur", "max"}
    PROVE  /\ Numbers(AddFree(a).map) /\ DOMAIN AddFree(a).map \subseteq Address
           /\ AddFree(a).cur = Total(AddFree(a).map)
           /\ AddFree(a).max = tracker.max
<1>1. CASE a \notin DOMAIN tracker.map
  BY <1>1 DEF AddFree
<1>2. CASE a \in DOMAIN tracker.map
  <2>1. /\ Numbers(Without(tracker.map, a))
        /\ Total(tracker.map) = tracker.map[a] + Total(Without(tracker.map, a))
    BY <1>2, TotalWithout
  <2>2. DOMAIN Without(tracker.map, a) \subseteq Address
    BY DEF Without
  <2>3. Total(Without(tracker.map, a)) \in Nat /\ tracker.map[a] \in Nat
    BY <1>2, <2>1, TotalType DEF Numbers
  <2>4. /\ AddFree(a).map = Without(tracker.map, a)
        /\ AddFree(a).cur = tracker.cur - tracker.map[a]
        /\ AddFree(a).max = tracker.max
    BY <1>2 DEF AddFree
  <2> QED
    BY <2>1, <2>2, <2>3, <2>4
<1> QED
  BY <1>1, <1>2

(* The heap with a block more, or less. *)
LEMMA HeapWith ==
    ASSUME NEW h, IsFiniteSet(DOMAIN h), DOMAIN h \subseteq Address, \A b \in DOMAIN h : h[b].size \in Sizes,
           NEW a \in Address, NEW block, block.size \in Sizes
    PROVE  /\ IsFiniteSet(DOMAIN With(h, a, block)) /\ DOMAIN With(h, a, block) \subseteq Address
           /\ \A b \in DOMAIN With(h, a, block) : With(h, a, block)[b].size \in Sizes
<1>1. IsFiniteSet(DOMAIN h \union {a})
  BY FS_AddElement
<1> QED
  BY <1>1 DEF With

LEMMA HeapWithout ==
    ASSUME NEW h, IsFiniteSet(DOMAIN h), DOMAIN h \subseteq Address, \A b \in DOMAIN h : h[b].size \in Sizes,
           NEW a
    PROVE  /\ IsFiniteSet(DOMAIN Without(h, a)) /\ DOMAIN Without(h, a) \subseteq Address
           /\ \A b \in DOMAIN Without(h, a) : Without(h, a)[b].size \in Sizes
<1>1. IsFiniteSet(DOMAIN h \ {a})
  BY FS_Subset
<1> QED
  BY <1>1 DEF Without

LEMMA HookMallocAlloc ==
    ASSUME IInv, IInv', AllocInv, NEW p, NEW a \in Address, NEW size \in Sizes, NEW owner,
           HookMalloc(p, a, size, owner)
    PROVE  AllocInv'
<1> DEFINE block == [size |-> size, known |-> Counted, of |-> owner]
<1>1. block.size \in Sizes /\ size \in Nat /\ heap' = With(heap, a, block)
  BY InstrumentationAssumption DEF HookMalloc
<1>2. /\ IsFiniteSet(DOMAIN heap') /\ DOMAIN heap' \subseteq Address
      /\ \A b \in DOMAIN heap' : heap'[b].size \in Sizes
  <2> HIDE DEF block
  <2> QED
    BY <1>1, HeapWith DEF AllocInv
<1>3. Usage(heap') \in Nat
  BY <1>2, UsageType DEF IInv, HeapInv
<1>4. {peak', best', reported'} \subseteq Nat
  BY <1>3 DEF HookMalloc, AllocInv
<1>5. tracker' = tracker \/ tracker' = AddMalloc(a, size)
  BY DEF HookMalloc
<1>6. /\ Numbers(tracker'.map) /\ DOMAIN tracker'.map \subseteq Address
      /\ tracker'.cur = Total(tracker'.map) /\ tracker'.max \in Nat
  BY <1>1, <1>5, AddMallocSum DEF AllocInv, IInv, HeapInv
<1> QED
  BY <1>2, <1>4, <1>6 DEF AllocInv

LEMMA InitAllocInv == Init => AllocInv
  BY EmptyNumbers, FS_EmptySet DEF Init, AllocInv

LEMMA NextAllocInv == IInv /\ IInv' /\ AllocInv /\ [Next]_vars => AllocInv'
<1> SUFFICES ASSUME IInv, IInv', AllocInv, [Next]_vars
             PROVE  AllocInv'
  OBVIOUS
<1>1. CASE StartRecord
  <2>1. DOMAIN heap' = DOMAIN heap /\ \A a \in DOMAIN heap : heap'[a].size = heap[a].size
    <3>1. \A a \in DOMAIN heap : heap[a] \in Block
      BY DEF IInv, HeapInv, Blocks
    <3> QED
      BY <1>1, <3>1 DEF StartRecord, Block
  <2>2. tracker'.map = None /\ tracker'.cur = 0 /\ tracker'.max = tracker.max
    BY <1>1 DEF StartRecord, IInv, HeapInv
  <2>3. peak' = 0 /\ best' \in {peak, best} /\ reported' \in {peak, best, reported}
    BY <1>1 DEF StartRecord
  <2> QED
    BY <2>1, <2>2, <2>3, EmptyNumbers DEF AllocInv
<1>2. ASSUME NEW p \in PC, NEW a \in Address, NEW size \in Sizes, Malloc(p, a, size) \/ EngineMalloc(p, a, size)
      PROVE  AllocInv'
  BY <1>2, HookMallocAlloc DEF Malloc, EngineMalloc
<1>4. ASSUME NEW a \in Address, NEW b \in Address, NEW size \in Sizes, Realloc(a, b, size)
      PROVE  AllocInv'
  <2> DEFINE block == [size |-> size, known |-> FALSE, of |-> "target"]
             rest == Without(heap, a)
  <2>1. block.size \in Sizes /\ heap' = With(rest, b, block) /\ UNCHANGED <<tracker, peak, best, reported>>
    BY <1>4 DEF Realloc
  <2>2. /\ IsFiniteSet(DOMAIN rest) /\ DOMAIN rest \subseteq Address
        /\ \A c \in DOMAIN rest : rest[c].size \in Sizes
    BY HeapWithout DEF AllocInv
  <2> HIDE DEF block, rest
  <2>3. /\ IsFiniteSet(DOMAIN heap') /\ DOMAIN heap' \subseteq Address
        /\ \A c \in DOMAIN heap' : heap'[c].size \in Sizes
    BY <2>1, <2>2, HeapWith
  <2> QED
    BY <2>1, <2>3 DEF AllocInv
<1>5. ASSUME NEW a \in Address, Free(a)
      PROVE  AllocInv'
  <2>1. /\ heap' = Without(heap, a) /\ UNCHANGED <<peak, best, reported>>
        /\ tracker' = tracker \/ tracker' = AddFree(a)
    BY <1>5 DEF Free
  <2>2. /\ IsFiniteSet(DOMAIN heap') /\ DOMAIN heap' \subseteq Address
        /\ \A c \in DOMAIN heap' : heap'[c].size \in Sizes
    BY <2>1, HeapWithout DEF AllocInv
  <2>3. /\ Numbers(tracker'.map) /\ DOMAIN tracker'.map \subseteq Address
        /\ tracker'.cur = Total(tracker'.map) /\ tracker'.max \in Nat
    BY <2>1, AddFreeSum DEF AllocInv, IInv, HeapInv
  <2> QED
    BY <2>1, <2>2, <2>3 DEF AllocInv
<1>6. CASE UNCHANGED <<heap, tracker, peak, best, reported>>
  BY <1>6 DEF AllocInv
<1> QED
  BY <1>1, <1>2, <1>4, <1>5, <1>6
     DEF Next, StopRecord, SetOff, Guard, TraceCmp, TraceDiv, TraceSwitch, HandleCmp, TraceIndir, HookMemcmp,
         ProfileOnly, Return, Over, vars, ofHeap

-----------------------------------------------------------------------------
(***************************************************************************)
(* What the sensors are told, and the numbers they make of it.             *)
(***************************************************************************)
GuardUsers == {"coverage", "depth", "unique", "flow", "intensity", "auto"}

ToldTo(b) ==
    CASE b \in GuardUsers -> Guards
      [] b = "single"     -> [pc : PC, size : Nat \ {0}]
      [] b = "cmp"        -> [pc : PC, a : Nat, b : Nat]
      [] b = "profile"    -> [of : {"cmp", "call", "memory"}, pc : PC, by : Nat]
      [] OTHER            -> {}

LogInv ==
    /\ uses \in SUBSET Builtin
    /\ log = [b \in uses |-> log[b]] /\ past = [b \in uses |-> past[b]]
    /\ \A b \in uses : log[b] \in Seq(ToldTo(b)) /\ past[b] \in SUBSET Seq(ToldTo(b))

MemoryInv == memory \in [Sensor -> SUBSET Nat] /\ news \in BOOLEAN /\ bits \in SUBSET Nat

GuardInv ==
    /\ val \in Nat /\ intensity \in [PC -> Nat]
    /\ stack \in [{"depth", "unique"} -> [record : Nat, base : Nat]]
    /\ \A b \in {"depth", "unique"} : stack[b].base <= stack[b].record
    /\ flow \in [callers : [0..(TrackSize - 1) -> Nat], index : 0..(TrackSize - 1),
                 traces : SUBSET [0..(TrackSize - 1) -> Nat]]
    /\ IsFiniteSet(flow.traces)

ToldInv == LogInv /\ MemoryInv /\ GuardInv

LEMMA PowerType == Power \in [0..ArgBits -> Nat]
<1> DEFINE step == [p \in Nat \X (1..ArgBits) |-> 2 * p[1]]
           Def(f) == [i \in 0..ArgBits |-> IF i = 0 THEN 1 ELSE 2 * f[i - 1]]
<1>0. ArgBits \in Nat /\ 1 \in Nat
  BY InstrumentationAssumption
<1>1. IsStep(step, ArgBits, Nat)
  BY <1>0 DEF IsStep
<1>2. \A v \in Nat, i \in 1..ArgBits : step[<<v, i>>] = 2 * v
  OBVIOUS
<1> HIDE DEF step
<1>3. PICK g : Follows(g, ArgBits, Nat, 1, step)
  BY <1>0, <1>1, Recursion
<1>4. g \in [0..ArgBits -> Nat] /\ g[0] = 1 /\ \A i \in 1..ArgBits : g[i] = 2 * g[i - 1]
  <2>1. \A i \in 1..ArgBits : i - 1 \in 0..ArgBits
    BY <1>0
  <2> QED
    BY <1>2, <1>3, <2>1 DEF Follows
<1>5. g = Def(g)
  BY <1>0, <1>4
<1>6. Power = Def(Power)
  BY <1>5 DEF Power
<1> DEFINE T == {i \in 0..ArgBits : Power[i] \in Nat}
<1>7. /\ \A i \in 0..ArgBits : Power[i] = IF i = 0 THEN 1 ELSE 2 * Power[i - 1]
      /\ Power = [i \in 0..ArgBits |-> Power[i]]
  BY <1>6
<1>8. 0..ArgBits \subseteq T
  <2>1. 0 \in T
    <3>1. 0 \in 0..ArgBits
      BY <1>0
    <3>2. Power[0] = 1
      BY <1>7, <3>1
    <3> QED
      BY <3>1, <3>2
  <2>2. ASSUME NEW i \in 1..ArgBits, i - 1 \in T
        PROVE  i \in T
    <3>1. Power[i - 1] \in Nat /\ i \in 0..ArgBits /\ i # 0
      BY <2>2
    <3>2. Power[i] = 2 * Power[i - 1]
      BY <1>7, <3>1
    <3> QED
      BY <3>1, <3>2
  <2> HIDE DEF T
  <2> QED
    BY <1>0, <2>1, <2>2, UpTo
<1> QED
  BY <1>7, <1>8

(* Hamming distance, and exclusive or. *)
LEMMA DifferType ==
    ASSUME NEW a, NEW b
    PROVE  IsFiniteSet(Differ(a, b)) /\ Distance(a, b) \in Nat \ {0} /\ Xor(a, b) \in Nat
<1>1. Differ(a, b) \subseteq 0..(ArgBits - 1) /\ Differ(a, b) \subseteq 0..ArgBits
  BY InstrumentationAssumption DEF Differ
<1>2. IsFiniteSet(Differ(a, b))
  <2>1. 0 \in Int /\ ArgBits \in Int
    BY InstrumentationAssumption
  <2>2. IsFiniteSet(0..ArgBits)
    BY <2>1, FS_Interval
  <2> QED
    BY <1>1, <2>2, FS_Subset
<1>3. Cardinality(Differ(a, b)) \in Nat
  BY <1>2, FS_CardinalityType
<1> DEFINE f == [i \in Differ(a, b) |-> Power[i]]
<1>4. Numbers(f)
  <2>1. \A i \in Differ(a, b) : Power[i] \in Nat
    BY <1>1, PowerType
  <2> QED
    BY <1>2, <2>1 DEF Numbers
<1>5. Total(f) \in Nat
  <2> HIDE DEF f
  <2> QED
    BY <1>4, TotalType
<1> QED
  BY <1>2, <1>3, <1>5 DEF Distance, Xor

LEMMA IndexType ==
    ASSUME NEW seen \in ToldTo("profile")
    PROVE  Index(seen) \in Nat
<1>1. /\ PCMask \in Nat \ {0} /\ MapSize \in Nat \ {0} /\ MapPrime \in Nat \ {0} /\ PC \subseteq Nat
      /\ seen \in [of : {"cmp", "call", "memory"}, pc : PC, by : Nat]
  BY InstrumentationAssumption DEF ToldTo, GuardUsers
<1> DEFINE place == seen.pc % PCMask
<1>2. place \in Nat /\ seen.by \in Nat /\ seen.by % PCMask \in Nat
  <2>1. seen.pc \in Nat /\ seen.by \in Nat
    BY <1>1
  <2> QED
    BY <1>1, <2>1
<1> HIDE DEF place
<1>3. /\ (place + 1) * seen.by \in Nat /\ seen.by * PCMask \in Nat
      /\ (seen.by % PCMask) * PCMask \in Nat
  BY <1>1, <1>2
<1>4. (place + ((seen.by % PCMask) * PCMask)) % MapPrime \in Nat /\ place + (seen.by * PCMask) \in Nat
  <2> DEFINE e == (seen.by % PCMask) * PCMask
             d == seen.by * PCMask
  <2>1. e \in Nat /\ d \in Nat
    BY <1>3
  <2> HIDE DEF e, d
  <2>2. (place + e) % MapPrime \in Nat /\ place + d \in Nat
    BY <1>1, <1>2, <2>1
  <2> QED
    BY <2>2 DEF e, d
<1> DEFINE x == CASE seen.of = "cmp" -> (place + 1) * seen.by
                  [] seen.of = "call" -> (place + ((seen.by % PCMask) * PCMask)) % MapPrime
                  [] seen.of = "memory" -> place + (seen.by * PCMask)
<1>5. x \in Nat
  BY <1>1, <1>3, <1>4
<1>6. Index(seen) = x % MapSize
  BY DEF Index, place
<1> HIDE DEF x
<1> QED
  BY <1>1, <1>5, <1>6

(* Values reach the processors. *)
LEMMA DeliverType ==
    ASSUME MemoryInv, NEW in, \A s \in DOMAIN in : in[s] \in Nat, Deliver(in), bits' \in SUBSET Nat
    PROVE  MemoryInv'
<1>1. ASSUME NEW type, NEW m \in SUBSET Nat, NEW v \in Nat
      PROVE  Remember(type, m, v) \in SUBSET Nat
  BY DEF Remember
<1> QED
  BY <1>1 DEF MemoryInv, Deliver

LEMMA EventLogs ==
    ASSUME LogInv, NEW told, Event(told), \A b \in DOMAIN told \intersect uses : told[b] \in ToldTo(b),
           UNCHANGED <<uses, past>>
    PROVE  LogInv'
<1>1. ASSUME NEW b \in uses
      PROVE  log'[b] \in Seq(ToldTo(b))
  <2>1. log'[b] = IF b \in DOMAIN told /\ On(b) THEN Append(log[b], told[b]) ELSE log[b]
    BY DEF Event
  <2>2. log[b] \in Seq(ToldTo(b))
    BY DEF LogInv
  <2>3. CASE b \in DOMAIN told
    <3>1. told[b] \in ToldTo(b)
      BY <2>3
    <3>2. Append(log[b], told[b]) \in Seq(ToldTo(b))
      BY <2>2, <3>1
    <3> QED
      BY <2>1, <2>2, <3>2
  <2>4. CASE b \notin DOMAIN told
    BY <2>1, <2>2, <2>4
  <2> QED
    BY <2>3, <2>4
<1>2. log' = [b \in uses |-> log'[b]]
  BY DEF Event
<1> QED
  BY <1>1, <1>2 DEF LogInv

(* __sanitizer_cov_trace_pc_guard: what the sensors make of it. *)
GuardTold(g) == [s \in Sensor |->
    CASE s[1] = "coverage" -> g.pc
      [] s[1] = "intensity" -> val'
      [] s[1] = "auto" -> intensity'[s[2]]
      [] s[1] \in DOMAIN stack -> stack'[s[1]].record - stack'[s[1]].base
      [] s[1] = "flow" -> Cardinality(flow'.traces)
      [] OTHER -> 0]
GuardHears(g) == {s \in Sensor : /\ On(s[1])
                                 /\ \/ s[1] \in {"coverage", "intensity", "flow"}
                                    \/ s[1] \in DOMAIN stack /\ stack'[s[1]] # stack[s[1]]
                                    \/ s = <<"auto", g.pc>>}

LEMMA GuardDelivers ==
    ASSUME NEW g, Guard(g)
    PROVE  Deliver([s \in GuardHears(g) |-> GuardTold(g)[s]])
BY DEF Guard, GuardTold, GuardHears

LEMMA GuardKeepsTypes ==
    ASSUME GuardInv, NEW g \in Guards, Guard(g)
    PROVE  GuardInv'
<1>1. g.pc \in PC /\ g.caller \in Nat /\ g.depth \in Nat /\ TrackSize \in Nat \ {0}
  BY InstrumentationAssumption
<1>2. val' \in Nat /\ intensity' \in [PC -> Nat]
  <2>1. /\ val' = IF On("intensity") THEN val + 1 ELSE val
        /\ intensity' = IF On("auto") THEN [intensity EXCEPT ![g.pc] = @ + 1] ELSE intensity
    BY DEF Guard
  <2> QED
    BY <1>1, <2>1 DEF GuardInv
<1>3. \A b \in {"depth", "unique"} : /\ StackAfter(b, g.depth) \in [record : Nat, base : Nat]
                                     /\ StackAfter(b, g.depth).base <= StackAfter(b, g.depth).record
  BY <1>1 DEF StackAfter, GuardInv
<1>4. /\ stack' \in [{"depth", "unique"} -> [record : Nat, base : Nat]]
      /\ \A b \in {"depth", "unique"} : stack'[b].base <= stack'[b].record
  <2>1. stack' = [b \in {"depth", "unique"} |-> StackAfter(b, g.depth)]
    BY DEF Guard, GuardInv
  <2> QED
    BY <1>3, <2>1
<1>5. /\ FlowAfter(g.caller) \in [callers : [0..(TrackSize - 1) -> Nat], index : 0..(TrackSize - 1),
                                 traces : SUBSET [0..(TrackSize - 1) -> Nat]]
      /\ IsFiniteSet(FlowAfter(g.caller).traces)
  <2> DEFINE index == (flow.index + 1) % TrackSize
             callers == [flow.callers EXCEPT ![index] = g.caller]
             track == [i \in 0..(TrackSize - 1) |-> callers[(index + TrackSize - i) % TrackSize]]
  <2>1. flow.index \in 0..(TrackSize - 1) /\ flow.callers \in [0..(TrackSize - 1) -> Nat]
    BY DEF GuardInv
  <2>2. index \in 0..(TrackSize - 1)
    BY <1>1, <2>1
  <2> HIDE DEF index
  <2>3. callers \in [0..(TrackSize - 1) -> Nat]
    BY <1>1, <2>1, <2>2
  <2> HIDE DEF callers
  <2>4. \A i \in 0..(TrackSize - 1) : (index + TrackSize - i) % TrackSize \in 0..(TrackSize - 1)
    BY <1>1, <2>2
  <2>5. track \in [0..(TrackSize - 1) -> Nat]
    BY <2>3, <2>4
  <2> HIDE DEF track
  <2>6. IsFiniteSet(flow.traces \union {track})
    BY FS_AddElement DEF GuardInv
  <2>7. FlowAfter(g.caller) = IF On("flow") THEN [callers |-> callers, index |-> index,
                                                  traces |-> flow.traces \union {track}]
                              ELSE flow
    BY DEF FlowAfter, track, callers, index
  <2> QED
    BY <2>2, <2>3, <2>5, <2>6, <2>7 DEF GuardInv
<1> QED
  BY <1>2, <1>4, <1>5 DEF Guard, GuardInv

LEMMA GuardKeepsMemory ==
    ASSUME MemoryInv, GuardInv, GuardInv', NEW g \in Guards, Guard(g)
    PROVE  MemoryInv'
<1> DEFINE in == [s \in GuardHears(g) |-> GuardTold(g)[s]]
<1>1. ASSUME NEW s \in GuardHears(g)
      PROVE  GuardTold(g)[s] \in Nat
  <2>1. g.pc \in Nat /\ s \in Sensor
    BY InstrumentationAssumption DEF GuardHears
  <2>2. s[1] = "auto" => s[2] \in PC
    BY <2>1 DEF Sensor, AutoBuiltin, Builtin
  <2>3. Cardinality(flow'.traces) \in Nat
    BY FS_CardinalityType DEF GuardInv
  <2>4. s[1] \in DOMAIN stack => stack'[s[1]].record - stack'[s[1]].base \in Nat
    <3>1. DOMAIN stack = {"depth", "unique"}
      BY DEF GuardInv
    <3>2. \A b \in {"depth", "unique"} : stack'[b].record \in Nat /\ stack'[b].base \in Nat
                                         /\ stack'[b].base <= stack'[b].record
      BY DEF GuardInv
    <3> QED
      BY <3>1, <3>2
  <2> QED
    BY <2>1, <2>2, <2>3, <2>4 DEF GuardTold, GuardInv
<1>2. Deliver(in) /\ bits' = bits
  BY GuardDelivers DEF Guard
<1>3. DOMAIN in = GuardHears(g) /\ \A s \in DOMAIN in : in[s] \in Nat
  BY <1>1
<1> HIDE DEF in
<1> QED
  BY <1>2, <1>3, DeliverType DEF MemoryInv

(* Driver::builtin_HandleCmp, for a comparison or a value of a switch. *)
LEMMA HandleCmpKeeps ==
    ASSUME ToldInv, NEW c \in [pc : PC, a : Nat, b : Nat], HandleCmp(c)
    PROVE  ToldInv'
<1> DEFINE seen == Seen("cmp", c.pc, Distance(c.a, c.b))
           told == [b \in {"cmp", "profile"} |-> IF b = "cmp" THEN c ELSE seen]
           in == IF On("cmp") THEN [s \in {<<"cmp", c.pc>>} |-> Difference(c)] ELSE None
<1>1. seen \in ToldTo("profile") /\ c \in ToldTo("cmp")
  BY DifferType DEF ToldTo, GuardUsers, Seen
<1>2. Event(told) /\ UNCHANGED <<uses, past>> /\ Profile(seen) /\ Deliver(in) /\ UNCHANGED ofGuards
  BY DEF HandleCmp
<1>3. \A b \in DOMAIN told \intersect uses : told[b] \in ToldTo(b)
  BY <1>1
<1>4. LogInv'
  <2> HIDE DEF told
  <2> QED
    BY <1>2, <1>3, EventLogs DEF ToldInv
<1>5. Difference(c) \in Nat
  BY DEF Difference
<1>6. \A s \in DOMAIN in : in[s] \in Nat
  BY <1>5 DEF None
<1>7. bits' \in SUBSET Nat
  <2> HIDE DEF seen
  <2> QED
    BY <1>1, <1>2, IndexType DEF Profile, ToldInv, MemoryInv
<1>8. MemoryInv'
  <2> HIDE DEF in
  <2> QED
    BY <1>2, <1>6, <1>7, DeliverType DEF ToldInv
<1>9. GuardInv'
  BY <1>2 DEF ofGuards, GuardInv, ToldInv
<1> QED
  BY <1>4, <1>8, <1>9 DEF ToldInv

LEMMA SwitchCompares ==
    ASSUME NEW s \in Switches, TraceSwitch(s)
    PROVE  \E c \in [pc : PC, a : Nat, b : Nat] : HandleCmp(c)
<1> DEFINE number == Len(s.cases)
           above == {i \in 1..number : s.val < s.cases[i]}
           i == IF above = {} THEN number + 1 ELSE CHOOSE n \in above : \A k \in above : n <= k
           token == Xor(s.val, s.cases[IF above = {} THEN number ELSE i])
           c == [pc |-> s.pc + i - 1, a |-> token, b |-> 0]
<1>1. s.cases \in Seq(Arg) /\ number \in Nat /\ s.pc \in Nat /\ s.pc..(s.pc + number) \subseteq PC
  <2>1. s \in [pc : PC, val : Arg, cases : Seq(Arg) \ {<<>>}] /\ PC \subseteq Nat
    BY InstrumentationAssumption
  <2>2. s.pc..(s.pc + Len(s.cases)) \subseteq PC
    BY InstrumentationAssumption
  <2>3. s.cases \in Seq(Arg) /\ s.pc \in PC
    BY <2>1
  <2>4. Len(s.cases) \in Nat
    BY <2>3
  <2>5. s.pc \in Nat
    BY <2>1, <2>3
  <2> QED
    BY <2>2, <2>3, <2>4, <2>5
<1>2. i \in 1..(number + 1)
  <2>1. CASE above = {}
    BY <1>1, <2>1
  <2>2. CASE above # {}
    <3>1. above \in SUBSET Nat
      BY <1>1
    <3>2. \E n \in above : \A k \in above : n <= k
      <4> HIDE DEF above
      <4> QED
        BY <2>2, <3>1, SmallestOf
    <3>3. i \in above
      <4> HIDE DEF above
      <4> QED
        BY <2>2, <3>2
    <3> QED
      BY <1>1, <3>3
  <2> QED
    BY <2>1, <2>2
<1>3. HandleCmp(c)
  BY DEF TraceSwitch
<1>4. token \in Nat
  BY DifferType
<1> HIDE DEF i, token
<1>5. s.pc + i - 1 \in PC
  BY <1>1, <1>2
<1>6. c \in [pc : PC, a : Nat, b : Nat]
  BY <1>4, <1>5
<1> HIDE DEF c
<1> QED
  BY <1>3, <1>6

LEMMA CallSeen ==
    ASSUME NEW call \in Calls
    PROVE  Seen("call", call.pc, call.callee % PCMask) \in ToldTo("profile")
<1>1. call.callee % PCMask \in Nat /\ call.pc \in PC
  BY InstrumentationAssumption
<1> QED
  BY <1>1 DEF ToldTo, GuardUsers, Seen

LEMMA MemorySeen ==
    ASSUME NEW m \in Memcmps
    PROVE  Seen("memory", m.pc, IF m.common > MaxCompared THEN MaxCompared ELSE m.common) \in ToldTo("profile")
<1>1. (IF m.common > MaxCompared THEN MaxCompared ELSE m.common) \in Nat /\ m.pc \in PC
  BY InstrumentationAssumption
<1> QED
  BY <1>1 DEF ToldTo, GuardUsers, Seen

LEMMA ProfileOnlyKeeps ==
    ASSUME ToldInv, NEW seen \in ToldTo("profile"), ProfileOnly(seen)
    PROVE  ToldInv'
<1> DEFINE told == [b \in {"profile"} |-> seen]
<1>1. Event(told) /\ UNCHANGED <<uses, past>> /\ Profile(seen) /\ UNCHANGED <<memory, news, ofGuards>>
  BY DEF ProfileOnly
<1>2. LogInv'
  <2>1. \A b \in DOMAIN told \intersect uses : told[b] \in ToldTo(b)
    OBVIOUS
  <2> HIDE DEF told
  <2> QED
    BY <1>1, <2>1, EventLogs DEF ToldInv
<1>3. MemoryInv'
  BY <1>1, IndexType DEF Profile, ToldInv, MemoryInv
<1>4. GuardInv'
  BY <1>1 DEF ofGuards, GuardInv, ToldInv
<1> QED
  BY <1>2, <1>3, <1>4 DEF ToldInv

(* malloc_hook_malloc tells the sensors for single allocations.             *)
LEMMA HookMallocMemory ==
    ASSUME MemoryInv, NEW p, NEW a, NEW size \in Nat, NEW owner,
           HookMalloc(p, a, size, owner), bits' = bits
    PROVE  MemoryInv'
<1> DEFINE in == IF Hooked /\ On("single") THEN [s \in {<<"single", p>>} |-> size] ELSE None
<1>1. Deliver(in)
  BY DEF HookMalloc
<1>2. \A s \in DOMAIN in : in[s] \in Nat
  BY DEF None
<1> HIDE DEF in
<1> QED
  BY <1>1, <1>2, DeliverType DEF MemoryInv

LEMMA InitToldInv == Init => ToldInv
<1> SUFFICES ASSUME Init
             PROVE  ToldInv
  OBVIOUS
<1>1. LogInv
  <2>1. uses \in SUBSET Builtin
    BY InstrumentationAssumption DEF Init
  <2>2. log = [b \in uses |-> <<>>] /\ past = [b \in uses |-> {}]
    BY DEF Init
  <2> QED
    BY <2>1, <2>2 DEF LogInv
<1>2. MemoryInv
  <2>1. \A type : InitialMemory(type) \in SUBSET Nat
    BY DEF InitialMemory
  <2>2. memory = [s \in Sensor |-> InitialMemory(TypeOf(s[1]))] /\ news = FALSE /\ bits = {}
    BY DEF Init
  <2> QED
    BY <2>1, <2>2 DEF MemoryInv
<1>3. GuardInv
  <2>1. IsFiniteSet({}) /\ TrackSize \in Nat \ {0}
    BY FS_EmptySet, InstrumentationAssumption
  <2> QED
    BY <2>1 DEF Init, GuardInv
<1> QED
  BY <1>1, <1>2, <1>3 DEF ToldInv

LEMMA NextToldInv == IInv /\ ToldInv /\ IInv' /\ AllocInv /\ [Next]_vars => ToldInv'
<1> SUFFICES ASSUME IInv, IInv', AllocInv, ToldInv, [Next]_vars
             PROVE  ToldInv'
  OBVIOUS
<1>1. CASE StartRecord
  <2>1. LogInv'
    <3>1. ASSUME NEW b \in uses
          PROVE  <<>> \in Seq(ToldTo(b)) /\ past'[b] \in SUBSET Seq(ToldTo(b))
      <4>1. past'[b] \in {past[b], past[b] \union {log[b]}}
        BY <1>1 DEF StartRecord
      <4> QED
        BY <4>1 DEF LogInv, ToldInv
    <3>2. /\ uses' = uses /\ log' = [b \in uses |-> <<>>]
          /\ past' = [b \in uses |-> past'[b]]
      BY <1>1 DEF StartRecord
    <3> QED
      BY <3>1, <3>2 DEF LogInv, ToldInv
  <2>2. MemoryInv'
    BY <1>1 DEF StartRecord, ClearBits, ToldInv, MemoryInv
  <2>3. GuardInv'
    BY <1>1 DEF StartRecord, ClearCallers, ToldInv, GuardInv
  <2> QED
    BY <2>1, <2>2, <2>3 DEF ToldInv
<1>2. CASE StopRecord
  <2>1. UNCHANGED <<uses, log, past, bits, ofGuards>>
    BY <1>2 DEF StopRecord
  <2>2. MemoryInv'
    <3> DEFINE most == Late("global", {tracker.max})
               shown == Late("profile", bits)
    <3>1. most \in SUBSET Nat /\ shown \in SUBSET Nat
      BY DEF Late, AllocInv, ToldInv, MemoryInv
    <3>2. <<"global", 0>> \in Sensor /\ <<"profile", 0>> \in Sensor
      BY DEF Sensor, Builtin, AutoBuiltin
    <3> HIDE DEF most, shown
    <3>3. memory' = [memory EXCEPT ![<<"profile", 0>>] = @ \union shown,
                                   ![<<"global", 0>>] = IF \E v \in most : Counts("highest", @, v)
                                                        THEN most ELSE @]
      BY <1>2 DEF StopRecord, most, shown
    <3>4. memory' \in [Sensor -> SUBSET Nat]
      BY <3>1, <3>2, <3>3 DEF ToldInv, MemoryInv
    <3>5. news' \in BOOLEAN
      BY <1>2 DEF StopRecord, ToldInv, MemoryInv
    <3> QED
      BY <2>1, <3>4, <3>5 DEF ToldInv, MemoryInv
  <2> QED
    BY <2>1, <2>2 DEF ToldInv, LogInv, GuardInv, ofGuards
<1>3. ASSUME NEW b \in Builtin, SetOff(b)
      PROVE  ToldInv'
  <2>1. Event(None) /\ UNCHANGED <<uses, past, memory, news, bits, ofGuards>>
    BY <1>3 DEF SetOff
  <2>2. LogInv'
    BY <2>1, EventLogs DEF None, ToldInv
  <2> QED
    BY <2>1, <2>2 DEF ToldInv, MemoryInv, GuardInv, ofGuards
<1>4. ASSUME NEW p \in PC, NEW a \in Address, NEW size \in Sizes, Malloc(p, a, size)
      PROVE  ToldInv'
  <2> DEFINE told == [b \in {"single"} |-> [pc |-> p, size |-> size]]
  <2>1. /\ Event(told) /\ HookMalloc(p, a, size, "target") /\ size > 0
        /\ UNCHANGED <<uses, past, bits, ofGuards>>
    BY <1>4 DEF Malloc
  <2>2. size \in Nat
    BY InstrumentationAssumption
  <2>3. \A b \in DOMAIN told \intersect uses : told[b] \in ToldTo(b)
    BY <2>1, <2>2 DEF ToldTo, GuardUsers
  <2>4. LogInv'
    <3> HIDE DEF told
    <3> QED
      BY <2>1, <2>3, EventLogs DEF ToldInv
  <2>5. MemoryInv'
    BY <2>1, <2>2, HookMallocMemory DEF ToldInv
  <2> QED
    BY <2>1, <2>4, <2>5 DEF ToldInv, GuardInv, ofGuards
<1>5. ASSUME NEW p \in PC, NEW a \in Address, NEW size \in Sizes, EngineMalloc(p, a, size)
      PROVE  ToldInv'
  <2>1. /\ HookMalloc(p, a, size, "engine") /\ size > 0
        /\ UNCHANGED <<uses, past, bits, ofGuards>>
        /\ log' = IF Hooked /\ On("single")
                  THEN [log EXCEPT !["single"] = Append(@, [pc |-> p, size |-> size])] ELSE log
    BY <1>5 DEF EngineMalloc
  <2>2. size \in Nat
    BY InstrumentationAssumption
  <2>3. LogInv'
    <3>1. [pc |-> p, size |-> size] \in ToldTo("single")
      BY <2>1, <2>2 DEF ToldTo, GuardUsers
    <3>2. On("single") => "single" \in uses /\ Append(log["single"], [pc |-> p, size |-> size]) \in Seq(ToldTo("single"))
      BY <3>1 DEF On, ToldInv, LogInv
    <3>3. \A b \in uses : log'[b] \in Seq(ToldTo(b))
      BY <2>1, <3>2 DEF ToldInv, LogInv
    <3>4. log' = [b \in uses |-> log'[b]]
      BY <2>1 DEF ToldInv, LogInv
    <3> QED
      BY <2>1, <3>3, <3>4 DEF ToldInv, LogInv
  <2>4. MemoryInv'
    BY <2>1, <2>2, HookMallocMemory DEF ToldInv
  <2> QED
    BY <2>1, <2>3, <2>4 DEF ToldInv, GuardInv, ofGuards
<1>6. ASSUME NEW a \in Address, NEW b \in Address, NEW size \in Sizes, Realloc(a, b, size)
      PROVE  ToldInv'
  <2>1. Event(None) /\ UNCHANGED <<uses, past, memory, news, bits, ofGuards>>
    BY <1>6 DEF Realloc
  <2>2. LogInv'
    BY <2>1, EventLogs DEF None, ToldInv
  <2> QED
    BY <2>1, <2>2 DEF ToldInv, MemoryInv, GuardInv, ofGuards
<1>7. ASSUME NEW g \in Guards, Guard(g)
      PROVE  ToldInv'
  <2> DEFINE told == [b \in GuardUsers |-> g]
  <2>1. Event(told) /\ UNCHANGED <<uses, past>>
    BY <1>7 DEF Guard, GuardUsers
  <2>2. \A b \in DOMAIN told \intersect uses : told[b] \in ToldTo(b)
    BY DEF ToldTo, GuardUsers
  <2>3. LogInv'
    <3> HIDE DEF told
    <3> QED
      BY <2>1, <2>2, EventLogs DEF ToldInv
  <2>4. GuardInv'
    BY <1>7, GuardKeepsTypes DEF ToldInv
  <2>5. MemoryInv'
    BY <1>7, <2>4, GuardKeepsMemory DEF ToldInv
  <2> QED
    BY <2>3, <2>4, <2>5 DEF ToldInv
<1>8. ASSUME NEW c \in Compares, TraceCmp(c) \/ TraceDiv(c)
      PROVE  ToldInv'
  <2>1. HandleCmp(c)
    BY <1>8 DEF TraceCmp, TraceDiv
  <2>2. c \in [pc : PC, a : Nat, b : Nat]
    BY InstrumentationAssumption DEF Arg
  <2> QED
    BY <2>1, <2>2, HandleCmpKeeps
<1>9. ASSUME NEW s \in Switches, TraceSwitch(s)
      PROVE  ToldInv'
  BY <1>9, SwitchCompares, HandleCmpKeeps
<1>10. ASSUME NEW call \in Calls, TraceIndir(call)
       PROVE  ToldInv'
  BY <1>10, CallSeen, ProfileOnlyKeeps DEF TraceIndir
<1>11. ASSUME NEW m \in Memcmps, HookMemcmp(m)
       PROVE  ToldInv'
  BY <1>11, MemorySeen, ProfileOnlyKeeps DEF HookMemcmp
<1>12. CASE UNCHANGED <<uses, log, past, memory, news, bits, ofGuards>>
  BY <1>12 DEF ToldInv, LogInv, MemoryInv, GuardInv, ofGuards
<1> QED
  BY <1>1, <1>2, <1>3, <1>4, <1>5, <1>6, <1>7, <1>8, <1>9, <1>10, <1>11, <1>12
     DEF Next, Free, Return, Over, vars

BaseInv == IInv /\ AllocInv /\ ToldInv

LEMMA BaseInvariant == Spec => []BaseInv
<1>1. Init => BaseInv
  BY InitIInv, InitAllocInv, InitToldInv DEF BaseInv
<1>2. BaseInv /\ [Next]_vars => BaseInv'
  BY NextIInv, NextAllocInv, NextToldInv DEF BaseInv
<1> QED
  BY <1>1, <1>2, PTL DEF Spec

(* The types of all the sensors' state: none of the numbers that the        *)
(* sensors report is ever negative, nor is curAlloc.                       *)
THEOREM InstrumentationTypes == Spec => []TypeOK
<1>1. BaseInv => TypeOK
  <2> SUFFICES ASSUME BaseInv
               PROVE  TypeOK
    OBVIOUS
  <2>1. pc \in {"idle", "recording", "flagged", "plain"} /\ (inLib <=> pc = "flagged")
    BY DEF BaseInv, IInv, FlagInv
  <2>2. /\ DOMAIN heap \subseteq Address /\ \A a \in DOMAIN heap : heap[a].size \in Sizes
        /\ DOMAIN tracker.map \subseteq Address
    BY DEF BaseInv, AllocInv
  <2>3. {tracker.cur, tracker.max, val, peak, best, reported} \subseteq Nat
    BY TotalType DEF BaseInv, AllocInv, ToldInv, GuardInv
  <2>4. \A s \in Sensor : memory[s] \subseteq Nat
    BY DEF BaseInv, ToldInv, MemoryInv
  <2>5. \A b \in DOMAIN stack : stack[b].base \in 0..stack[b].record
    BY DEF BaseInv, ToldInv, GuardInv
  <2>6. flow.index \in DOMAIN flow.callers
    BY DEF BaseInv, ToldInv, GuardInv
  <2> QED
    BY <2>1, <2>2, <2>3, <2>4, <2>5, <2>6 DEF TypeOK
<1> QED
  BY <1>1, BaseInvariant, PTL

(* curAlloc is the sum of the sizes in allocMap, for any addresses and any  *)
(* sizes, so the subtraction in AddFree never goes below zero.             *)
THEOREM SumHolds == Spec => []CurrentIsSum
<1>1. BaseInv => CurrentIsSum
  BY DEF BaseInv, AllocInv, CurrentIsSum
<1> QED
  BY <1>1, BaseInvariant, PTL
-----------------------------------------------------------------------------
(***************************************************************************)
(* What was told.                                                          *)
(***************************************************************************)
LEMMA ValuesMore ==
    ASSUME NEW T, NEW l \in Seq(T), NEW t \in T
    PROVE  {Append(l, t)[i] : i \in DOMAIN Append(l, t)} = {l[i] : i \in DOMAIN l} \union {t}
<1> DEFINE m == Append(l, t)
<1>1. DOMAIN l = 1..Len(l) /\ DOMAIN m = 1..(Len(l) + 1) /\ Len(l) \in Nat
  OBVIOUS
<1>2. m[Len(l) + 1] = t /\ \A i \in 1..Len(l) : m[i] = l[i]
  OBVIOUS
<1>3. DOMAIN m = (DOMAIN l) \union {Len(l) + 1}
  BY <1>1
<1>4. m[Len(l) + 1] = t /\ \A i \in DOMAIN l : m[i] = l[i]
  BY <1>1, <1>2
<1> HIDE DEF m
<1>5. {m[i] : i \in DOMAIN m} = {l[i] : i \in DOMAIN l} \union {t}
  BY <1>3, <1>4
<1> QED
  BY <1>5 DEF m

Also(logs, l) == logs \union {l}

LEMMA ToldMore ==
    ASSUME NEW T, NEW l \in Seq(T), NEW t \in T, NEW logs
    PROVE  Told(Also(logs, Append(l, t))) = Told(Also(logs, l)) \union {t}
<1> DEFINE values(k) == {k[i] : i \in DOMAIN k}
           m == Append(l, t)
<1>1. values(m) = values(l) \union {t}
  BY ValuesMore
<1>2. \A ks : Told(ks) = UNION {values(k) : k \in ks}
  BY DEF Told
<1> HIDE DEF values, m
<1>3. Told(Also(logs, m)) = Told(Also(logs, l)) \union {t}
  BY <1>1, <1>2 DEF Also
<1> QED
  BY <1>3 DEF m

LEMMA ToldInOne ==
    ASSUME NEW T, NEW l \in Seq(T), NEW t \in T
    PROVE  Told({Append(l, t)}) = Told({l}) \union {t}
<1> DEFINE values(k) == {k[i] : i \in DOMAIN k}
           m == Append(l, t)
<1>1. values(m) = values(l) \union {t}
  BY ValuesMore
<1>2. \A k : Told({k}) = values(k)
  BY DEF Told
<1> HIDE DEF values, m
<1>3. Told({m}) = Told({l}) \union {t}
  BY <1>1, <1>2
<1> QED
  BY <1>3 DEF m

LEMMA ToldUnion ==
    ASSUME NEW l, NEW logs
    PROVE  Told(Also(logs, l)) = Told(logs) \union Told({l})
<1> DEFINE values(k) == {k[i] : i \in DOMAIN k}
<1>1. \A ks : Told(ks) = UNION {values(k) : k \in ks}
  BY DEF Told
<1> HIDE DEF values
<1> QED
  BY <1>1 DEF Also

LEMMA ToldNothing == Told({<<>>}) = {}
BY DEF Told

LEMMA DeliverNothing ==
    ASSUME MemoryInv, Deliver(None)
    PROVE  UNCHANGED <<memory, news>>
<1>1. DOMAIN None = {}
  BY DEF None
<1>2. memory' = [s \in Sensor |-> memory[s]]
  BY <1>1 DEF Deliver
<1>3. news' = news
  BY <1>1 DEF Deliver, MemoryInv
<1> QED
  BY <1>2, <1>3 DEF MemoryInv
-----------------------------------------------------------------------------
(***************************************************************************)
(* The value profile.                                                      *)
(***************************************************************************)
Bits(logs) == {Index(t) : t \in Told(logs)}
ofProfile == memory[<<"profile", 0>>]

ProfileInv ==
    uses = {"profile"} =>
        /\ Bits(past["profile"]) \subseteq ofProfile
        /\ pc # "idle" => ~news /\ bits = Bits({log["profile"]})
        /\ pc = "idle" => /\ off["profile"] \/ Bits({log["profile"]}) \subseteq ofProfile
                          /\ news => ~(Told({log["profile"]}) \subseteq Told(past["profile"]))

(* A comparison, call or prefix is told in the log, and sets its bit. *)
LEMMA ProfileTold ==
    ASSUME BaseInv, ProfileInv, uses = {"profile"}, NEW seen \in ToldTo("profile"),
           pc = "recording", pc' # "idle", UNCHANGED <<uses, off, past, memory, news>>, Profile(seen),
           log'["profile"] = IF On("profile") THEN Append(log["profile"], seen) ELSE log["profile"]
    PROVE  ProfileInv'
<1>1. log["profile"] \in Seq(ToldTo("profile"))
  BY DEF BaseInv, ToldInv, LogInv
<1>2. Told({Append(log["profile"], seen)}) = Told({log["profile"]}) \union {seen}
  <2> DEFINE T == ToldTo("profile")
             l == log["profile"]
  <2>1. l \in Seq(T) /\ seen \in T
    BY <1>1
  <2> HIDE DEF T, l
  <2>2. \A t \in T : Told({Append(l, t)}) = Told({l}) \union {t}
    BY <2>1, ToldInOne
  <2> QED
    BY <2>1, <2>2 DEF l
<1>3. Bits({Append(log["profile"], seen)}) = Bits({log["profile"]}) \union {Index(seen)}
  BY <1>2 DEF Bits
<1>4. bits = Bits({log["profile"]}) /\ ~news /\ Bits(past["profile"]) \subseteq ofProfile
  BY DEF ProfileInv
<1>5. bits' = Bits({log'["profile"]})
  BY <1>3, <1>4 DEF Profile
<1> QED
  BY <1>4, <1>5 DEF ProfileInv, ofProfile

LEMMA ProfileStep == BaseInv /\ ProfileInv /\ [Next]_vars => ProfileInv'
<1> SUFFICES ASSUME BaseInv, ProfileInv, [Next]_vars, uses' = {"profile"}
             PROVE  ProfileInv'
  BY DEF ProfileInv
<1>0. uses' = uses /\ uses = {"profile"} /\ ~UsesAny({"single", "global"}) /\ UsesAny({"cmp", "profile"})
      /\ ~UsesAny({"coverage", "depth", "unique", "flow", "intensity", "auto"})
  <2>1. uses' = uses
    BY DEF Next, StartRecord, StopRecord, SetOff, Malloc, EngineMalloc, Realloc, Free, Guard, TraceCmp, TraceDiv,
           TraceSwitch, HandleCmp, TraceIndir, HookMemcmp, ProfileOnly, Return, Over, vars
  <2> QED
    BY <2>1 DEF UsesAny
<1>1. CASE StartRecord
  <2>1. /\ news' = FALSE /\ bits' = {} /\ memory' = memory /\ pc' = "recording"
        /\ past'["profile"] = IF off["profile"] THEN past["profile"]
                              ELSE past["profile"] \union {log["profile"]}
        /\ log'["profile"] = <<>> /\ pc = "idle"
    BY <1>0, <1>1 DEF StartRecord, ClearBits
  <2>2. Bits({<<>>}) = {}
    BY ToldNothing DEF Bits
  <2>3. Bits(past["profile"] \union {log["profile"]}) = Bits(past["profile"]) \union Bits({log["profile"]})
    BY ToldUnion DEF Bits, Also
  <2>4. Bits(past'["profile"]) \subseteq ofProfile
    BY <1>0, <2>1, <2>3 DEF ProfileInv
  <2> QED
    BY <2>1, <2>2, <2>4 DEF ProfileInv, ofProfile
<1>2. CASE StopRecord
  <2> DEFINE shown == Late("profile", bits)
             most == Late("global", {tracker.max})
  <2>1. most = {}
    BY <1>0 DEF Late, On
  <2>2. /\ news' = (\/ news \/ \E v \in most : Counts("highest", memory[<<"global", 0>>], v)
                    \/ ~(shown \subseteq ofProfile))
        /\ memory' = [memory EXCEPT ![<<"profile", 0>>] = @ \union shown,
                                    ![<<"global", 0>>] = IF \E v \in most : Counts("highest", @, v)
                                                         THEN most ELSE @]
        /\ pc' = "idle" /\ pc = "recording" /\ UNCHANGED <<off, log, past>>
    BY <1>2 DEF StopRecord, ofProfile
  <2>3. <<"profile", 0>> \in Sensor /\ <<"profile", 0>> # <<"global", 0>>
    BY DEF Sensor, Builtin, AutoBuiltin
  <2>4. ofProfile' = ofProfile \union shown
    BY <2>2, <2>3 DEF BaseInv, ToldInv, MemoryInv, ofProfile
  <2>5. shown = IF off["profile"] THEN {} ELSE bits
    BY <1>0 DEF Late, On
  <2>6. ~news /\ bits = Bits({log["profile"]}) /\ Bits(past["profile"]) \subseteq ofProfile
    BY <1>0, <2>2 DEF ProfileInv
  <2>7. news' => ~(shown \subseteq ofProfile)
    BY <2>1, <2>2, <2>6
  <2>8. Told({log["profile"]}) \subseteq Told(past["profile"]) => bits \subseteq Bits(past["profile"])
    BY <2>6 DEF Bits
  <2> HIDE DEF shown, most
  <2>9. news' => ~(Told({log["profile"]}) \subseteq Told(past["profile"]))
    BY <2>5, <2>6, <2>7, <2>8
  <2> QED
    BY <2>2, <2>4, <2>5, <2>6, <2>9 DEF ProfileInv
<1>3. ASSUME NEW b \in Builtin, SetOff(b)
      PROVE  ProfileInv'
  <2>1. /\ pc = "recording" /\ UNCHANGED <<pc, memory, news, bits, past>>
        /\ log'["profile"] = log["profile"]
    BY <1>0, <1>3 DEF SetOff, Event, None
  <2> QED
    BY <1>0, <2>1 DEF ProfileInv, ofProfile
<1>4. ASSUME NEW c \in [pc : PC, a : Nat, b : Nat], HandleCmp(c), pc' # "idle", off' = off
      PROVE  ProfileInv'
  <2> DEFINE seen == Seen("cmp", c.pc, Distance(c.a, c.b))
  <2>1. seen \in ToldTo("profile")
    BY DifferType DEF ToldTo, GuardUsers, Seen
  <2>2. Deliver(None)
    BY <1>0, <1>4 DEF HandleCmp, On
  <2>3. UNCHANGED <<memory, news>>
    BY <2>2, DeliverNothing DEF BaseInv, ToldInv
  <2>4. /\ pc = "recording" /\ past' = past /\ Profile(seen)
        /\ log'["profile"] = IF On("profile") THEN Append(log["profile"], seen) ELSE log["profile"]
    BY <1>0, <1>4 DEF HandleCmp, Event
  <2> HIDE DEF seen
  <2> QED
    BY <1>0, <1>4, <2>1, <2>3, <2>4, ProfileTold
<1>5. ASSUME NEW seen \in ToldTo("profile"), ProfileOnly(seen)
      PROVE  ProfileInv'
  <2>1. /\ pc = "recording" /\ pc' = "plain" /\ UNCHANGED <<off, past, memory, news>> /\ Profile(seen)
        /\ log'["profile"] = IF On("profile") THEN Append(log["profile"], seen) ELSE log["profile"]
    BY <1>0, <1>5 DEF ProfileOnly, Event
  <2> QED
    BY <1>0, <2>1, ProfileTold
<1>6. ASSUME NEW c \in Compares, TraceCmp(c) \/ TraceDiv(c)
      PROVE  ProfileInv'
  <2>1. HandleCmp(c) /\ pc' # "idle" /\ off' = off
    BY <1>6 DEF TraceCmp, TraceDiv, HandleCmp
  <2>2. c \in [pc : PC, a : Nat, b : Nat]
    BY InstrumentationAssumption DEF Arg
  <2> QED
    BY <1>4, <2>1, <2>2
<1>7. ASSUME NEW s \in Switches, TraceSwitch(s)
      PROVE  ProfileInv'
  <2>1. PICK c \in [pc : PC, a : Nat, b : Nat] : HandleCmp(c)
    BY <1>7, SwitchCompares
  <2>2. pc' = "plain" /\ off' = off
    BY <1>7, <2>1 DEF TraceSwitch, HandleCmp
  <2> QED
    BY <1>4, <2>1, <2>2
<1>8. ASSUME NEW call \in Calls, TraceIndir(call)
      PROVE  ProfileInv'
  BY <1>5, <1>8, CallSeen DEF TraceIndir
<1>9. ASSUME NEW m \in Memcmps, HookMemcmp(m)
      PROVE  ProfileInv'
  BY <1>5, <1>9, MemorySeen DEF HookMemcmp
<1>10. CASE Return
  <2>1. pc # "idle" /\ pc' # "idle" /\ UNCHANGED <<off, log, past, memory, news, bits>>
    BY <1>10 DEF Return, Leave
  <2> QED
    BY <1>0, <2>1 DEF ProfileInv, ofProfile
<1>11. CASE UNCHANGED vars
  BY <1>0, <1>11 DEF ProfileInv, ofProfile, vars
<1> QED
  BY <1>0, <1>1, <1>2, <1>3, <1>6, <1>7, <1>8, <1>9, <1>10, <1>11 DEF Next, Over

(* A value profile never has news without something new at its place, for   *)
(* any size of the bit map and any primes and masks that fold into it.     *)
THEOREM ProfileNewsHolds == Spec => []ProfileNewsIsNew
<1>1. Init => ProfileInv
  <2> SUFFICES ASSUME Init, uses = {"profile"}
               PROVE  ProfileInv
    BY DEF ProfileInv
  <2>1. past["profile"] = {} /\ log["profile"] = <<>> /\ pc = "idle" /\ news = FALSE /\ off["profile"] = TRUE
    BY DEF Init, Builtin
  <2>2. Bits({}) = {}
    BY DEF Bits, Told
  <2> QED
    BY <2>1, <2>2 DEF ProfileInv
<1>2. ProfileInv => ProfileNewsIsNew
  BY DEF ProfileInv, ProfileNewsIsNew
<1> QED
  BY <1>1, <1>2, ProfileStep, BaseInvariant, PTL DEF Spec

-----------------------------------------------------------------------------
(***************************************************************************)
(* The README's conditions.  What a sensor's memory says of all it was     *)
(* told, one predicate for each sensor.                                    *)
(***************************************************************************)
All(b) == Told(Also(past[b], log[b]))
Max2(a, b) == IF a > b THEN a ELSE b

CoverageInv == memory[<<"coverage", 0>>] = {t.pc : t \in All("coverage")}

DepthInv ==
    LET s == stack["depth"] IN
    \/ All("depth") = {} /\ s.record = 0 /\ s.base = 0 /\ memory[<<"depth", 0>>] = {0}
    \/ /\ All("depth") # {}
       /\ \E u \in All("depth") : u.depth = s.record
       /\ \A u \in All("depth") : u.depth <= s.record
       /\ s.base > 0 /\ memory[<<"depth", 0>>] = {s.record - s.base}

SizesAt(p, told) == {t.size : t \in {u \in told : u.pc = p}}
SingleInv == \A p \in PC : Matches("highest", memory[<<"single", p>>], SizesAt(p, All("single")))

DifferencesAt(p, told) == {Difference(t) : t \in {u \in told : u.pc = p}}
CmpInv == \A p \in PC : Matches("lowest", memory[<<"cmp", p>>], DifferencesAt(p, All("cmp")))

(* A sensor is told something that is news to it in a set of what came before. *)
Better(b, t, before) ==
    CASE b = "coverage" -> \A u \in before : t.pc # u.pc
      [] b = "depth"    -> before # {} /\ \A u \in before : t.depth > u.depth
      [] b = "single"   -> \A u \in before : t.pc = u.pc => t.size > u.size
      [] b = "cmp"      -> \A u \in before : t.pc = u.pc => Difference(t) < Difference(u)

NewIn(b, old, now) ==
    \E n \in DOMAIN now : Better(b, now[n], Told(old) \union {now[i] : i \in 1..(n - 1)})

LEMMA DocumentedNew ==
    \A b \in {"coverage", "depth", "single", "cmp"} : Documented(b) <=> NewIn(b, past[b], log[b])
<1>1. Documented("coverage") <=> NewIn("coverage", past["coverage"], log["coverage"])
  BY DEF Documented, NewIn, Better, Before
<1>2. Documented("depth") <=> NewIn("depth", past["depth"], log["depth"])
  BY DEF Documented, NewIn, Better, Before
<1>3. Documented("single") <=> NewIn("single", past["single"], log["single"])
  BY DEF Documented, NewIn, Better, Before
<1>4. Documented("cmp") <=> NewIn("cmp", past["cmp"], log["cmp"])
  BY DEF Documented, NewIn, Better, Before
<1> QED
  BY <1>1, <1>2, <1>3, <1>4

LEMMA DocumentedThen ==
    \A b \in {"coverage", "depth", "single", "cmp"} : Documented(b)' <=> NewIn(b, past'[b], log'[b])
<1>1. Documented("coverage")' <=> NewIn("coverage", past'["coverage"], log'["coverage"])
  BY DEF Documented, NewIn, Better, Before
<1>2. Documented("depth")' <=> NewIn("depth", past'["depth"], log'["depth"])
  BY DEF Documented, NewIn, Better, Before
<1>3. Documented("single")' <=> NewIn("single", past'["single"], log'["single"])
  BY DEF Documented, NewIn, Better, Before
<1>4. Documented("cmp")' <=> NewIn("cmp", past'["cmp"], log'["cmp"])
  BY DEF Documented, NewIn, Better, Before
<1> QED
  BY <1>1, <1>2, <1>3, <1>4

(* What is told last is compared with all that was told before. *)
LEMMA NewLast ==
    ASSUME NEW T, NEW l \in Seq(T), NEW t \in T, NEW b, NEW old
    PROVE  NewIn(b, old, Append(l, t)) <=> NewIn(b, old, l) \/ Better(b, t, Told(Also(old, l)))
<1> DEFINE m == Append(l, t)
           before(k, n) == Told(old) \union {k[i] : i \in 1..(n - 1)}
<1>1. Len(l) \in Nat /\ DOMAIN l = 1..Len(l) /\ DOMAIN m = 1..(Len(l) + 1)
  OBVIOUS
<1>2. m[Len(l) + 1] = t /\ \A i \in 1..Len(l) : m[i] = l[i]
  OBVIOUS
<1> HIDE DEF m
<1>3. ASSUME NEW n \in 1..(Len(l) + 1)
      PROVE  before(m, n) = before(l, n)
  <2>1. \A i \in 1..(n - 1) : i \in 1..Len(l)
    BY <1>1
  <2>2. \A i \in 1..(n - 1) : m[i] = l[i]
    BY <1>2, <2>1
  <2> QED
    BY <2>2
<1>4. before(l, Len(l) + 1) = Told(Also(old, l))
  <2>1. Told({l}) = {l[i] : i \in 1..Len(l)}
    BY <1>1 DEF Told
  <2>2. Len(l) + 1 - 1 = Len(l)
    BY <1>1
  <2>3. Told(Also(old, l)) = Told(old) \union Told({l})
    BY ToldUnion
  <2> DEFINE first == {l[i] : i \in 1..(Len(l) + 1 - 1)}
  <2>4. first = Told({l})
    BY <2>1, <2>2
  <2>5. before(l, Len(l) + 1) = Told(old) \union first
    OBVIOUS
  <2> HIDE DEF first, before
  <2> QED
    BY <2>3, <2>4, <2>5
<1>5. NewIn(b, old, m) <=> \E n \in DOMAIN m : Better(b, m[n], before(m, n))
  BY DEF NewIn
<1>6. NewIn(b, old, l) <=> \E n \in DOMAIN l : Better(b, l[n], before(l, n))
  BY DEF NewIn
<1> HIDE DEF before
<1>7. DOMAIN m = (DOMAIN l) \union {Len(l) + 1} /\ Len(l) + 1 \in 1..(Len(l) + 1)
      /\ DOMAIN l \subseteq 1..(Len(l) + 1)
  BY <1>1
<1>8. \A n \in DOMAIN l : m[n] = l[n] /\ before(m, n) = before(l, n)
  BY <1>1, <1>2, <1>3, <1>7
<1>9. m[Len(l) + 1] = t /\ before(m, Len(l) + 1) = Told(Also(old, l))
  BY <1>2, <1>3, <1>4, <1>7
<1>10. NewIn(b, old, m) <=> NewIn(b, old, l) \/ Better(b, t, Told(Also(old, l)))
  BY <1>5, <1>6, <1>7, <1>8, <1>9
<1> QED
  BY <1>10 DEF m

LEMMA NothingNew == \A b, old : ~NewIn(b, old, <<>>)
BY DEF NewIn

(* The processors: what they count, and what they then remember. *)
LEMMA HighestHeard ==
    ASSUME NEW m, NEW heard \in SUBSET Nat, Matches("highest", m, heard), NEW v \in Nat
    PROVE  /\ Matches("highest", Remember("highest", m, v), Also(heard, v))
           /\ Counts("highest", m, v) <=> v > 0 /\ \A u \in heard : v > u
<1>1. PICK k \in heard \union {0} : m = {k} /\ \A u \in heard : u <= k
  BY DEF Matches
<1>2. k \in Nat
  BY <1>1
<1>3. Counts("highest", m, v) <=> v > k
  BY <1>1 DEF Counts
<1>4. Remember("highest", m, v) = IF v > k THEN {v} ELSE {k}
  BY <1>1, <1>3 DEF Remember
<1>5. Counts("highest", m, v) <=> v > 0 /\ \A u \in heard : v > u
  BY <1>1, <1>2, <1>3
<1>6. \E j \in (heard \union {v}) \union {0} : /\ Remember("highest", m, v) = {j}
                                              /\ \A u \in heard \union {v} : u <= j
  <2>1. CASE v > k
    <3>1. \A u \in heard \union {v} : u <= v
      BY <1>1, <1>2, <2>1
    <3> QED
      BY <1>4, <2>1, <3>1
  <2>2. CASE ~(v > k)
    <3>1. \A u \in heard \union {v} : u <= k
      BY <1>1, <1>2, <2>2
    <3> QED
      BY <1>1, <1>4, <2>2, <3>1
  <2> QED
    BY <2>1, <2>2
<1> QED
  BY <1>5, <1>6 DEF Matches, Also

LEMMA LowestHeard ==
    ASSUME NEW m, NEW heard \in SUBSET Nat, Matches("lowest", m, heard), NEW v \in Nat
    PROVE  /\ Matches("lowest", Remember("lowest", m, v), Also(heard, v))
           /\ Counts("lowest", m, v) <=> \A u \in heard : v < u
<1>1. CASE heard = {} /\ m = {}
  <2>1. Counts("lowest", m, v) /\ Remember("lowest", m, v) = {v}
    BY <1>1 DEF Counts, Remember
  <2> QED
    BY <1>1, <2>1 DEF Matches, Also
<1>2. CASE \E k \in heard : m = {k} /\ \A u \in heard : k <= u
  <2>1. PICK k \in heard : m = {k} /\ \A u \in heard : k <= u
    BY <1>2
  <2>2. Counts("lowest", m, v) <=> v < k
    BY <2>1 DEF Counts
  <2>3. Remember("lowest", m, v) = IF v < k THEN {v} ELSE {k}
    BY <2>1, <2>2 DEF Remember
  <2>4. Counts("lowest", m, v) <=> \A u \in heard : v < u
    BY <2>1, <2>2
  <2>5. \E j \in heard \union {v} : /\ Remember("lowest", m, v) = {j}
                                    /\ \A u \in heard \union {v} : j <= u
    <3>1. CASE v < k
      <4>1. \A u \in heard \union {v} : v <= u
        BY <2>1, <3>1
      <4> QED
        BY <2>3, <3>1, <4>1
    <3>2. CASE ~(v < k)
      <4>1. \A u \in heard \union {v} : k <= u
        BY <2>1, <3>2
      <4> QED
        BY <2>1, <2>3, <3>2, <4>1
    <3> QED
      BY <3>1, <3>2
  <2> QED
    BY <2>4, <2>5 DEF Matches, Also
<1> QED
  BY <1>1, <1>2 DEF Matches

(* A sensor that is on is told t: its log has one more, and so has All(b).  *)
Hears(b, t) == past'[b] = past[b] /\ log'[b] = Append(log[b], t)

LEMMA OneMoreTold ==
    ASSUME LogInv, NEW b \in uses, NEW t \in ToldTo(b), Hears(b, t)
    PROVE  /\ All(b)' = All(b) \union {t}
           /\ b \in {"coverage", "depth", "single", "cmp"} =>
                  (Documented(b)' <=> Documented(b) \/ Better(b, t, All(b)))
<1> DEFINE T == ToldTo(b)
           l == log[b]
           old == past[b]
<1>1. l \in Seq(T) /\ t \in T
  BY DEF LogInv
<1> HIDE DEF T, l, old
<1>2. Told(Also(old, Append(l, t))) = Told(Also(old, l)) \union {t}
  BY <1>1, ToldMore
<1>3. NewIn(b, old, Append(l, t)) <=> NewIn(b, old, l) \/ Better(b, t, Told(Also(old, l)))
  BY <1>1, NewLast
<1>4. All(b)' = Told(Also(old, Append(l, t))) /\ All(b) = Told(Also(old, l))
  BY DEF All, Hears, l, old
<1>5. ASSUME b \in {"coverage", "depth", "single", "cmp"}
      PROVE  Documented(b)' <=> Documented(b) \/ Better(b, t, All(b))
  <2>1. Documented(b) <=> NewIn(b, old, l)
    BY <1>5, DocumentedNew DEF l, old
  <2>2. Documented(b)' <=> NewIn(b, past'[b], log'[b])
    BY <1>5, DocumentedThen
  <2>3. Documented(b)' <=> NewIn(b, old, Append(l, t))
    BY <2>2 DEF Hears, l, old
  <2> QED
    BY <1>3, <1>4, <2>1, <2>3
<1> QED
  BY <1>2, <1>4, <1>5

LEMMA ProcessorStep ==
    ASSUME MemoryInv, NEW in, Deliver(in), NEW s \in Sensor
    PROVE  /\ s \in DOMAIN in => memory'[s] = Remember(TypeOf(s[1]), memory[s], in[s])
           /\ s \notin DOMAIN in => memory'[s] = memory[s]
BY DEF Deliver

LEMMA SensorNames ==
    /\ \A s \in Sensor : s[1] \in Builtin
    /\ \A s \in Sensor : s[1] \notin AutoBuiltin => s = <<s[1], 0>>
    /\ \A s \in Sensor : s[1] \in AutoBuiltin => s[2] \in PC /\ s = <<s[1], s[2]>>
    /\ \A b \in Builtin \ AutoBuiltin : <<b, 0>> \in Sensor
    /\ \A b \in AutoBuiltin : \A p \in PC : <<b, p>> \in Sensor
BY DEF Sensor, AutoBuiltin, Builtin

(* Does sensor b count one of the values as news? *)
HeardNews(b, in) == \E s \in DOMAIN in : s[1] = b /\ Counts(TypeOf(b), memory[s], in[s])

GuardIn(g) == [s \in GuardHears(g) |-> GuardTold(g)[s]]

LEMMA GuardFacts ==
    ASSUME BaseInv, NEW g \in Guards, Guard(g), NEW b \in uses \intersect GuardUsers, On(b)
    PROVE  /\ Hears(b, g) /\ g \in ToldTo(b) /\ uses' = uses
           /\ Deliver(GuardIn(g)) /\ DOMAIN GuardIn(g) = GuardHears(g) /\ GuardHears(g) \subseteq Sensor
           /\ \A s \in GuardHears(g) : GuardIn(g)[s] = GuardTold(g)[s]
           /\ g.pc \in PC /\ g.pc \in Nat /\ g.depth \in Nat /\ g.depth > 0 /\ g.caller \in Nat
<1>1. Hears(b, g)
  BY DEF Hears, Guard, Event, GuardUsers
<1>2. g \in ToldTo(b)
  BY DEF ToldTo, GuardUsers
<1>3. g.pc \in PC /\ g.pc \in Nat /\ g.depth \in Nat /\ g.depth > 0 /\ g.caller \in Nat
  <2>1. g \in [pc : PC, caller : Nat \ {0}, depth : Nat \ {0}] /\ PC \subseteq Nat
    BY InstrumentationAssumption
  <2>2. g.pc \in PC /\ g.caller \in Nat \ {0} /\ g.depth \in Nat \ {0}
    BY <2>1
  <2>3. g.pc \in Nat
    BY <2>1, <2>2
  <2> QED
    BY <2>2, <2>3
<1>4. Deliver(GuardIn(g))
  BY GuardDelivers DEF GuardIn
<1>5. DOMAIN GuardIn(g) = GuardHears(g) /\ \A s \in GuardHears(g) : GuardIn(g)[s] = GuardTold(g)[s]
  BY DEF GuardIn
<1>6. GuardHears(g) \subseteq Sensor /\ uses' = uses
  BY DEF GuardHears, Guard
<1> QED
  BY <1>1, <1>2, <1>3, <1>4, <1>5, <1>6

LEMMA AllTyped ==
    ASSUME LogInv, NEW b \in uses
    PROVE  All(b) \subseteq ToldTo(b)
<1>1. \A l \in Also(past[b], log[b]) : l \in Seq(ToldTo(b))
  BY DEF LogInv, Also
<1>2. \A l \in Seq(ToldTo(b)) : \A i \in DOMAIN l : l[i] \in ToldTo(b)
  OBVIOUS
<1> QED
  BY <1>1, <1>2 DEF All, Told

LEMMA CoverageTold ==
    ASSUME BaseInv, "coverage" \in uses, CoverageInv, NEW g \in Guards, Guard(g), On("coverage")
    PROVE  /\ CoverageInv'
           /\ Documented("coverage")' <=> Documented("coverage") \/ HeardNews("coverage", GuardIn(g))
<1> DEFINE s == <<"coverage", 0>>
           b == "coverage"
<1>1. b \in uses \intersect GuardUsers
  BY DEF GuardUsers
<1>2. s \in Sensor /\ s[1] = b /\ \A r \in Sensor : r[1] = b => r = s
  BY SensorNames DEF Builtin, AutoBuiltin
<1>3. s \in GuardHears(g) /\ GuardTold(g)[s] = g.pc
  <2>1. GuardTold(g)[s] = g.pc
    <3>1. DOMAIN stack = {"depth", "unique"}
      BY DEF BaseInv, ToldInv, GuardInv
    <3> QED
      BY <1>2, <3>1 DEF GuardTold
  <2> HIDE DEF s
  <2>2. s[1] \in {"coverage", "intensity", "flow"} /\ On(s[1])
    BY <1>2
  <2>3. s \in GuardHears(g)
    BY <1>2, <2>2 DEF GuardHears
  <2> QED
    BY <2>1, <2>3
<1>4. /\ Hears(b, g) /\ g \in ToldTo(b) /\ Deliver(GuardIn(g)) /\ DOMAIN GuardIn(g) = GuardHears(g)
      /\ GuardHears(g) \subseteq Sensor /\ GuardIn(g)[s] = g.pc
  BY <1>1, <1>3, GuardFacts
<1>5. /\ All(b)' = All(b) \union {g}
      /\ Documented(b)' <=> Documented(b) \/ Better(b, g, All(b))
  BY <1>1, <1>4, OneMoreTold DEF BaseInv, ToldInv
<1> HIDE DEF s
<1>6. memory'[s] = memory[s] \union {g.pc}
  <2>1. memory'[s] = Remember(TypeOf(b), memory[s], g.pc)
    BY <1>2, <1>3, <1>4, ProcessorStep DEF BaseInv, ToldInv
  <2> QED
    BY <2>1 DEF Remember, TypeOf
<1>7. memory[s] = {t.pc : t \in All(b)}
  BY DEF CoverageInv, s
<1>8. memory'[s] = {t.pc : t \in All(b)'}
  BY <1>5, <1>6, <1>7
<1>9. HeardNews(b, GuardIn(g)) <=> g.pc \notin memory[s]
  <2>1. HeardNews(b, GuardIn(g)) <=> Counts(TypeOf(b), memory[s], g.pc)
    BY <1>2, <1>3, <1>4 DEF HeardNews
  <2> QED
    BY <2>1 DEF Counts, TypeOf
<1>10. Better(b, g, All(b)) <=> g.pc \notin memory[s]
  BY <1>7 DEF Better
<1> QED
  BY <1>5, <1>8, <1>9, <1>10 DEF CoverageInv, s

LEMMA DepthTold ==
    ASSUME BaseInv, "depth" \in uses, DepthInv, NEW g \in Guards, Guard(g), On("depth")
    PROVE  /\ DepthInv'
           /\ Documented("depth")' <=> Documented("depth") \/ HeardNews("depth", GuardIn(g))
<1> DEFINE s == <<"depth", 0>>
           b == "depth"
           new == stack'["depth"]
           old == stack["depth"]
           diff == new.record - new.base
<1>1. b \in uses \intersect GuardUsers
  BY DEF GuardUsers
<1>2. s \in Sensor /\ s[1] = b /\ \A r \in Sensor : r[1] = b => r = s
  BY SensorNames DEF Builtin, AutoBuiltin
<1>3. /\ Hears(b, g) /\ g \in ToldTo(b) /\ Deliver(GuardIn(g)) /\ DOMAIN GuardIn(g) = GuardHears(g)
      /\ GuardHears(g) \subseteq Sensor /\ g.depth \in Nat /\ g.depth > 0
      /\ \A r \in GuardHears(g) : GuardIn(g)[r] = GuardTold(g)[r]
  BY <1>1, GuardFacts
<1>4. DOMAIN stack = {"depth", "unique"} /\ stack[b] \in [record : Nat, base : Nat]
  BY DEF BaseInv, ToldInv, GuardInv
<1>5. /\ All(b)' = All(b) \union {g}
      /\ Documented(b)' <=> Documented(b) \/ Better(b, g, All(b))
  BY <1>1, <1>3, OneMoreTold DEF BaseInv, ToldInv
<1>6. new = IF g.depth > old.record THEN [record |-> g.depth, base |-> IF old.base = 0 THEN g.depth ELSE old.base]
                                    ELSE old
  <2>1. stack' = [d \in DOMAIN stack |-> StackAfter(d, g.depth)]
    BY DEF Guard
  <2> QED
    BY <1>4, <2>1 DEF StackAfter
<1>7. s \in GuardHears(g) <=> new # old
  BY <1>2, <1>4 DEF GuardHears
<1>8. GuardTold(g)[s] = diff
  BY <1>2, <1>4 DEF GuardTold
<1> HIDE DEF s
<1>9. ASSUME new # old
      PROVE  /\ memory'[s] = Remember("highest", memory[s], diff)
             /\ HeardNews(b, GuardIn(g)) <=> Counts("highest", memory[s], diff)
  <2>1. s \in DOMAIN GuardIn(g) /\ GuardIn(g)[s] = diff
    BY <1>3, <1>7, <1>8, <1>9
  <2>2. TypeOf(b) = "highest"
    BY DEF TypeOf
  <2>3. memory'[s] = Remember(TypeOf(s[1]), memory[s], GuardIn(g)[s])
    BY <1>2, <1>3, <2>1, ProcessorStep DEF BaseInv, ToldInv
  <2>4. HeardNews(b, GuardIn(g)) <=> Counts(TypeOf(b), memory[s], GuardIn(g)[s])
    BY <1>2, <1>3, <2>1 DEF HeardNews
  <2> QED
    BY <1>2, <2>1, <2>2, <2>3, <2>4
<1>10. ASSUME new = old
       PROVE  memory'[s] = memory[s] /\ ~HeardNews(b, GuardIn(g))
  <2>1. s \notin DOMAIN GuardIn(g)
    BY <1>3, <1>7, <1>10
  <2> QED
    BY <1>2, <1>3, <2>1, ProcessorStep DEF HeardNews, BaseInv, ToldInv
<1> HIDE DEF new, old
<1>11. \/ All(b) = {} /\ old.record = 0 /\ old.base = 0 /\ memory[s] = {0}
       \/ /\ All(b) # {}
          /\ \E u \in All(b) : u.depth = old.record
          /\ \A u \in All(b) : u.depth <= old.record
          /\ old.base > 0 /\ memory[s] = {old.record - old.base}
  BY DEF DepthInv, s, old
<1>12. old.record \in Nat /\ old.base \in Nat
  BY <1>4 DEF old
<1>13. CASE All(b) = {}
  <2>1. new.record = g.depth /\ new.base = g.depth /\ new # old /\ diff = 0 /\ memory[s] = {0} /\ old.record = 0
    BY <1>3, <1>6, <1>11, <1>13
  <2>2. ~Counts("highest", memory[s], diff) /\ memory'[s] = {0}
    BY <1>9, <2>1 DEF Counts, Remember
  <2>3. ~Better(b, g, All(b))
    BY <1>13 DEF Better
  <2>4. All(b)' = {g} /\ memory'[s] = {new.record - new.base}
    BY <1>5, <1>13, <2>1, <2>2
  <2>5. DepthInv'
    BY <1>3, <2>1, <2>4 DEF DepthInv, s, new
  <2> QED
    BY <1>5, <1>9, <2>1, <2>2, <2>3, <2>5
<1>14. CASE All(b) # {} /\ g.depth > old.record
  <2>1. /\ new.record = g.depth /\ new.base = old.base /\ new # old
        /\ memory[s] = {old.record - old.base} /\ old.base > 0
    BY <1>3, <1>6, <1>11, <1>12, <1>14
  <2>2. Counts("highest", memory[s], diff) /\ memory'[s] = {diff}
    BY <1>3, <1>9, <1>12, <1>14, <2>1 DEF Counts, Remember
  <2>3. \A u \in All(b) : u.depth <= old.record
    BY <1>11, <1>14
  <2>4. \A u \in All(b) : \E t \in Guards : u = t
    <3>1. All(b) \subseteq Guards
      BY <1>1, AllTyped DEF BaseInv, ToldInv, ToldTo, GuardUsers
    <3> QED
      BY <3>1
  <2>5. \A u \in All(b) : u.depth \in Nat
    BY <2>4, InstrumentationAssumption
  <2>6. \A u \in All(b) : g.depth > u.depth
    BY <1>3, <1>12, <1>14, <2>3, <2>5
  <2>7. Better(b, g, All(b))
    BY <1>14, <2>6 DEF Better
  <2>8. \A u \in All(b)' : u.depth <= new.record
    BY <1>3, <1>5, <2>1, <2>5, <2>6
  <2>9. DepthInv'
    BY <1>5, <2>1, <2>2, <2>8 DEF DepthInv, s, new
  <2> QED
    BY <1>5, <1>9, <2>1, <2>2, <2>7, <2>9
<1>15. CASE All(b) # {} /\ ~(g.depth > old.record)
  <2>1. new = old /\ memory'[s] = memory[s] /\ ~HeardNews(b, GuardIn(g))
    BY <1>6, <1>10, <1>15
  <2>2. ~Better(b, g, All(b))
    BY <1>3, <1>11, <1>12, <1>15 DEF Better
  <2>3. \A u \in All(b)' : u.depth <= new.record
    BY <1>3, <1>5, <1>11, <1>12, <1>15, <2>1
  <2>4. DepthInv'
    BY <1>5, <1>11, <1>15, <2>1, <2>3 DEF DepthInv, s, new
  <2> QED
    BY <1>5, <2>1, <2>2, <2>4
<1> QED
  BY <1>13, <1>14, <1>15

(* One thing told to sensors that have a processor for each place. *)
LEMMA PlaceHeard ==
    ASSUME MemoryInv, NEW b \in AutoBuiltin, NEW p \in PC, NEW v, NEW in, Deliver(in),
           in = [s \in {<<b, p>>} |-> v]
    PROVE  /\ memory'[<<b, p>>] = Remember(TypeOf(b), memory[<<b, p>>], v)
           /\ \A q \in PC \ {p} : memory'[<<b, q>>] = memory[<<b, q>>]
           /\ HeardNews(b, in) <=> Counts(TypeOf(b), memory[<<b, p>>], v)
<1> DEFINE s == <<b, p>>
<1>1. s \in Sensor /\ s[1] = b /\ \A q \in PC : <<b, q>> \in Sensor
  BY SensorNames
<1>2. DOMAIN in = {s} /\ in[s] = v
  OBVIOUS
<1>3. \A q \in PC \ {p} : <<b, q>> \notin DOMAIN in
  BY <1>2
<1>4. \A q \in PC \ {p} : memory'[<<b, q>>] = memory[<<b, q>>]
  BY <1>1, <1>3, ProcessorStep
<1> HIDE DEF s
<1>5. memory'[s] = Remember(TypeOf(b), memory[s], v)
  BY <1>1, <1>2, ProcessorStep
<1>6. HeardNews(b, in) <=> Counts(TypeOf(b), memory[s], v)
  BY <1>1, <1>2 DEF HeardNews
<1> QED
  BY <1>4, <1>5, <1>6 DEF s

LEMMA SingleTold ==
    ASSUME BaseInv, "single" \in uses, SingleInv, NEW t \in ToldTo("single"), Hears("single", t),
           NEW in, Deliver(in), in = [s \in {<<"single", t.pc>>} |-> t.size]
    PROVE  /\ SingleInv'
           /\ Documented("single")' <=> Documented("single") \/ HeardNews("single", in)
<1> DEFINE b == "single"
           p == t.pc
           v == t.size
           all == All(b)
           m == memory[<<b, p>>]
<1>1. p \in PC /\ v \in Nat /\ v > 0 /\ b \in AutoBuiltin /\ TypeOf(b) = "highest"
  BY DEF ToldTo, GuardUsers, AutoBuiltin, TypeOf
<1>2. /\ All(b)' = all \union {t}
      /\ Documented(b)' <=> Documented(b) \/ Better(b, t, all)
  BY OneMoreTold DEF BaseInv, ToldInv
<1>3. /\ memory'[<<b, p>>] = Remember("highest", m, v)
      /\ \A q \in PC \ {p} : memory'[<<b, q>>] = memory[<<b, q>>]
      /\ HeardNews(b, in) <=> Counts("highest", m, v)
  BY <1>1, PlaceHeard DEF BaseInv, ToldInv
<1>4. \A u \in all : u.pc \in PC /\ u.size \in Nat
  BY AllTyped DEF BaseInv, ToldInv, ToldTo, GuardUsers
<1> HIDE DEF all
<1> DEFINE heard == SizesAt(p, all)
<1>5. heard \in SUBSET Nat
  BY <1>4 DEF SizesAt
<1>6. Matches("highest", m, heard) /\ \A q \in PC : Matches("highest", memory[<<b, q>>], SizesAt(q, all))
  BY <1>1 DEF SingleInv, all
<1>7. SizesAt(p, all \union {t}) = Also(heard, v)
  BY DEF SizesAt, Also
<1>8. \A q \in PC \ {p} : SizesAt(q, all \union {t}) = SizesAt(q, all)
  BY DEF SizesAt
<1>9. Better(b, t, all) <=> \A u \in heard : v > u
  BY DEF Better, SizesAt
<1> HIDE DEF heard, m, v
<1>10. /\ Matches("highest", Remember("highest", m, v), Also(heard, v))
       /\ Counts("highest", m, v) <=> v > 0 /\ \A u \in heard : v > u
  BY <1>1, <1>5, <1>6, HighestHeard
<1>11. \A q \in PC : Matches("highest", memory'[<<b, q>>], SizesAt(q, all \union {t}))
  <2>1. ASSUME NEW q \in PC, q = p
        PROVE  Matches("highest", memory'[<<b, q>>], SizesAt(q, all \union {t}))
    BY <1>3, <1>7, <1>10, <2>1
  <2>2. ASSUME NEW q \in PC, q # p
        PROVE  Matches("highest", memory'[<<b, q>>], SizesAt(q, all \union {t}))
    BY <1>3, <1>6, <1>8, <2>2
  <2> QED
    BY <2>1, <2>2
<1> QED
  BY <1>1, <1>2, <1>3, <1>9, <1>10, <1>11 DEF SingleInv

LEMMA CmpTold ==
    ASSUME BaseInv, "cmp" \in uses, CmpInv, NEW t \in ToldTo("cmp"), Hears("cmp", t),
           NEW in, Deliver(in), in = [s \in {<<"cmp", t.pc>>} |-> Difference(t)]
    PROVE  /\ CmpInv'
           /\ Documented("cmp")' <=> Documented("cmp") \/ HeardNews("cmp", in)
<1> DEFINE b == "cmp"
           p == t.pc
           v == Difference(t)
           all == All(b)
           m == memory[<<b, p>>]
<1>1. p \in PC /\ v \in Nat /\ b \in AutoBuiltin /\ TypeOf(b) = "lowest"
  BY DEF ToldTo, GuardUsers, AutoBuiltin, TypeOf, Difference
<1>2. /\ All(b)' = all \union {t}
      /\ Documented(b)' <=> Documented(b) \/ Better(b, t, all)
  BY OneMoreTold DEF BaseInv, ToldInv
<1>3. /\ memory'[<<b, p>>] = Remember("lowest", m, v)
      /\ \A q \in PC \ {p} : memory'[<<b, q>>] = memory[<<b, q>>]
      /\ HeardNews(b, in) <=> Counts("lowest", m, v)
  BY <1>1, PlaceHeard DEF BaseInv, ToldInv
<1>4. \A u \in all : u.pc \in PC /\ Difference(u) \in Nat
  <2>1. all \subseteq [pc : PC, a : Nat, b : Nat]
    BY AllTyped DEF BaseInv, ToldInv, ToldTo, GuardUsers
  <2> QED
    BY <2>1 DEF Difference
<1> HIDE DEF all
<1> DEFINE heard == DifferencesAt(p, all)
<1>5. heard \in SUBSET Nat
  BY <1>4 DEF DifferencesAt
<1>6. Matches("lowest", m, heard) /\ \A q \in PC : Matches("lowest", memory[<<b, q>>], DifferencesAt(q, all))
  BY <1>1 DEF CmpInv, all
<1>7. DifferencesAt(p, all \union {t}) = Also(heard, v)
  BY DEF DifferencesAt, Also
<1>8. \A q \in PC \ {p} : DifferencesAt(q, all \union {t}) = DifferencesAt(q, all)
  BY DEF DifferencesAt
<1>9. Better(b, t, all) <=> \A u \in heard : v < u
  BY DEF Better, DifferencesAt
<1> HIDE DEF heard, m, v
<1>10. /\ Matches("lowest", Remember("lowest", m, v), Also(heard, v))
       /\ Counts("lowest", m, v) <=> \A u \in heard : v < u
  BY <1>1, <1>5, <1>6, LowestHeard
<1>11. \A q \in PC : Matches("lowest", memory'[<<b, q>>], DifferencesAt(q, all \union {t}))
  <2>1. ASSUME NEW q \in PC, q = p
        PROVE  Matches("lowest", memory'[<<b, q>>], DifferencesAt(q, all \union {t}))
    BY <1>3, <1>7, <1>10, <2>1
  <2>2. ASSUME NEW q \in PC, q # p
        PROVE  Matches("lowest", memory'[<<b, q>>], DifferencesAt(q, all \union {t}))
    BY <1>3, <1>6, <1>8, <2>2
  <2> QED
    BY <2>1, <2>2
<1> QED
  BY <1>2, <1>3, <1>9, <1>10, <1>11 DEF CmpInv

(* Counters: the highest count of a cycle, while this cycle counts up. *)
LEMMA CountedUp ==
    ASSUME NEW m, NEW before \in SUBSET Nat, NEW c \in Nat, Matches("highest", m, Also(before, c))
    PROVE  /\ Matches("highest", Remember("highest", m, c + 1), Also(before, c + 1))
           /\ (\A u \in before : c + 1 > u) <=> (\A u \in before : c > u) \/ Counts("highest", m, c + 1)
<1>1. PICK k \in Also(before, c) \union {0} : m = {k} /\ \A u \in Also(before, c) : u <= k
  BY DEF Matches
<1>2. k \in Nat /\ c <= k /\ (k = c \/ k = 0 \/ k \in before) /\ \A u \in before : u <= k
  BY <1>1 DEF Also
<1>3. Counts("highest", m, c + 1) <=> c + 1 > k
  BY <1>1 DEF Counts
<1>4. Remember("highest", m, c + 1) = IF c + 1 > k THEN {c + 1} ELSE {k}
  BY <1>1, <1>3 DEF Remember
<1>5. (\A u \in before : c + 1 > u) <=> (\A u \in before : c > u) \/ Counts("highest", m, c + 1)
  <2>1. CASE c + 1 > k
    BY <1>2, <1>3, <2>1
  <2>2. CASE ~(c + 1 > k)
    <3>1. k \in before /\ ~(c + 1 > k) /\ ~(c > k)
      BY <1>2, <2>2
    <3> QED
      BY <1>3, <3>1
  <2> QED
    BY <2>1, <2>2
<1>6. \E j \in Also(before, c + 1) \union {0} : /\ Remember("highest", m, c + 1) = {j}
                                               /\ \A u \in Also(before, c + 1) : u <= j
  <2>1. CASE c + 1 > k
    <3>1. \A u \in Also(before, c + 1) : u <= c + 1
      BY <1>2, <2>1 DEF Also
    <3> QED
      BY <1>4, <2>1, <3>1 DEF Also
  <2>2. CASE ~(c + 1 > k)
    <3>1. \A u \in Also(before, c + 1) : u <= k
      BY <1>2, <2>2 DEF Also
    <3>2. k \in Also(before, c + 1)
      BY <1>2, <2>2 DEF Also
    <3> QED
      BY <1>4, <2>2, <3>1, <3>2
  <2> QED
    BY <2>1, <2>2
<1> QED
  BY <1>5, <1>6 DEF Matches

Lengths(logs) == {Len(l) : l \in logs}
IntensityInv ==
    /\ val = Len(log["intensity"])
    /\ Matches("highest", memory[<<"intensity", 0>>], Also(Lengths(past["intensity"]), val))

TimesAt(p, logs) == {Times(l, p) : l \in logs}
AutoInv == \A p \in PC :
    /\ intensity[p] = Times(log["auto"], p)
    /\ Matches("highest", memory[<<"auto", p>>], Also(TimesAt(p, past["auto"]), intensity[p]))

LEMMA IntensityTold ==
    ASSUME BaseInv, "intensity" \in uses, IntensityInv, NEW g \in Guards, Guard(g), On("intensity")
    PROVE  /\ IntensityInv'
           /\ Documented("intensity")' <=> Documented("intensity") \/ HeardNews("intensity", GuardIn(g))
<1> DEFINE s == <<"intensity", 0>>
           b == "intensity"
           before == Lengths(past[b])
           m == memory[s]
<1>1. b \in uses \intersect GuardUsers
  BY DEF GuardUsers
<1>2. s \in Sensor /\ s[1] = b /\ (\A r \in Sensor : r[1] = b => r = s) /\ TypeOf(b) = "highest"
  BY SensorNames DEF Builtin, AutoBuiltin, TypeOf
<1>3. /\ Hears(b, g) /\ g \in ToldTo(b) /\ Deliver(GuardIn(g)) /\ DOMAIN GuardIn(g) = GuardHears(g)
      /\ GuardHears(g) \subseteq Sensor
      /\ \A r \in GuardHears(g) : GuardIn(g)[r] = GuardTold(g)[r]
  BY <1>1, GuardFacts
<1>4. log[b] \in Seq(ToldTo(b)) /\ past[b] \in SUBSET Seq(ToldTo(b)) /\ val \in Nat
  BY DEF BaseInv, ToldInv, LogInv, GuardInv
<1>5. val' = val + 1 /\ Len(log'[b]) = Len(log[b]) + 1 /\ past'[b] = past[b]
  BY <1>3, <1>4 DEF Guard, Hears
<1>6. GuardTold(g)[s] = val + 1
  <2>1. DOMAIN stack = {"depth", "unique"}
    BY DEF BaseInv, ToldInv, GuardInv
  <2> QED
    BY <1>2, <1>5, <2>1 DEF GuardTold
<1> HIDE DEF s
<1>7. s \in GuardHears(g)
  BY <1>2 DEF GuardHears
<1>8. memory'[s] = Remember("highest", m, val + 1)
  BY <1>2, <1>3, <1>6, <1>7, ProcessorStep DEF BaseInv, ToldInv
<1>9. HeardNews(b, GuardIn(g)) <=> Counts("highest", m, val + 1)
  BY <1>2, <1>3, <1>6, <1>7 DEF HeardNews
<1>10. before \in SUBSET Nat
  BY <1>4 DEF Lengths
<1>11. Documented(b) <=> \A u \in before : val > u
  BY DEF Documented, Lengths, IntensityInv
<1>12. Documented(b)' <=> \A u \in before : val + 1 > u
  <2>1. Documented(b)' <=> \A l \in past[b] : Len(log'[b]) > Len(l)
    BY <1>5 DEF Documented
  <2>2. Len(log'[b]) = val + 1
    BY <1>5 DEF IntensityInv
  <2> QED
    BY <2>1, <2>2 DEF Lengths
<1>13. Matches("highest", m, Also(before, val))
  BY DEF IntensityInv, s
<1> HIDE DEF before, m
<1>14. /\ Matches("highest", Remember("highest", m, val + 1), Also(before, val + 1))
       /\ (\A u \in before : val + 1 > u) <=> (\A u \in before : val > u) \/ Counts("highest", m, val + 1)
  BY <1>4, <1>10, <1>13, CountedUp
<1>15. IntensityInv'
  <2>1. val' = Len(log'[b])
    BY <1>5 DEF IntensityInv
  <2>2. Matches("highest", memory'[s], Also(before, val'))
    BY <1>5, <1>8, <1>14
  <2> QED
    BY <1>5, <2>1, <2>2 DEF IntensityInv, s, before
<1> QED
  BY <1>9, <1>11, <1>12, <1>14, <1>15

LEMMA TimesMore ==
    ASSUME NEW T, NEW l \in Seq(T), NEW t \in T, NEW p
    PROVE  /\ Times(l, p) \in Nat
           /\ Times(Append(l, t), p) = Times(l, p) + (IF t.pc = p THEN 1 ELSE 0)
<1> DEFINE at(k) == {i \in DOMAIN k : k[i].pc = p}
           m == Append(l, t)
<1>1. Len(l) \in Nat /\ DOMAIN l = 1..Len(l) /\ DOMAIN m = 1..(Len(l) + 1)
      /\ m[Len(l) + 1] = t /\ \A i \in 1..Len(l) : m[i] = l[i]
  OBVIOUS
<1> HIDE DEF m
<1>2. IsFiniteSet(at(l))
  <2>1. 1 \in Int /\ Len(l) \in Int
    BY <1>1
  <2>2. IsFiniteSet(1..Len(l))
    BY <2>1, FS_Interval
  <2> QED
    BY <1>1, <2>2, FS_Subset
<1>3. Cardinality(at(l)) \in Nat
  BY <1>2, FS_CardinalityType
<1>4. Len(l) + 1 \notin at(l)
  BY <1>1
<1>5. at(m) = IF t.pc = p THEN at(l) \union {Len(l) + 1} ELSE at(l)
  BY <1>1
<1> HIDE DEF at
<1>6. Cardinality(at(l) \union {Len(l) + 1}) = Cardinality(at(l)) + 1
  BY <1>2, <1>4, FS_AddElement
<1>7. Cardinality(at(m)) = Cardinality(at(l)) + (IF t.pc = p THEN 1 ELSE 0)
  BY <1>3, <1>5, <1>6
<1>8. Times(l, p) = Cardinality(at(l)) /\ Times(m, p) = Cardinality(at(m))
  BY DEF Times, at
<1> QED
  BY <1>3, <1>7, <1>8 DEF m

LEMMA AutoTold ==
    ASSUME BaseInv, "auto" \in uses, AutoInv, past["auto"] # {}, NEW g \in Guards, Guard(g), On("auto")
    PROVE  /\ AutoInv'
           /\ Documented("auto")' <=> Documented("auto") \/ HeardNews("auto", GuardIn(g))
<1> DEFINE b == "auto"
           p == g.pc
           s == <<b, p>>
           before(q) == TimesAt(q, past[b])
           m == memory[s]
           c == intensity[p]
<1>1. b \in uses \intersect GuardUsers
  BY DEF GuardUsers
<1>2. /\ Hears(b, g) /\ g \in ToldTo(b) /\ Deliver(GuardIn(g)) /\ DOMAIN GuardIn(g) = GuardHears(g)
      /\ GuardHears(g) \subseteq Sensor /\ p \in PC
      /\ \A r \in GuardHears(g) : GuardIn(g)[r] = GuardTold(g)[r]
  BY <1>1, GuardFacts
<1>3. /\ s \in Sensor /\ s[1] = b /\ s[2] = p /\ TypeOf(b) = "highest"
      /\ \A q \in PC : <<b, q>> \in Sensor
  BY <1>2, SensorNames DEF Builtin, AutoBuiltin, TypeOf
<1>4. /\ log[b] \in Seq(ToldTo(b)) /\ past[b] \in SUBSET Seq(ToldTo(b))
      /\ intensity \in [PC -> Nat] /\ DOMAIN stack = {"depth", "unique"}
  BY DEF BaseInv, ToldInv, LogInv, GuardInv
<1>5. intensity' = [intensity EXCEPT ![p] = @ + 1] /\ past'[b] = past[b]
  BY <1>2 DEF Guard, Hears
<1>6. intensity'[p] = c + 1 /\ c \in Nat /\ \A q \in PC \ {p} : intensity'[q] = intensity[q]
  BY <1>2, <1>4, <1>5
<1>7. GuardTold(g)[s] = c + 1
  BY <1>3, <1>4, <1>6 DEF GuardTold
<1>8. \A r \in Sensor : r[1] = b => (r \in GuardHears(g) <=> r = s)
  BY <1>3, <1>4 DEF GuardHears
<1>9. /\ \A q \in PC \ {p} : memory'[<<b, q>>] = memory[<<b, q>>]
      /\ memory'[s] = Remember("highest", m, c + 1)
      /\ HeardNews(b, GuardIn(g)) <=> Counts("highest", m, c + 1)
  <2>1. \A q \in PC \ {p} : <<b, q>> \notin GuardHears(g)
    BY <1>3, <1>8
  <2>2. \A q \in PC \ {p} : memory'[<<b, q>>] = memory[<<b, q>>]
    BY <1>2, <1>3, <2>1, ProcessorStep DEF BaseInv, ToldInv
  <2> HIDE DEF s, c
  <2>3. s \in DOMAIN GuardIn(g) /\ GuardIn(g)[s] = c + 1
    BY <1>2, <1>3, <1>7, <1>8
  <2>4. memory'[s] = Remember("highest", m, c + 1)
    BY <1>2, <1>3, <2>3, ProcessorStep DEF BaseInv, ToldInv
  <2>5. HeardNews(b, GuardIn(g)) <=> Counts("highest", m, c + 1)
    BY <1>2, <1>3, <1>8, <2>3 DEF HeardNews
  <2> QED
    BY <2>2, <2>4, <2>5
<1>10. \A q \in PC : intensity'[q] = Times(log'[b], q)
  <2>1. \A q \in PC : Times(log'[b], q) = Times(log[b], q) + (IF p = q THEN 1 ELSE 0)
    <3> DEFINE T == ToldTo(b)
               l == log[b]
    <3>1. l \in Seq(T) /\ g \in T
      BY <1>2, <1>4
    <3> HIDE DEF T, l
    <3>2. \A q \in PC : Times(Append(l, g), q) = Times(l, q) + (IF p = q THEN 1 ELSE 0)
      BY <3>1, TimesMore
    <3> QED
      BY <1>2, <3>2 DEF Hears, l
  <2>2. \A q \in PC : intensity[q] = Times(log[b], q)
    BY DEF AutoInv
  <2>3. \A q \in PC : intensity[q] \in Nat
    BY <1>4
  <2> QED
    BY <1>6, <2>1, <2>2, <2>3
<1>11. \A q \in PC : before(q) \in SUBSET Nat /\ before(q) # {}
  <2>1. \A l \in past[b] : \A q \in PC : Times(l, q) \in Nat
    BY <1>2, <1>4, TimesMore
  <2> QED
    BY <2>1 DEF TimesAt
<1>12. /\ Documented(b) <=> \E q \in PC : intensity[q] > 0 /\ \A u \in before(q) : intensity[q] > u
       /\ Documented(b)' <=> \E q \in PC : intensity'[q] > 0 /\ \A u \in before(q) : intensity'[q] > u
  <2>1. Documented(b) <=> \E q \in PC : intensity[q] > 0 /\ \A u \in before(q) : intensity[q] > u
    BY DEF Documented, AutoInv, TimesAt
  <2>2. Documented(b)' <=> \E q \in PC : Times(log'[b], q) > 0 /\ \A l \in past[b] : Times(log'[b], q) > Times(l, q)
    BY <1>5 DEF Documented
  <2> QED
    BY <1>10, <2>1, <2>2 DEF TimesAt
<1>13. \A q \in PC : Matches("highest", memory[<<b, q>>], Also(before(q), intensity[q]))
  BY DEF AutoInv
<1>14. before(p) \in SUBSET Nat /\ Matches("highest", m, Also(before(p), c))
  BY <1>2, <1>11, <1>13
<1> HIDE DEF before, m, c, s
<1>15. /\ Matches("highest", Remember("highest", m, c + 1), Also(before(p), c + 1))
       /\ (\A u \in before(p) : c + 1 > u) <=> (\A u \in before(p) : c > u) \/ Counts("highest", m, c + 1)
  BY <1>6, <1>14, CountedUp
<1>16. \A q \in PC : Matches("highest", memory'[<<b, q>>], Also(before(q), intensity'[q]))
  <2>1. ASSUME NEW q \in PC, q = p
        PROVE  Matches("highest", memory'[<<b, q>>], Also(before(q), intensity'[q]))
    BY <1>6, <1>9, <1>15, <2>1 DEF s
  <2>2. ASSUME NEW q \in PC, q # p
        PROVE  Matches("highest", memory'[<<b, q>>], Also(before(q), intensity'[q]))
    BY <1>6, <1>9, <1>13, <2>2
  <2> QED
    BY <2>1, <2>2
<1>17. AutoInv'
  BY <1>5, <1>10, <1>16 DEF AutoInv, before
<1>18. Documented(b)' <=> Documented(b) \/ Counts("highest", m, c + 1)
  <2> DEFINE record(q, n) == n > 0 /\ \A u \in before(q) : n > u
  <2>1. record(p, c + 1) <=> record(p, c) \/ Counts("highest", m, c + 1)
    <3>1. c + 1 > 0
      BY <1>6
    <3>2. (\A u \in before(p) : c > u) => c > 0
      BY <1>2, <1>6, <1>11
    <3> QED
      BY <1>15, <3>1, <3>2
  <2>2. \A q \in PC \ {p} : record(q, intensity'[q]) <=> record(q, intensity[q])
    BY <1>6
  <2>3. record(p, intensity'[p]) <=> record(p, intensity[p]) \/ Counts("highest", m, c + 1)
    BY <1>6, <2>1 DEF c
  <2>4. /\ Documented(b) <=> \E q \in PC : record(q, intensity[q])
        /\ Documented(b)' <=> \E q \in PC : record(q, intensity'[q])
    BY <1>12
  <2> HIDE DEF record
  <2> QED
    BY <1>2, <2>2, <2>3, <2>4
<1> QED
  BY <1>9, <1>17, <1>18

(* The callers are a ring; the latest of them, as FlowTracker::GetTrack     *)
(* reads them.                                                             *)
Latest(callers, index) == [i \in 0..(TrackSize - 1) |-> callers[(index + TrackSize - i) % TrackSize]]
Turned(c, window) == [i \in 0..(TrackSize - 1) |-> IF i = 0 THEN c ELSE window[i - 1]]

FlowInv ==
    /\ memory[<<"flow", 0>>] = {Cardinality(flow.traces)}
    /\ flow.traces = Windows(Also(past["flow"], log["flow"]))
    /\ Latest(flow.callers, flow.index) = Window(log["flow"], Len(log["flow"]))

LEMMA RingModulo ==
    ASSUME NEW n \in Nat, n > 0, NEW y \in Nat, y < n + n
    PROVE  y % n = IF y < n THEN y ELSE y - n
OBVIOUS

(* The next caller takes the place after the latest one, and the oldest goes. *)
LEMMA RingTurns ==
    ASSUME NEW index \in 0..(TrackSize - 1), NEW callers \in [0..(TrackSize - 1) -> Nat], NEW c \in Nat,
           NEW next, next = (index + 1) % TrackSize,
           NEW after, after = [callers EXCEPT ![next] = c]
    PROVE  Latest(after, next) = Turned(c, Latest(callers, index))
<1>1. TrackSize \in Nat /\ TrackSize > 0 /\ index \in Nat /\ index < TrackSize
  BY InstrumentationAssumption
<1>2. next = IF index + 1 < TrackSize THEN index + 1 ELSE 0
  BY <1>1, RingModulo
<1>3. next \in 0..(TrackSize - 1)
  BY <1>1, <1>2
<1>4. after[next] = c /\ \A j \in 0..(TrackSize - 1) : j # next => after[j] = callers[j]
  BY <1>3
<1>5. ASSUME NEW i \in 0..(TrackSize - 1)
      PROVE  after[(next + TrackSize - i) % TrackSize] = IF i = 0 THEN c ELSE Latest(callers, index)[i - 1]
  <2>1. CASE i = 0
    <3>1. (next + TrackSize - i) % TrackSize = next
      <4>1. next + TrackSize - i \in Nat /\ next + TrackSize - i < TrackSize + TrackSize
            /\ next + TrackSize - i >= TrackSize
        BY <1>1, <1>3, <2>1
      <4>2. (next + TrackSize - i) % TrackSize = next + TrackSize - i - TrackSize
        BY <1>1, <4>1, RingModulo
      <4> QED
        BY <1>1, <1>3, <2>1, <4>2
    <3> QED
      BY <1>4, <2>1, <3>1
  <2>2. CASE i # 0
    <3> DEFINE y == next + TrackSize - i
               z == index + TrackSize - (i - 1)
    <3>1. y \in Nat /\ y < TrackSize + TrackSize /\ z \in Nat /\ z < TrackSize + TrackSize
          /\ i - 1 \in 0..(TrackSize - 1)
      BY <1>1, <1>3, <2>2
    <3>2. /\ y % TrackSize = IF y < TrackSize THEN y ELSE y - TrackSize
          /\ z % TrackSize = IF z < TrackSize THEN z ELSE z - TrackSize
      BY <1>1, <3>1, RingModulo
    <3>3. y % TrackSize = z % TrackSize /\ y % TrackSize # next /\ y % TrackSize \in 0..(TrackSize - 1)
      BY <1>1, <1>2, <2>2, <3>2
    <3>4. Latest(callers, index)[i - 1] = callers[z % TrackSize]
      BY <3>1 DEF Latest
    <3> HIDE DEF y, z
    <3>5. after[y % TrackSize] = callers[y % TrackSize]
      BY <1>4, <3>3
    <3> QED
      BY <2>2, <3>3, <3>4, <3>5 DEF y
  <2> QED
    BY <2>1, <2>2
<1> QED
  BY <1>5 DEF Latest, Turned

LEMMA WindowOfMore ==
    ASSUME NEW T, NEW l \in Seq(T), NEW t \in T
    PROVE  /\ \A n \in DOMAIN l : Window(Append(l, t), n) = Window(l, n)
           /\ Window(Append(l, t), Len(l) + 1) = Turned(t.caller, Window(l, Len(l)))
           /\ Windows({Append(l, t)}) = Windows({l}) \union {Window(Append(l, t), Len(l) + 1)}
<1> DEFINE m == Append(l, t)
<1>1. Len(l) \in Nat /\ DOMAIN l = 1..Len(l) /\ DOMAIN m = 1..(Len(l) + 1)
      /\ m[Len(l) + 1] = t /\ \A i \in 1..Len(l) : m[i] = l[i]
  OBVIOUS
<1>2. TrackSize \in Nat
  BY InstrumentationAssumption
<1> HIDE DEF m
<1>3. ASSUME NEW n \in DOMAIN l
      PROVE  Window(m, n) = Window(l, n)
  <2>1. \A i \in 0..(TrackSize - 1) : n > i => m[n - i] = l[n - i]
    BY <1>1, <1>2
  <2> QED
    BY <2>1 DEF Window
<1>4. Window(m, Len(l) + 1) = Turned(t.caller, Window(l, Len(l)))
  <2>1. ASSUME NEW i \in 0..(TrackSize - 1)
        PROVE  (IF Len(l) + 1 > i THEN m[Len(l) + 1 - i].caller ELSE 0) =
               (IF i = 0 THEN t.caller ELSE Window(l, Len(l))[i - 1])
    <3>1. CASE i = 0
      <4>1. Len(l) + 1 > i /\ Len(l) + 1 - i = Len(l) + 1
        BY <1>1, <3>1
      <4> QED
        BY <1>1, <3>1, <4>1
    <3>2. CASE i # 0
      <4>1. i - 1 \in 0..(TrackSize - 1)
        BY <1>2, <3>2
      <4>2. Window(l, Len(l))[i - 1] = IF Len(l) > i - 1 THEN l[Len(l) - (i - 1)].caller ELSE 0
        BY <4>1 DEF Window
      <4>3. Len(l) + 1 > i => Len(l) + 1 - i = Len(l) - (i - 1) /\ Len(l) + 1 - i \in 1..Len(l)
        BY <1>1, <1>2, <3>2
      <4>4. Len(l) + 1 > i <=> Len(l) > i - 1
        BY <1>1, <1>2
      <4> QED
        BY <1>1, <3>2, <4>2, <4>3, <4>4
    <3> QED
      BY <3>1, <3>2
  <2> QED
    BY <2>1 DEF Window, Turned
<1>5. Windows({m}) = Windows({l}) \union {Window(m, Len(l) + 1)}
  <2>1. Windows({m}) = {Window(m, n) : n \in 1..(Len(l) + 1)}
    BY <1>1 DEF Windows
  <2>2. Windows({l}) = {Window(l, n) : n \in 1..Len(l)}
    BY <1>1 DEF Windows
  <2>3. 1..(Len(l) + 1) = (1..Len(l)) \union {Len(l) + 1}
    BY <1>1
  <2>4. {Window(m, n) : n \in 1..Len(l)} = {Window(l, n) : n \in 1..Len(l)}
    BY <1>1, <1>3
  <2> QED
    BY <2>1, <2>2, <2>3, <2>4
<1> QED
  BY <1>3, <1>4, <1>5 DEF m

LEMMA WindowsAlso == \A logs, l : Windows(Also(logs, l)) = Windows(logs) \union Windows({l})
BY DEF Windows, Also

LEMMA FlowHeard ==
    ASSUME GuardInv, NEW g \in Guards, Guard(g), On("flow"),
           NEW l, NEW T, l \in Seq(T), g \in T,
           Latest(flow.callers, flow.index) = Window(l, Len(l))
    PROVE  /\ flow'.traces = flow.traces \union {Window(Append(l, g), Len(l) + 1)}
           /\ Latest(flow'.callers, flow'.index) = Window(Append(l, g), Len(l) + 1)
<1> DEFINE index == (flow.index + 1) % TrackSize
           callers == [flow.callers EXCEPT ![index] = g.caller]
           track == [i \in 0..(TrackSize - 1) |-> callers[(index + TrackSize - i) % TrackSize]]
           w == Window(Append(l, g), Len(l) + 1)
<1>1. flow' = [callers |-> callers, index |-> index, traces |-> flow.traces \union {track}]
  BY DEF Guard, FlowAfter
<1>2. flow.index \in 0..(TrackSize - 1) /\ flow.callers \in [0..(TrackSize - 1) -> Nat]
  BY DEF GuardInv
<1>3. g.caller \in Nat
  BY InstrumentationAssumption
<1>4. track = Latest(callers, index)
  BY DEF Latest
<1> HIDE DEF index
<1>5. index = (flow.index + 1) % TrackSize
  BY DEF index
<1> HIDE DEF callers
<1>6. Latest(callers, index) = Turned(g.caller, Latest(flow.callers, flow.index))
  <2> DEFINE c == g.caller
             ring == flow.callers
             at == flow.index
  <2>1. at \in 0..(TrackSize - 1) /\ ring \in [0..(TrackSize - 1) -> Nat] /\ c \in Nat
        /\ index = (at + 1) % TrackSize /\ callers = [ring EXCEPT ![index] = c]
    BY <1>2, <1>3, <1>5 DEF callers
  <2> HIDE DEF c, ring, at
  <2>2. Latest(callers, index) = Turned(c, Latest(ring, at))
    BY <2>1, RingTurns
  <2> QED
    BY <2>2 DEF c, ring, at
<1>7. w = Turned(g.caller, Window(l, Len(l)))
  BY WindowOfMore
<1> HIDE DEF track, w
<1>8. Latest(callers, index) = w
  BY <1>6, <1>7
<1> QED
  BY <1>1, <1>4, <1>8 DEF w

LEMMA FlowTold ==
    ASSUME BaseInv, "flow" \in uses, FlowInv, NEW g \in Guards, Guard(g), On("flow")
    PROVE  /\ FlowInv'
           /\ Documented("flow")' <=> Documented("flow") \/ HeardNews("flow", GuardIn(g))
<1> DEFINE s == <<"flow", 0>>
           b == "flow"
           l == log[b]
           T == ToldTo(b)
           w == Window(Append(l, g), Len(l) + 1)
           then == flow'.traces
<1>1. b \in uses \intersect GuardUsers
  BY DEF GuardUsers
<1>2. s \in Sensor /\ s[1] = b /\ (\A r \in Sensor : r[1] = b => r = s) /\ TypeOf(b) = "highest"
  BY SensorNames DEF Builtin, AutoBuiltin, TypeOf
<1>3. /\ Hears(b, g) /\ g \in T /\ Deliver(GuardIn(g)) /\ DOMAIN GuardIn(g) = GuardHears(g)
      /\ GuardHears(g) \subseteq Sensor
      /\ \A r \in GuardHears(g) : GuardIn(g)[r] = GuardTold(g)[r]
  BY <1>1, GuardFacts
<1>4. l \in Seq(T) /\ GuardInv /\ MemoryInv
  BY DEF BaseInv, ToldInv, LogInv
<1>5. GuardTold(g)[s] = Cardinality(then)
  <2>1. DOMAIN stack = {"depth", "unique"}
    BY <1>4 DEF GuardInv
  <2> QED
    BY <1>2, <2>1 DEF GuardTold
<1> HIDE DEF s, T, l
<1>6. s \in GuardHears(g)
  BY <1>2 DEF GuardHears
<1>7. memory'[s] = Remember("highest", memory[s], Cardinality(then))
  BY <1>2, <1>3, <1>4, <1>5, <1>6, ProcessorStep
<1>8. HeardNews(b, GuardIn(g)) <=> Counts("highest", memory[s], Cardinality(then))
  BY <1>2, <1>3, <1>5, <1>6 DEF HeardNews
<1>9. Latest(flow.callers, flow.index) = Window(l, Len(l)) /\ memory[s] = {Cardinality(flow.traces)}
      /\ flow.traces = Windows(Also(past[b], l))
  BY DEF FlowInv, s, l
<1>10. then = flow.traces \union {w} /\ Latest(flow'.callers, flow'.index) = w
  BY <1>3, <1>4, <1>9, FlowHeard
<1>11. Windows({Append(l, g)}) = Windows({l}) \union {w}
  BY <1>3, <1>4, WindowOfMore
<1>12. log'[b] = Append(l, g) /\ past'[b] = past[b] /\ Len(log'[b]) = Len(l) + 1
  BY <1>3, <1>4 DEF Hears, l
<1>13. /\ Documented(b) <=> ~(Windows({l}) \subseteq Windows(past[b]))
       /\ Documented(b)' <=> ~(Windows({log'[b]}) \subseteq Windows(past'[b]))
  BY DEF Documented, l
<1> HIDE DEF w, then
<1>14. then = Windows(Also(past[b], Append(l, g))) /\ flow.traces = Windows(past[b]) \union Windows({l})
  <2>1. flow.traces = Windows(past[b]) \union Windows({l})
    BY <1>9, WindowsAlso
  <2>2. Windows(Also(past[b], Append(l, g))) = Windows(past[b]) \union Windows({Append(l, g)})
    BY WindowsAlso
  <2> QED
    BY <1>10, <1>11, <2>1, <2>2
<1>15. /\ Cardinality(flow.traces) \in Nat
       /\ Cardinality(then) = IF w \in flow.traces THEN Cardinality(flow.traces) ELSE Cardinality(flow.traces) + 1
  BY <1>4, <1>10, FS_AddElement, FS_CardinalityType DEF GuardInv
<1>16. Counts("highest", memory[s], Cardinality(then)) <=> w \notin flow.traces
  BY <1>9, <1>15 DEF Counts
<1>17. memory'[s] = {Cardinality(then)}
  BY <1>7, <1>9, <1>15, <1>16 DEF Remember
<1>18. FlowInv'
  <2>1. log'[b] = Append(l, g) /\ w = Window(log'[b], Len(log'[b]))
    BY <1>12 DEF w
  <2>2. Also(past'[b], log'[b]) = Also(past[b], Append(l, g))
    BY <1>12
  <2> QED
    BY <1>10, <1>14, <1>17, <2>1, <2>2 DEF FlowInv, s, then
<1>19. Documented(b)' <=> Documented(b) \/ w \notin flow.traces
  BY <1>11, <1>12, <1>13, <1>14
<1> QED
  BY <1>8, <1>16, <1>18, <1>19

(* What each sensor has made of what it was told. *)
SensorInv(b) ==
    CASE b = "coverage"  -> CoverageInv
      [] b = "depth"     -> DepthInv
      [] b = "flow"      -> FlowInv
      [] b = "intensity" -> IntensityInv
      [] b = "auto"      -> AutoInv
      [] b = "single"    -> SingleInv
      [] b = "cmp"       -> CmpInv
      [] OTHER           -> TRUE

Reporters == Exact \ {"global"}

LEMMA ReporterNames == Reporters = {"coverage", "depth", "flow", "intensity", "auto", "single", "cmp"}
BY DEF Reporters, Exact, Builtin

LEMMA SensorInvs ==
    /\ SensorInv("coverage") = CoverageInv /\ SensorInv("depth") = DepthInv /\ SensorInv("flow") = FlowInv
    /\ SensorInv("intensity") = IntensityInv /\ SensorInv("auto") = AutoInv
    /\ SensorInv("single") = SingleInv /\ SensorInv("cmp") = CmpInv
BY DEF SensorInv

(* A step that sensor b does not notice. *)
Unnoticed(b) ==
    /\ log'[b] = log[b] /\ past'[b] = past[b]
    /\ \A s \in Sensor : s[1] = b => memory'[s] = memory[s]
    /\ b = "depth" => stack'[b] = stack[b]
    /\ b = "flow" => flow' = flow
    /\ b = "intensity" => val' = val
    /\ b = "auto" => intensity' = intensity

LEMMA NothingNoticed ==
    ASSUME NEW b \in Reporters, SensorInv(b), Unnoticed(b)
    PROVE  SensorInv(b)' /\ (Documented(b)' <=> Documented(b))
<1>0. /\ \A c \in Builtin \ AutoBuiltin : c = b => memory'[<<c, 0>>] = memory[<<c, 0>>]
      /\ b \in AutoBuiltin => \A p \in PC : memory'[<<b, p>>] = memory[<<b, p>>]
  BY SensorNames DEF Unnoticed
<1>1. CASE b = "coverage"
  <2>1. memory'[<<"coverage", 0>>] = memory[<<"coverage", 0>>]
    BY <1>0, <1>1 DEF Builtin, AutoBuiltin
  <2>2. SensorInv(b)'
    BY <1>1, <2>1 DEF SensorInv, Unnoticed, CoverageInv, All
  <2> QED
    BY <1>1, <2>2, DocumentedNew, DocumentedThen DEF Unnoticed
<1>2. CASE b = "depth"
  <2>1. memory'[<<"depth", 0>>] = memory[<<"depth", 0>>]
    BY <1>0, <1>2 DEF Builtin, AutoBuiltin
  <2>2. SensorInv(b)'
    BY <1>2, <2>1 DEF SensorInv, Unnoticed, DepthInv, All
  <2> QED
    BY <1>2, <2>2, DocumentedNew, DocumentedThen DEF Unnoticed
<1>3. CASE b = "flow"
  <2>1. memory'[<<"flow", 0>>] = memory[<<"flow", 0>>]
    BY <1>0, <1>3 DEF Builtin, AutoBuiltin
  <2>2. SensorInv(b)'
    BY <1>3, <2>1 DEF SensorInv, Unnoticed, FlowInv
  <2> QED
    BY <1>3, <2>2 DEF Unnoticed, Documented
<1>4. CASE b = "intensity"
  <2>1. memory'[<<"intensity", 0>>] = memory[<<"intensity", 0>>]
    BY <1>0, <1>4 DEF Builtin, AutoBuiltin
  <2>2. SensorInv(b)'
    BY <1>4, <2>1 DEF SensorInv, Unnoticed, IntensityInv
  <2> QED
    BY <1>4, <2>2 DEF Unnoticed, Documented
<1>5. CASE b = "auto"
  <2>1. \A p \in PC : memory'[<<"auto", p>>] = memory[<<"auto", p>>]
    BY <1>0, <1>5 DEF Builtin, AutoBuiltin
  <2>2. SensorInv(b)'
    BY <1>5, <2>1 DEF SensorInv, Unnoticed, AutoInv
  <2> QED
    BY <1>5, <2>2 DEF Unnoticed, Documented
<1>6. CASE b = "single"
  <2>1. \A p \in PC : memory'[<<"single", p>>] = memory[<<"single", p>>]
    BY <1>0, <1>6 DEF Builtin, AutoBuiltin
  <2>2. SensorInv(b)'
    BY <1>6, <2>1 DEF SensorInv, Unnoticed, SingleInv, All
  <2> QED
    BY <1>6, <2>2, DocumentedNew, DocumentedThen DEF Unnoticed
<1>7. CASE b = "cmp"
  <2>1. \A p \in PC : memory'[<<"cmp", p>>] = memory[<<"cmp", p>>]
    BY <1>0, <1>7 DEF Builtin, AutoBuiltin
  <2>2. SensorInv(b)'
    BY <1>7, <2>1 DEF SensorInv, Unnoticed, CmpInv, All
  <2> QED
    BY <1>7, <2>2, DocumentedNew, DocumentedThen DEF Unnoticed
<1> QED
  BY <1>1, <1>2, <1>3, <1>4, <1>5, <1>6, <1>7, ReporterNames

(* A new cycle starts: what was told in the last one is past. *)
LEMMA ZeroHeard ==
    ASSUME NEW m, NEW before \in SUBSET Nat, NEW c \in Nat, Matches("highest", m, Also(before, c))
    PROVE  Matches("highest", m, Also(Also(before, c), 0))
<1>1. PICK k \in Also(before, c) \union {0} : m = {k} /\ \A u \in Also(before, c) : u <= k
  BY DEF Matches
<1>2. k \in Nat
  BY <1>1 DEF Also
<1>3. \A u \in Also(Also(before, c), 0) : u <= k
  BY <1>1, <1>2 DEF Also
<1>4. k \in Also(Also(before, c), 0)
  BY <1>1 DEF Also
<1> QED
  BY <1>1, <1>3, <1>4 DEF Matches

LEMMA AllIsPast ==
    \A old, l : /\ Told(Also(Also(old, l), <<>>)) = Told(Also(old, l))
                /\ Windows(Also(Also(old, l), <<>>)) = Windows(Also(old, l))
<1>1. Told({<<>>}) = {} /\ Windows({<<>>}) = {}
  BY ToldNothing DEF Windows
<1> SUFFICES ASSUME NEW old, NEW l
             PROVE  /\ Told(Also(Also(old, l), <<>>)) = Told(Also(old, l))
                    /\ Windows(Also(Also(old, l), <<>>)) = Windows(Also(old, l))
  OBVIOUS
<1> DEFINE none == <<>>
<1> HIDE DEF none
<1>2. \A logs : Told(Also(logs, none)) = Told(logs) \union Told({none})
  BY ToldUnion
<1>3. \A logs : Windows(Also(logs, none)) = Windows(logs) \union Windows({none})
  BY WindowsAlso
<1> QED
  BY <1>1, <1>2, <1>3 DEF none

LEMMA TimesNat == \A T : \A l \in Seq(T) : \A p : Times(l, p) \in Nat
<1> SUFFICES ASSUME NEW T, NEW l \in Seq(T), NEW p
             PROVE  Times(l, p) \in Nat
  OBVIOUS
<1>1. Len(l) \in Int /\ 1 \in Int /\ DOMAIN l = 1..Len(l)
  OBVIOUS
<1>2. IsFiniteSet(1..Len(l))
  BY <1>1, FS_Interval
<1>3. IsFiniteSet({i \in DOMAIN l : l[i].pc = p})
  BY <1>1, <1>2, FS_Subset
<1> QED
  BY <1>3, FS_CardinalityType DEF Times

LEMMA StartsAnew ==
    ASSUME BaseInv, StartRecord, NEW b \in uses \intersect Reporters, SensorInv(b)
    PROVE  SensorInv(b)' /\ ~Documented(b)' /\ past'[b] # {}
<1> DEFINE l == log[b]
           old == past[b]
<1>1. past'[b] = Also(old, l) /\ log'[b] = <<>>
  BY ReporterNames DEF StartRecord, Also
<1>2. /\ memory' = memory /\ stack' = stack /\ val' = 0 /\ intensity' = [p \in PC |-> 0]
      /\ flow' = [flow EXCEPT !.callers = ClearCallers]
  BY DEF StartRecord
<1>3. l \in Seq(ToldTo(b)) /\ old \in SUBSET Seq(ToldTo(b)) /\ GuardInv
  BY DEF BaseInv, ToldInv, LogInv
<1>4. All(b)' = All(b)
  <2>1. All(b)' = Told(Also(Also(old, l), <<>>))
    BY <1>1 DEF All
  <2>2. All(b) = Told(Also(old, l))
    BY DEF All
  <2> QED
    BY <2>1, <2>2, AllIsPast
<1>5. past'[b] # {}
  BY <1>1 DEF Also
<1>6. ASSUME b \in {"coverage", "depth", "single", "cmp"}
      PROVE  ~Documented(b)'
  BY <1>1, <1>6, DocumentedThen, NothingNew
<1>7. ASSUME b \in {"coverage", "depth", "single", "cmp"}
      PROVE  SensorInv(b)'
  <2>1. CASE b = "coverage"
    BY <1>2, <1>4, <2>1 DEF SensorInv, CoverageInv
  <2>2. CASE b = "depth"
    BY <1>2, <1>4, <2>2 DEF SensorInv, DepthInv
  <2>3. CASE b = "single"
    BY <1>2, <1>4, <2>3 DEF SensorInv, SingleInv
  <2>4. CASE b = "cmp"
    BY <1>2, <1>4, <2>4 DEF SensorInv, CmpInv
  <2> QED
    BY <1>7, <2>1, <2>2, <2>3, <2>4
<1>8. CASE b = "intensity"
  <2>1. \A k \in past'[b] : ~(Len(log'[b]) > Len(k))
    BY <1>1, <1>3 DEF Also
  <2>2. ~Documented(b)'
    BY <1>5, <1>8, <2>1 DEF Documented
  <2>3. IntensityInv
    BY <1>8 DEF SensorInv
  <2> DEFINE before == Lengths(old)
             m == memory[<<"intensity", 0>>]
  <2>4. before \in SUBSET Nat /\ val \in Nat /\ val = Len(l) /\ Matches("highest", m, Also(before, val))
    BY <1>3, <1>8, <2>3 DEF Lengths, IntensityInv, GuardInv
  <2>5. Lengths(past'[b]) = Also(before, val)
    BY <1>1, <2>4 DEF Lengths, Also
  <2> HIDE DEF before, m
  <2>6. Matches("highest", m, Also(Also(before, val), 0))
    BY <2>4, ZeroHeard
  <2>7. IntensityInv'
    BY <1>1, <1>2, <1>8, <2>5, <2>6 DEF IntensityInv, m
  <2> QED
    BY <1>5, <1>8, <2>2, <2>7 DEF SensorInv
<1>9. CASE b = "auto"
  <2>1. \A p : Times(<<>>, p) = 0
    <3>1. \A p : {i \in DOMAIN <<>> : <<>>[i].pc = p} = {}
      OBVIOUS
    <3> QED
      BY <3>1, FS_EmptySet DEF Times
  <2>2. ~Documented(b)'
    BY <1>1, <1>9, <2>1 DEF Documented
  <2>3. AutoInv
    BY <1>9 DEF SensorInv
  <2>4. ASSUME NEW p \in PC
        PROVE  Matches("highest", memory[<<"auto", p>>], Also(TimesAt(p, past'[b]), 0))
    <3> DEFINE before == TimesAt(p, old)
               m == memory[<<"auto", p>>]
               c == intensity[p]
    <3>1. c = Times(l, p) /\ Matches("highest", m, Also(before, c)) /\ c \in Nat
      BY <1>3, <1>9, <2>3 DEF AutoInv, GuardInv
    <3>2. before \in SUBSET Nat
      BY <1>3, TimesNat DEF TimesAt
    <3>3. TimesAt(p, past'[b]) = Also(before, c)
      BY <1>1, <3>1 DEF TimesAt, Also
    <3> HIDE DEF before, m, c
    <3>4. Matches("highest", m, Also(Also(before, c), 0))
      BY <3>1, <3>2, ZeroHeard
    <3> QED
      BY <3>3, <3>4 DEF m
  <2>5. AutoInv'
    BY <1>1, <1>2, <1>9, <2>1, <2>4 DEF AutoInv
  <2> QED
    BY <1>5, <1>9, <2>2, <2>5 DEF SensorInv
<1>10. CASE b = "flow"
  <2>1. Windows({<<>>}) = {}
    BY DEF Windows
  <2>2. ~Documented(b)'
    BY <1>1, <1>10, <2>1 DEF Documented
  <2>3. FlowInv
    BY <1>10 DEF SensorInv
  <2>4. flow'.traces = flow.traces /\ flow'.callers = ClearCallers /\ flow'.index = flow.index
    BY <1>2, <1>3 DEF GuardInv
  <2>5. Latest(ClearCallers, flow.index) = Window(<<>>, Len(<<>>))
    <3>1. Len(<<>>) = 0 /\ TrackSize \in Nat /\ TrackSize > 0 /\ flow.index \in 0..(TrackSize - 1)
      BY <1>3, InstrumentationAssumption DEF GuardInv
    <3>2. \A i \in 0..(TrackSize - 1) : (flow.index + TrackSize - i) % TrackSize \in 0..(TrackSize - 1)
      BY <3>1
    <3>3. \A i \in 0..(TrackSize - 1) : ClearCallers[(flow.index + TrackSize - i) % TrackSize] = 0
      BY <3>2 DEF ClearCallers
    <3>4. \A i \in 0..(TrackSize - 1) : ~(0 > i)
      BY <3>1
    <3> QED
      BY <3>1, <3>3, <3>4 DEF Latest, Window
  <2>6. Windows(Also(past'[b], log'[b])) = Windows(Also(old, l))
    BY <1>1, AllIsPast
  <2>7. FlowInv'
    BY <1>1, <1>2, <1>10, <2>3, <2>4, <2>5, <2>6 DEF FlowInv
  <2> QED
    BY <1>5, <1>10, <2>2, <2>7 DEF SensorInv
<1> QED
  BY <1>5, <1>6, <1>7, <1>8, <1>9, <1>10, ReporterNames

LEMMA OthersNotTold ==
    ASSUME MemoryInv, NEW in, Deliver(in), NEW b, \A s \in DOMAIN in : s[1] # b
    PROVE  ~HeardNews(b, in) /\ \A s \in Sensor : s[1] = b => memory'[s] = memory[s]
BY ProcessorStep DEF HeardNews

(* The news of a cycle so far, and when it has stopped. *)
SoFar == news <=> \E b \in uses \intersect Reporters : Documented(b)

StoryInv ==
    uses \subseteq Exact =>
        /\ \A b \in uses \intersect Reporters : SensorInv(b)
        /\ pc # "idle" => SoFar /\ \A b \in uses \intersect Reporters : past[b] # {}
        /\ NewsAsDocumented

LEMMA ToldStory ==
    ASSUME MemoryInv, StoryInv, uses \subseteq Exact, pc # "idle", pc' # "idle", UNCHANGED <<uses, past>>,
           NEW in, Deliver(in), \A s \in DOMAIN in : s[1] \in uses \intersect Reporters,
           \A b \in uses \intersect Reporters :
               SensorInv(b)' /\ (Documented(b)' <=> Documented(b) \/ HeardNews(b, in))
    PROVE  StoryInv'
<1>1. SoFar /\ \A b \in uses \intersect Reporters : past[b] # {}
  BY DEF StoryInv
<1>2. news' <=> news \/ \E s \in DOMAIN in : Counts(TypeOf(s[1]), memory[s], in[s])
  BY DEF Deliver, MemoryInv
<1>3. (\E s \in DOMAIN in : Counts(TypeOf(s[1]), memory[s], in[s]))
          <=> \E b \in uses \intersect Reporters : HeardNews(b, in)
  BY DEF HeardNews
<1>4. news' <=> \E b \in uses \intersect Reporters : Documented(b)'
  BY <1>1, <1>2, <1>3 DEF SoFar
<1>5. SoFar'
  BY <1>4 DEF SoFar
<1>6. NewsAsDocumented'
  BY DEF NewsAsDocumented
<1> QED
  BY <1>1, <1>5, <1>6 DEF StoryInv

LEMMA UntoldStory ==
    ASSUME StoryInv, uses \subseteq Exact, pc # "idle", pc' # "idle", UNCHANGED <<uses, past, news>>,
           \A b \in uses \intersect Reporters : Unnoticed(b)
    PROVE  StoryInv'
<1>1. SoFar /\ \A b \in uses \intersect Reporters : past[b] # {} /\ SensorInv(b)
  BY DEF StoryInv
<1>2. \A b \in uses \intersect Reporters : SensorInv(b)' /\ (Documented(b)' <=> Documented(b))
  BY <1>1, NothingNoticed
<1>3. news' <=> \E b \in uses \intersect Reporters : Documented(b)'
  BY <1>1, <1>2 DEF SoFar
<1>4. SoFar'
  BY <1>3 DEF SoFar
<1>5. NewsAsDocumented'
  BY DEF NewsAsDocumented
<1> QED
  BY <1>1, <1>2, <1>4, <1>5 DEF StoryInv

LEMMA GuardStory ==
    ASSUME BaseInv, StoryInv, uses \subseteq Exact, NEW g \in Guards, Guard(g)
    PROVE  StoryInv'
<1> DEFINE in == GuardIn(g)
<1>1. /\ pc = "recording" /\ pc' = "flagged" /\ UNCHANGED <<uses, past>> /\ MemoryInv
      /\ \A b \in uses \intersect Reporters : SensorInv(b) /\ past[b] # {}
  BY DEF Guard, Event, StoryInv, BaseInv, ToldInv
<1>2. Deliver(in) /\ DOMAIN in = GuardHears(g)
  BY GuardDelivers DEF GuardIn
<1>3. \A s \in GuardHears(g) : s \in Sensor /\ On(s[1]) /\ s[1] \in GuardUsers
  <2>1. DOMAIN stack = {"depth", "unique"}
    BY DEF BaseInv, ToldInv, GuardInv
  <2>2. \A p : <<"auto", p>>[1] = "auto"
    OBVIOUS
  <2> QED
    BY <2>1, <2>2 DEF GuardHears, GuardUsers
<1>4. \A s \in DOMAIN in : s[1] \in uses \intersect Reporters
  <2>1. \A b \in GuardUsers : b \in Exact => b \in Reporters
    BY ReporterNames DEF Exact, GuardUsers, Builtin
  <2> QED
    BY <1>2, <1>3, <2>1 DEF On
<1>5. ASSUME NEW b \in uses \intersect Reporters, ~(b \in GuardUsers /\ On(b))
      PROVE  SensorInv(b)' /\ (Documented(b)' <=> Documented(b) \/ HeardNews(b, in))
  <2>1. \A s \in DOMAIN in : s[1] # b
    BY <1>2, <1>3, <1>5
  <2>2. ~HeardNews(b, in) /\ \A s \in Sensor : s[1] = b => memory'[s] = memory[s]
    BY <1>1, <1>2, <2>1, OthersNotTold
  <2>3. log'[b] = log[b]
    BY <1>5 DEF Guard, Event, GuardUsers
  <2>4. /\ b = "depth" => stack'[b] = stack[b]
        /\ b = "flow" => flow' = flow
        /\ b = "intensity" => val' = val
        /\ b = "auto" => intensity' = intensity
    <3>1. DOMAIN stack = {"depth", "unique"}
      BY DEF BaseInv, ToldInv, GuardInv
    <3> QED
      BY <1>5, <3>1 DEF Guard, GuardUsers, StackAfter, FlowAfter
  <2>5. Unnoticed(b)
    BY <1>1, <2>2, <2>3, <2>4 DEF Unnoticed
  <2> QED
    BY <1>1, <2>2, <2>5, NothingNoticed
<1>6. ASSUME NEW b \in uses \intersect Reporters, b \in GuardUsers, On(b)
      PROVE  SensorInv(b)' /\ (Documented(b)' <=> Documented(b) \/ HeardNews(b, in))
  <2>1. SensorInv(b) /\ past[b] # {}
    BY <1>1
  <2>2. CASE b = "coverage"
    BY <1>6, <2>1, <2>2, CoverageTold, SensorInvs DEF SensorInv
  <2>3. CASE b = "depth"
    BY <1>6, <2>1, <2>3, DepthTold DEF SensorInv
  <2>4. CASE b = "flow"
    BY <1>6, <2>1, <2>4, FlowTold DEF SensorInv
  <2>5. CASE b = "intensity"
    BY <1>6, <2>1, <2>5, IntensityTold DEF SensorInv
  <2>6. CASE b = "auto"
    BY <1>6, <2>1, <2>6, AutoTold DEF SensorInv
  <2> QED
    BY <1>6, <2>2, <2>3, <2>4, <2>5, <2>6, ReporterNames DEF GuardUsers
<1> HIDE DEF in
<1> QED
  BY <1>1, <1>2, <1>4, <1>5, <1>6, ToldStory

(* One sensor with a processor for each place is told something, or nobody. *)
LEMMA PlaceStory ==
    ASSUME BaseInv, StoryInv, uses \subseteq Exact, pc # "idle", pc' # "idle", UNCHANGED <<uses, past, ofGuards>>,
           NEW b \in {"single", "cmp"}, NEW p \in PC, NEW v, NEW told \in BOOLEAN, told => On(b),
           NEW in, Deliver(in), in = IF told THEN [s \in {<<b, p>>} |-> v] ELSE None,
           told => SensorInv(b)' /\ (Documented(b)' <=> Documented(b) \/ HeardNews(b, in)),
           \A c \in uses \intersect Reporters : c # b \/ ~told => log'[c] = log[c]
    PROVE  StoryInv'
<1>1. MemoryInv /\ \A c \in uses \intersect Reporters : SensorInv(c)
  BY DEF StoryInv, BaseInv, ToldInv
<1>2. \A s \in DOMAIN in : told /\ s = <<b, p>>
  BY DEF None
<1>3. \A s \in DOMAIN in : s[1] = b /\ told
  BY <1>2
<1>4. \A s \in DOMAIN in : s[1] \in uses \intersect Reporters
  BY <1>3, ReporterNames DEF On
<1>5. ASSUME NEW c \in uses \intersect Reporters, c # b \/ ~told
      PROVE  SensorInv(c)' /\ (Documented(c)' <=> Documented(c) \/ HeardNews(c, in))
  <2>1. \A s \in DOMAIN in : s[1] # c
    BY <1>3, <1>5
  <2>2. ~HeardNews(c, in) /\ \A s \in Sensor : s[1] = c => memory'[s] = memory[s]
    BY <1>1, <2>1, OthersNotTold
  <2>3. Unnoticed(c)
    BY <1>5, <2>2 DEF Unnoticed, ofGuards
  <2> QED
    BY <1>1, <2>2, <2>3, NothingNoticed
<1>6. \A c \in uses \intersect Reporters : SensorInv(c)' /\ (Documented(c)' <=> Documented(c) \/ HeardNews(c, in))
  BY <1>5
<1>7. UNCHANGED <<uses, past>>
  OBVIOUS
<1> QED
  BY <1>1, <1>4, <1>6, <1>7, ToldStory

LEMMA MallocStory ==
    ASSUME BaseInv, StoryInv, uses \subseteq Exact, NEW p \in PC, NEW a, NEW size \in Nat,
           Malloc(p, a, size) \/ EngineMalloc(p, a, size), pc # "idle"
    PROVE  StoryInv'
<1> DEFINE b == "single"
           t == [pc |-> p, size |-> size]
           told == Hooked /\ On(b)
           in == IF told THEN [s \in {<<b, p>>} |-> size] ELSE None
<1>1. /\ pc # "idle" /\ pc' = pc /\ UNCHANGED <<uses, past, ofGuards>> /\ Deliver(in)
      /\ size > 0
  BY DEF Malloc, EngineMalloc, HookMalloc
<1>2. \A c \in uses \intersect Reporters : c # b \/ ~told => log'[c] = log[c]
  <2>1. CASE Malloc(p, a, size)
    <3>1. Hooked
      BY <2>1 DEF Malloc, Event, Hooked, BaseInv, IInv, FlagInv
    <3> QED
      BY <2>1, <3>1 DEF Malloc, Event
  <2>2. CASE EngineMalloc(p, a, size)
    BY <1>1, <2>2 DEF EngineMalloc
  <2> QED
    BY <2>1, <2>2
<1>3. ASSUME told
      PROVE  log'[b] = Append(log[b], t) /\ b \in uses
  <2>1. CASE Malloc(p, a, size)
    BY <1>3, <2>1 DEF Malloc, Event, On
  <2>2. CASE EngineMalloc(p, a, size)
    <3>1. log = [c \in uses |-> log[c]] /\ b \in uses
      BY <1>3 DEF BaseInv, ToldInv, LogInv, On
    <3> QED
      BY <1>1, <1>3, <2>2, <3>1 DEF EngineMalloc
  <2> QED
    BY <2>1, <2>2
<1>4. ASSUME told
      PROVE  SensorInv(b)' /\ (Documented(b)' <=> Documented(b) \/ HeardNews(b, in))
  <2>1. b \in uses \intersect Reporters
    BY <1>3, <1>4, ReporterNames
  <2>2. SingleInv
    BY <2>1 DEF StoryInv, SensorInv
  <2>3. t \in ToldTo(b)
    BY <1>1 DEF ToldTo, GuardUsers
  <2>4. Hears(b, t)
    BY <1>1, <1>3, <1>4 DEF Hears
  <2>5. in = [s \in {<<b, t.pc>>} |-> t.size]
    BY <1>4
  <2>6. SingleInv' /\ (Documented(b)' <=> Documented(b) \/ HeardNews(b, in))
    <3> HIDE DEF t, in
    <3> QED
      BY <1>1, <2>1, <2>2, <2>3, <2>4, <2>5, SingleTold
  <2> QED
    BY <2>6 DEF SensorInv
<1>5. told => On(b)
  OBVIOUS
<1>6. told \in BOOLEAN
  BY DEF Hooked
<1> HIDE DEF told
<1>7. in = IF told THEN [s \in {<<b, p>>} |-> size] ELSE None
  OBVIOUS
<1> HIDE DEF in
<1> QED
  BY <1>1, <1>2, <1>4, <1>5, <1>6, <1>7, PlaceStory

LEMMA CmpStory ==
    ASSUME BaseInv, StoryInv, uses \subseteq Exact, NEW c \in [pc : PC, a : Nat, b : Nat], HandleCmp(c), pc' # "idle"
    PROVE  StoryInv'
<1> DEFINE b == "cmp"
           told == On(b)
           in == IF told THEN [s \in {<<b, c.pc>>} |-> Difference(c)] ELSE None
<1>1. pc # "idle" /\ UNCHANGED <<uses, past, ofGuards>> /\ Deliver(in)
  BY DEF HandleCmp, Event
<1>2. \A d \in uses \intersect Reporters : d # b \/ ~told => log'[d] = log[d]
  BY ReporterNames DEF HandleCmp, Event
<1>3. ASSUME told
      PROVE  log'[b] = Append(log[b], c) /\ b \in uses
  BY <1>3 DEF HandleCmp, Event, On
<1>4. ASSUME told
      PROVE  SensorInv(b)' /\ (Documented(b)' <=> Documented(b) \/ HeardNews(b, in))
  <2>1. b \in uses \intersect Reporters
    BY <1>3, <1>4, ReporterNames
  <2>2. CmpInv
    BY <2>1 DEF StoryInv, SensorInv
  <2>3. c \in ToldTo(b)
    BY DEF ToldTo, GuardUsers
  <2>4. Hears(b, c)
    BY <1>1, <1>3, <1>4 DEF Hears
  <2>5. in = [s \in {<<b, c.pc>>} |-> Difference(c)]
    BY <1>4
  <2>6. CmpInv' /\ (Documented(b)' <=> Documented(b) \/ HeardNews(b, in))
    <3> HIDE DEF in
    <3> QED
      BY <1>1, <2>1, <2>2, <2>3, <2>4, <2>5, CmpTold
  <2> QED
    BY <2>6 DEF SensorInv
<1>5. told => On(b)
  OBVIOUS
<1>6. told \in BOOLEAN /\ c.pc \in PC
  BY DEF On, BaseInv, IInv, FlagInv
<1> HIDE DEF told
<1>7. in = IF told THEN [s \in {<<b, c.pc>>} |-> Difference(c)] ELSE None
  OBVIOUS
<1> HIDE DEF in
<1> QED
  BY <1>1, <1>2, <1>4, <1>5, <1>6, <1>7, PlaceStory

(* AllocationTracker's all time maximum is the most memory that was in use, *)
(* as long as the tracker heard where its blocks went; the processor has   *)
(* the most that a cycle could report.                                     *)
ofGlobal == memory[<<"global", 0>>]

GlobalInv ==
    "global" \in uses /\ ~upset =>
        /\ tracker.max = Max2(peak, best) /\ reported <= best
        /\ pc # "idle" => tracker.cur <= peak /\ ofGlobal = {reported}
        /\ pc = "idle" => ofGlobal = {IF On("global") THEN Max2(peak, best) ELSE reported}

LEMMA UsageIsCurrent ==
    ASSUME BaseInv, pc # "idle", ~upset
    PROVE  Usage(heap) = tracker.cur
<1>1. tracker.map = Live(heap) /\ tracker.cur = Total(tracker.map)
  BY NothingLost DEF BaseInv, AllocInv
<1> QED
  BY <1>1 DEF Usage, Live, Known

LEMMA UsageWillBeCurrent ==
    ASSUME BaseInv', pc' # "idle", ~upset'
    PROVE  Usage(heap') = tracker'.cur
<1>1. Holds(tracker'.map, heap', lost') /\ lost' = {} /\ Numbers(tracker'.map) /\ tracker'.cur = Total(tracker'.map)
  BY DEF BaseInv, IInv, FlagInv, HeapInv, AllocInv
<1>2. /\ DOMAIN tracker'.map = Known(heap')
      /\ \A a \in Known(heap') : tracker'.map[a] = heap'[a].size
  BY <1>1 DEF Holds
<1>3. tracker'.map = [a \in DOMAIN tracker'.map |-> tracker'.map[a]]
  BY <1>1 DEF Numbers
<1>4. tracker'.map = Live(heap')
  BY <1>2, <1>3 DEF Live
<1> QED
  BY <1>1, <1>4 DEF Usage, Live, Known

LEMMA GlobalQuiet ==
    ASSUME BaseInv, BaseInv', GlobalInv, UNCHANGED <<uses, peak, best, reported>>, upset => upset',
           tracker'.max = tracker.max, tracker'.cur <= tracker.cur, pc = "idle" <=> pc' = "idle",
           pc = "idle" => off' = off,
           ofGlobal' = ofGlobal
    PROVE  GlobalInv'
<1>1. {tracker.cur, tracker'.cur, peak} \subseteq Nat
  BY TotalType DEF BaseInv, AllocInv
<1>2. pc = "idle" => (On("global")' <=> On("global"))
  BY DEF On
<1> QED
  BY <1>1, <1>2 DEF GlobalInv

LEMMA GlobalUntold ==
    ASSUME MemoryInv, NEW in, Deliver(in), \A s \in DOMAIN in : s[1] # "global"
    PROVE  ofGlobal' = ofGlobal
<1>1. <<"global", 0>> \in Sensor
  BY SensorNames DEF Builtin, AutoBuiltin
<1> QED
  BY <1>1, OthersNotTold DEF ofGlobal

LEMMA GlobalMalloc ==
    ASSUME BaseInv, BaseInv', GlobalInv, NEW p \in PC, NEW a, NEW size \in Nat, NEW owner,
           HookMalloc(p, a, size, owner), UNCHANGED <<pc, uses, off>>
    PROVE  GlobalInv'
<1> DEFINE in == IF Hooked /\ On("single") THEN [s \in {<<"single", p>>} |-> size] ELSE None
<1>1. /\ Deliver(in) /\ UNCHANGED <<best, reported, upset>>
      /\ peak' = IF Counted /\ Usage(heap') > peak THEN Usage(heap') ELSE peak
      /\ tracker' = IF Counted THEN AddMalloc(a, size) ELSE tracker
  BY HearsWhatCounts DEF HookMalloc, BaseInv, IInv
<1>2. ofGlobal' = ofGlobal
  <2>1. \A s \in DOMAIN in : s[1] # "global"
    BY DEF None
  <2> HIDE DEF in
  <2> QED
    BY <1>1, <2>1, GlobalUntold DEF BaseInv, ToldInv
<1>3. CASE ~Counted
  <2>1. tracker' = tracker /\ UNCHANGED <<pc, uses, off, peak, best, reported, upset>> /\ tracker.cur \in Nat
    BY <1>1, <1>3, TotalType DEF BaseInv, AllocInv
  <2> QED
    BY <1>2, <2>1, GlobalQuiet
<1>4. SUFFICES ASSUME Counted, "global" \in uses, ~upset
               PROVE  tracker'.max = Max2(peak', best) /\ tracker'.cur <= peak' /\ ofGlobal' = {reported} /\ reported <= best
  BY <1>1, <1>3 DEF GlobalInv, Counted
<1>5. tracker.max = Max2(peak, best) /\ tracker.cur <= peak /\ ofGlobal = {reported} /\ reported <= best
  BY <1>4 DEF GlobalInv, Counted
<1>6. Usage(heap') = tracker'.cur /\ {tracker.cur, tracker'.cur, peak, best, tracker.max} \subseteq Nat
  <2>1. {tracker.cur, tracker'.cur, peak, best, tracker.max} \subseteq Nat
    BY TotalType DEF BaseInv, AllocInv
  <2>2. pc' # "idle" /\ ~upset'
    BY <1>1, <1>4 DEF Counted
  <2> QED
    BY <2>1, <2>2, UsageWillBeCurrent
<1>7. \/ tracker' = tracker
      \/ tracker'.max = IF tracker'.cur > tracker.max THEN tracker'.cur ELSE tracker.max
  BY <1>1 DEF AddMalloc
<1>8. peak' = Max2(tracker'.cur, peak)
  BY <1>1, <1>4, <1>6 DEF Max2
<1>9. tracker'.cur <= peak'
  BY <1>6, <1>8 DEF Max2
<1>10. tracker'.max = Max2(peak', best)
  <2>1. CASE tracker' = tracker
    BY <1>5, <1>6, <1>8, <2>1 DEF Max2
  <2>2. CASE tracker'.max = IF tracker'.cur > tracker.max THEN tracker'.cur ELSE tracker.max
    BY <1>5, <1>6, <1>8, <2>2 DEF Max2
  <2> QED
    BY <1>7, <2>1, <2>2
<1> QED
  BY <1>2, <1>5, <1>9, <1>10

LEMMA GlobalStart == BaseInv /\ BaseInv' /\ GlobalInv /\ StartRecord => GlobalInv'
<1> SUFFICES ASSUME BaseInv, BaseInv', GlobalInv, StartRecord
             PROVE  GlobalInv'
  OBVIOUS
<1>0. SUFFICES ASSUME "global" \in uses, ~upset
               PROVE  GlobalInv'
  <2>1. UNCHANGED <<uses, upset>>
    BY DEF StartRecord
  <2> QED
    BY <2>1 DEF GlobalInv
<1>1. /\ pc = "idle" /\ pc' = "recording" /\ memory' = memory /\ tracker' = [tracker EXCEPT !.map = None, !.cur = 0]
      /\ best' = Max2(peak, best) /\ peak' = 0
      /\ reported' = IF On("global") THEN best' ELSE reported
  BY DEF StartRecord, Max2
<1>2. tracker'.max = tracker.max /\ tracker'.cur = 0
  BY <1>1 DEF BaseInv, IInv, HeapInv
<1>3. /\ tracker.max = Max2(peak, best) /\ reported <= best /\ {peak, best, reported} \subseteq Nat
      /\ ofGlobal = {IF On("global") THEN Max2(peak, best) ELSE reported}
  BY <1>0, <1>1 DEF GlobalInv, BaseInv, AllocInv
<1>4. Max2(0, Max2(peak, best)) = Max2(peak, best) /\ reported' <= best'
  BY <1>1, <1>3 DEF Max2
<1>5. ofGlobal' = {reported'}
  BY <1>1, <1>3 DEF ofGlobal
<1> QED
  BY <1>1, <1>2, <1>3, <1>4, <1>5 DEF GlobalInv

LEMMA GlobalStop ==
    ASSUME BaseInv, GlobalInv, StopRecord
    PROVE  GlobalInv'
<1> DEFINE most == Late("global", {tracker.max})
           counted == \E v \in most : Counts("highest", ofGlobal, v)
<1>1. /\ pc = "recording" /\ pc' = "idle" /\ UNCHANGED <<uses, off, tracker, peak, best, reported, upset>>
      /\ ofGlobal' = IF counted THEN most ELSE ofGlobal
  <2>1. <<"global", 0>> \in Sensor /\ <<"global", 0>> # <<"profile", 0>>
    BY SensorNames DEF Builtin, AutoBuiltin
  <2> QED
    BY <2>1 DEF StopRecord, ofHeap, ofGlobal, BaseInv, ToldInv, MemoryInv
<1>2. On("global")' <=> On("global")
  BY <1>1 DEF On
<1>3. SUFFICES ASSUME "global" \in uses, ~upset
               PROVE  /\ tracker.max = Max2(peak, best) /\ reported <= best
                      /\ ofGlobal' = {IF On("global") THEN Max2(peak, best) ELSE reported}
  BY <1>1, <1>2 DEF GlobalInv
<1>4. /\ {peak, best, reported} \subseteq Nat
      /\ tracker.max = Max2(peak, best) /\ ofGlobal = {reported} /\ reported <= best
  BY <1>1, <1>3 DEF GlobalInv, BaseInv, AllocInv
<1>5. CASE ~On("global")
  <2>1. most = {}
    BY <1>5 DEF Late
  <2> QED
    BY <1>1, <1>4, <1>5, <2>1
<1>6. CASE On("global")
  <2>1. most = {Max2(peak, best)}
    BY <1>4, <1>6 DEF Late
  <2>2. counted <=> Max2(peak, best) > reported
    BY <1>4, <2>1 DEF Counts
  <2>3. ~(Max2(peak, best) > reported) => Max2(peak, best) = reported
    BY <1>4 DEF Max2
  <2> QED
    BY <1>1, <1>4, <1>6, <2>1, <2>2, <2>3
<1> QED
  BY <1>5, <1>6

LEMMA GlobalDocumented ==
    /\ Documented("global") <=> On("global") /\ peak > best
    /\ Documented("global")' <=> On("global")' /\ peak' > best'
    /\ Owed <=> On("global") /\ best > reported
    /\ Owed' <=> On("global")' /\ best' > reported'
BY DEF Documented, Owed

LEMMA StopStory ==
    ASSUME BaseInv, StoryInv, GlobalInv, uses \subseteq Exact, StopRecord
    PROVE  StoryInv'
<1> DEFINE most == Late("global", {tracker.max})
           shown == Late("profile", bits)
           counted == \E v \in most : Counts("highest", ofGlobal, v)
<1>1. /\ pc = "recording" /\ pc' = "idle"
      /\ UNCHANGED <<uses, off, peak, best, reported, upset, log, past, ofGuards>>
      /\ news' = (news \/ counted \/ ~(shown \subseteq memory[<<"profile", 0>>]))
      /\ memory' = [memory EXCEPT ![<<"profile", 0>>] = @ \union shown,
                                  ![<<"global", 0>>] = IF \E v \in most : Counts("highest", @, v)
                                                       THEN most ELSE @]
  BY DEF StopRecord, ofHeap, ofGlobal
<1>2. shown = {}
  <2>1. "profile" \notin uses
    BY DEF Exact
  <2> QED
    BY <2>1 DEF Late, On
<1>3. SoFar /\ (\A b \in uses \intersect Reporters : SensorInv(b)) /\ MemoryInv
  BY <1>1 DEF StoryInv, BaseInv, ToldInv
<1>4. ASSUME NEW b \in uses \intersect Reporters
      PROVE  SensorInv(b)' /\ (Documented(b)' <=> Documented(b))
  <2>1. b # "profile" /\ b # "global"
    BY ReporterNames
  <2>2. \A s \in Sensor : s[1] = b => s # <<"profile", 0>> /\ s # <<"global", 0>>
    BY <2>1
  <2>3. \A s \in Sensor : s[1] = b => memory'[s] = memory[s]
    BY <1>1, <1>3, <2>2 DEF MemoryInv
  <2>4. Unnoticed(b)
    BY <1>1, <2>3 DEF Unnoticed, ofGuards
  <2> QED
    BY <1>3, <2>4, NothingNoticed
<1>5. ASSUME ~upset'
      PROVE  news' <=> (\E b \in uses' : Documented(b)') \/ Owed'
  <2>1. counted <=> (Documented("global")' /\ "global" \in uses) \/ Owed'
    <3>1. ~upset /\ (On("global") => "global" \in uses) /\ On("global")' = On("global")
      BY <1>1, <1>5 DEF On
    <3>2. CASE On("global")
      <4>1. /\ tracker.max = Max2(peak, best) /\ ofGlobal = {reported} /\ most = {tracker.max}
            /\ {peak, best, reported} \subseteq Nat /\ reported <= best
        BY <1>1, <3>1, <3>2 DEF GlobalInv, Late, BaseInv, AllocInv
      <4>2. counted <=> Max2(peak, best) > reported
        BY <4>1 DEF Counts
      <4>3. Max2(peak, best) > reported <=> peak > best \/ best > reported
        BY <4>1 DEF Max2
      <4> QED
        BY <1>1, <3>1, <3>2, <4>2, <4>3, GlobalDocumented
    <3>3. CASE ~On("global")
      BY <3>1, <3>3, GlobalDocumented DEF Late
    <3> QED
      BY <3>2, <3>3
  <2>2. news' <=> news \/ counted
    BY <1>1, <1>2
  <2>3. news <=> \E b \in uses \intersect Reporters : Documented(b)'
    BY <1>3, <1>4 DEF SoFar
  <2>4. uses = (uses \intersect Reporters) \union (uses \intersect {"global"})
    BY DEF Reporters
  <2> HIDE DEF counted
  <2> QED
    BY <1>1, <2>1, <2>2, <2>3, <2>4
<1>6. NewsAsDocumented'
  BY <1>5 DEF NewsAsDocumented
<1> QED
  BY <1>1, <1>4, <1>6 DEF StoryInv

(* Between two cycles the target and the engine use memory, unheard. *)
LEMMA IdleStory ==
    ASSUME StoryInv, pc = "idle", UNCHANGED <<pc, uses, off, memory, news, ofGuards, log, past, cycles>>,
           UNCHANGED <<peak, best, reported, upset>>
    PROVE  StoryInv'
<1> SUFFICES ASSUME uses \subseteq Exact
             PROVE  StoryInv'
  BY DEF StoryInv
<1>1. (\A b \in uses \intersect Reporters : SensorInv(b)) /\ NewsAsDocumented
  BY DEF StoryInv
<1>2. \A b \in uses \intersect Reporters : Unnoticed(b)
  BY DEF Unnoticed, ofGuards
<1>3. \A b \in uses \intersect Reporters : SensorInv(b)' /\ (Documented(b)' <=> Documented(b))
  BY <1>1, <1>2, NothingNoticed
<1>4. (Documented("global")' <=> Documented("global")) /\ (Owed' <=> Owed)
  BY GlobalDocumented DEF On
<1>5. \A b \in uses : Documented(b)' <=> Documented(b)
  BY <1>3, <1>4 DEF Reporters
<1>6. NewsAsDocumented'
  <2>1. NewsAsDocumented <=> (cycles > 0 /\ ~upset => (news <=> (\E b \in uses : Documented(b)) \/ Owed))
    BY DEF NewsAsDocumented
  <2>2. NewsAsDocumented' <=> (cycles' > 0 /\ ~upset' => (news' <=> (\E b \in uses' : Documented(b)') \/ Owed'))
    BY DEF NewsAsDocumented
  <2> QED
    BY <1>1, <1>4, <1>5, <2>1, <2>2
<1> QED
  BY <1>3, <1>6 DEF StoryInv

LEMMA StartStory ==
    ASSUME BaseInv, StoryInv, uses \subseteq Exact, StartRecord
    PROVE  StoryInv'
<1>1. pc' = "recording" /\ uses' = uses /\ news' = FALSE
  BY DEF StartRecord
<1>2. \A b \in uses \intersect Reporters : SensorInv(b)' /\ ~Documented(b)' /\ past'[b] # {}
  BY StartsAnew DEF StoryInv
<1>3. SoFar' /\ NewsAsDocumented'
  BY <1>1, <1>2 DEF SoFar, NewsAsDocumented
<1> QED
  BY <1>1, <1>2, <1>3 DEF StoryInv

LEMMA InitStory == Init => StoryInv /\ GlobalInv
<1> SUFFICES ASSUME Init
             PROVE  StoryInv /\ GlobalInv
  OBVIOUS
<1>1. \A s \in Sensor : memory[s] = InitialMemory(TypeOf(s[1]))
  BY DEF Init
<1>2. /\ \A b \in uses : past[b] = {} /\ log[b] = <<>>
      /\ val = 0 /\ intensity = [p \in PC |-> 0] /\ pc = "idle" /\ cycles = 0
      /\ stack["depth"] = [record |-> 0, base |-> 0] /\ flow.traces = {} /\ flow.callers = ClearCallers
      /\ flow.index = 0
  BY DEF Init, ClearCallers
<1>3. \A b : Told(Also({}, <<>>)) = {} /\ Windows(Also({}, <<>>)) = {}
  BY DEF Told, Windows, Also
<1>4. \A p : Times(<<>>, p) = 0
  <2>1. \A p : {i \in DOMAIN <<>> : <<>>[i].pc = p} = {}
    OBVIOUS
  <2> QED
    BY <2>1, FS_EmptySet DEF Times
<1>5. ASSUME NEW b \in uses \intersect Reporters
      PROVE  SensorInv(b)
  <2>1. /\ b \notin AutoBuiltin => memory[<<b, 0>>] = InitialMemory(TypeOf(b))
        /\ b \in AutoBuiltin => \A p \in PC : memory[<<b, p>>] = InitialMemory(TypeOf(b))
    <3>1. b \in Builtin
      BY DEF Reporters, Exact
    <3>2. /\ b \notin AutoBuiltin => <<b, 0>> \in Sensor
          /\ b \in AutoBuiltin => \A p \in PC : <<b, p>> \in Sensor
      BY <3>1, SensorNames
    <3> QED
      BY <1>1, <3>2
  <2>2. All(b) = {} /\ past[b] = {} /\ log[b] = <<>>
    BY <1>2, <1>3 DEF All
  <2>3. CASE b = "coverage"
    BY <2>1, <2>2, <2>3 DEF SensorInv, CoverageInv, InitialMemory, TypeOf, AutoBuiltin
  <2>4. CASE b = "depth"
    BY <1>2, <2>1, <2>2, <2>4 DEF SensorInv, DepthInv, InitialMemory, TypeOf, AutoBuiltin
  <2>5. CASE b = "single"
    BY <2>1, <2>2, <2>5 DEF SensorInv, SingleInv, SizesAt, Matches, InitialMemory, TypeOf, AutoBuiltin
  <2>6. CASE b = "cmp"
    BY <2>1, <2>2, <2>6 DEF SensorInv, CmpInv, DifferencesAt, Matches, InitialMemory, TypeOf, AutoBuiltin
  <2>7. CASE b = "intensity"
    <3>1. IntensityInv
      BY <1>2, <2>1, <2>2, <2>7 DEF IntensityInv, Lengths, Also, Matches, InitialMemory, TypeOf, AutoBuiltin
    <3> QED
      BY <2>7, <3>1 DEF SensorInv
  <2>8. CASE b = "auto"
    <3>1. AutoInv
      BY <1>2, <1>4, <2>1, <2>2, <2>8 DEF AutoInv, TimesAt, Also, Matches, InitialMemory, TypeOf, AutoBuiltin
    <3> QED
      BY <2>8, <3>1 DEF SensorInv
  <2>9. CASE b = "flow"
    <3>1. memory[<<"flow", 0>>] = {Cardinality(flow.traces)}
      BY <1>2, <2>1, <2>9, FS_EmptySet DEF InitialMemory, TypeOf, AutoBuiltin
    <3>2. Latest(ClearCallers, 0) = Window(<<>>, Len(<<>>))
      <4>1. Len(<<>>) = 0 /\ TrackSize \in Nat /\ TrackSize > 0
        BY InstrumentationAssumption
      <4>2. \A i \in 0..(TrackSize - 1) : (0 + TrackSize - i) % TrackSize \in 0..(TrackSize - 1)
        BY <4>1
      <4>3. \A i \in 0..(TrackSize - 1) : ClearCallers[(0 + TrackSize - i) % TrackSize] = 0
        BY <4>2 DEF ClearCallers
      <4>4. \A i \in 0..(TrackSize - 1) : ~(0 > i)
        BY <4>1
      <4> QED
        BY <4>1, <4>3, <4>4 DEF Latest, Window
    <3>3. FlowInv
      BY <1>2, <1>3, <2>2, <2>9, <3>1, <3>2 DEF FlowInv
    <3> QED
      BY <2>9, <3>3 DEF SensorInv
  <2> QED
    BY <2>3, <2>4, <2>5, <2>6, <2>7, <2>8, <2>9, ReporterNames
<1>6. NewsAsDocumented
  BY <1>2 DEF NewsAsDocumented
<1>7. GlobalInv
  <2>1. <<"global", 0>> \in Sensor /\ TypeOf("global") = "highest"
    BY SensorNames DEF Builtin, AutoBuiltin, TypeOf
  <2>2. ofGlobal = {0}
    BY <1>1, <2>1 DEF ofGlobal, InitialMemory
  <2>3. tracker.max = 0 /\ peak = 0 /\ best = 0 /\ reported = 0 /\ ~On("global")
    BY DEF Init, On, Builtin
  <2> QED
    BY <1>2, <2>2, <2>3 DEF GlobalInv, Max2
<1> QED
  BY <1>2, <1>5, <1>6, <1>7 DEF StoryInv

LEMMA CallStory ==
    ASSUME StoryInv, pc # "idle", pc' # "idle",
           UNCHANGED <<uses, past, log, memory, news, ofGuards>>
    PROVE  StoryInv'
<1> SUFFICES ASSUME uses \subseteq Exact
             PROVE  StoryInv'
  BY DEF StoryInv
<1>1. \A b \in uses \intersect Reporters : Unnoticed(b)
  BY DEF Unnoticed, ofGuards
<1> QED
  BY <1>1, UntoldStory

NewsInv == StoryInv /\ GlobalInv

LEMMA NextStory == BaseInv /\ BaseInv' /\ NewsInv /\ [Next]_vars => StoryInv'
<1> SUFFICES ASSUME BaseInv, NewsInv, [Next]_vars, uses' \subseteq Exact
             PROVE  StoryInv'
  BY DEF StoryInv
<1>0. uses' = uses /\ uses \subseteq Exact /\ StoryInv /\ GlobalInv /\ ~UsesAny({"profile"})
  <2>1. uses' = uses
    BY DEF Next, StartRecord, StopRecord, SetOff, Malloc, EngineMalloc, Realloc, Free, Guard, TraceCmp, TraceDiv,
           TraceSwitch, HandleCmp, TraceIndir, HookMemcmp, ProfileOnly, Return, Over, vars
  <2> QED
    BY <2>1 DEF UsesAny, Exact, NewsInv
<1>1. CASE StartRecord
  BY <1>0, <1>1, StartStory
<1>2. CASE StopRecord
  BY <1>0, <1>2, StopStory
<1>3. ASSUME NEW b \in Builtin, SetOff(b)
      PROVE  StoryInv'
  <2>1. log' = log
    BY <1>3 DEF SetOff, Event, None, BaseInv, ToldInv, LogInv
  <2>2. pc # "idle" /\ pc' # "idle" /\ UNCHANGED <<uses, past, memory, news, ofGuards>>
    BY <1>3 DEF SetOff
  <2> QED
    BY <1>0, <2>1, <2>2, CallStory
<1>4. ASSUME NEW p \in PC, NEW a \in Address, NEW size \in Sizes, Malloc(p, a, size) \/ EngineMalloc(p, a, size)
      PROVE  StoryInv'
  <2>1. size \in Nat
    BY InstrumentationAssumption
  <2>2. CASE pc # "idle"
    BY <1>0, <1>4, <2>1, <2>2, MallocStory
  <2>3. CASE pc = "idle"
    <3>1. EngineMalloc(p, a, size) /\ ~Hooked /\ ~Counted
      BY <1>4, <2>3 DEF Malloc, Event, Hooked, Counted
    <3>2. Deliver(None) /\ UNCHANGED <<pc, uses, off, ofGuards, log, past, cycles, peak, best, reported, upset>>
      BY <3>1 DEF EngineMalloc, HookMalloc
    <3>3. UNCHANGED <<memory, news>>
      BY <3>2, DeliverNothing DEF BaseInv, ToldInv
    <3> QED
      BY <1>0, <2>3, <3>2, <3>3, IdleStory
  <2> QED
    BY <2>2, <2>3
<1>5. ASSUME NEW a \in Address, NEW b \in Address, NEW size \in Sizes, Realloc(a, b, size)
      PROVE  StoryInv'
  <2>1. log' = log
    BY <1>5 DEF Realloc, Event, None, BaseInv, ToldInv, LogInv
  <2>2. pc # "idle" /\ pc' # "idle" /\ UNCHANGED <<uses, past, memory, news, ofGuards>>
    BY <1>5 DEF Realloc, Event
  <2> QED
    BY <1>0, <2>1, <2>2, CallStory
<1>6. ASSUME NEW a \in Address, Free(a)
      PROVE  StoryInv'
  <2>1. /\ UNCHANGED <<pc, uses, off, memory, news, peak, best, reported, ofGuards, log, past, cycles>>
        /\ Lose(IF Counted THEN lost \ {a}
                ELSE IF pc # "idle" /\ heap[a].known THEN lost \union {a} ELSE lost)
    BY <1>6 DEF Free, bounds
  <2>2. CASE pc = "idle"
    <3>1. upset' = upset
      BY <2>1, <2>2 DEF Counted, Lose, BaseInv, IInv, FlagInv
    <3> QED
      BY <1>0, <2>1, <2>2, <3>1, IdleStory
  <2>3. CASE pc # "idle"
    BY <1>0, <2>1, <2>3, CallStory
  <2> QED
    BY <2>2, <2>3
<1>7. ASSUME NEW g \in Guards, Guard(g)
      PROVE  StoryInv'
  BY <1>0, <1>7, GuardStory
<1>8. ASSUME NEW c \in Compares, TraceCmp(c) \/ TraceDiv(c)
      PROVE  StoryInv'
  <2>1. HandleCmp(c) /\ pc' # "idle"
    BY <1>8 DEF TraceCmp, TraceDiv
  <2>2. c \in [pc : PC, a : Nat, b : Nat]
    BY InstrumentationAssumption DEF Arg
  <2> QED
    BY <1>0, <2>1, <2>2, CmpStory
<1>9. ASSUME NEW s \in Switches, TraceSwitch(s)
      PROVE  StoryInv'
  <2>1. PICK c \in [pc : PC, a : Nat, b : Nat] : HandleCmp(c)
    BY <1>9, SwitchCompares
  <2>2. pc' # "idle"
    BY <1>9 DEF TraceSwitch
  <2> QED
    BY <1>0, <2>1, <2>2, CmpStory
<1>10. CASE Return
  <2>1. pc # "idle" /\ pc' # "idle" /\ UNCHANGED <<uses, past, log, memory, news, ofGuards>>
    BY <1>10 DEF Return, Leave
  <2> QED
    BY <1>0, <2>1, CallStory
<1>11. CASE UNCHANGED vars
  <2>1. UNCHANGED <<pc, uses, off, memory, news, ofGuards, log, past, peak, best, reported, cycles, upset>>
    BY <1>11 DEF vars, ofHeap, bounds
  <2>2. CASE pc = "idle"
    BY <1>0, <2>1, <2>2, IdleStory
  <2>3. CASE pc # "idle"
    BY <1>0, <2>1, <2>3, CallStory
  <2> QED
    BY <2>2, <2>3
<1> QED
  BY <1>0, <1>1, <1>2, <1>3, <1>4, <1>5, <1>6, <1>7, <1>8, <1>9, <1>10, <1>11 DEF Next, Over

LEMMA NextGlobal == BaseInv /\ BaseInv' /\ NewsInv /\ [Next]_vars => GlobalInv'
<1> SUFFICES ASSUME BaseInv, BaseInv', GlobalInv, [Next]_vars
             PROVE  GlobalInv'
  BY DEF NewsInv
<1>0. MemoryInv /\ tracker.cur \in Nat /\ tracker'.cur \in Nat /\ tracker.cur = Total(tracker.map)
  BY TotalType DEF BaseInv, ToldInv, AllocInv
<1>1. CASE StartRecord
  BY <1>1, GlobalStart
<1>2. CASE StopRecord
  BY <1>2, GlobalStop
<1>3. ASSUME NEW p \in PC, NEW a \in Address, NEW size \in Sizes, Malloc(p, a, size) \/ EngineMalloc(p, a, size)
      PROVE  GlobalInv'
  <2>1. size \in Nat
    BY InstrumentationAssumption
  <2> QED
    BY <1>3, <2>1, GlobalMalloc DEF Malloc, EngineMalloc
<1>4. ASSUME NEW a \in Address, Free(a)
      PROVE  GlobalInv'
  <2>1. UNCHANGED <<pc, uses, off, memory, peak, best, reported>> /\ (tracker' = tracker \/ tracker' = AddFree(a))
    BY <1>4 DEF Free
  <2>2. upset => upset'
    <3>1. PICK places : Lose(places)
      BY <1>4 DEF Free
    <3> QED
      BY <3>1 DEF Lose
  <2>3. tracker'.max = tracker.max /\ tracker'.cur <= tracker.cur
    <3>1. CASE tracker' = tracker
      BY <1>0, <3>1
    <3>2. CASE tracker' = AddFree(a) /\ a \in DOMAIN tracker.map
      <4>1. DOMAIN tracker = {"map", "cur", "max"} /\ tracker.map[a] \in Nat
        BY <3>2 DEF BaseInv, IInv, HeapInv, AllocInv, Numbers
      <4>2. tracker' = [tracker EXCEPT !.map = Without(@, a), !.cur = @ - tracker.map[a]]
        BY <3>2 DEF AddFree
      <4>3. tracker'.max = tracker.max /\ tracker'.cur = tracker.cur - tracker.map[a]
        BY <4>1, <4>2
      <4> QED
        BY <1>0, <4>1, <4>3
    <3>3. CASE tracker' = AddFree(a) /\ a \notin DOMAIN tracker.map
      BY <1>0, <3>3 DEF AddFree
    <3> QED
      BY <2>1, <3>1, <3>2, <3>3
  <2> QED
    BY <2>1, <2>2, <2>3, GlobalQuiet DEF ofGlobal
<1>5. ASSUME UNCHANGED <<uses, peak, best, reported, tracker>>, upset => upset', pc = "idle" <=> pc' = "idle",
             pc = "idle" => off' = off, ofGlobal' = ofGlobal
      PROVE  GlobalInv'
  BY <1>0, <1>5, GlobalQuiet
<1>6. ASSUME NEW b \in Builtin, SetOff(b)
      PROVE  GlobalInv'
  <2>1. pc' = pc /\ pc # "idle" /\ UNCHANGED <<uses, peak, best, reported, tracker, upset, memory>>
    BY <1>6 DEF SetOff, ofHeap
  <2> QED
    BY <1>5, <2>1 DEF ofGlobal
<1>7. ASSUME NEW a \in Address, NEW b \in Address, NEW size \in Sizes, Realloc(a, b, size)
      PROVE  GlobalInv'
  <2>1. pc' = pc /\ pc # "idle" /\ UNCHANGED <<uses, peak, best, reported, tracker, memory>>
    BY <1>7 DEF Realloc, Event
  <2>2. upset => upset'
    BY <1>7 DEF Realloc, Lose
  <2> QED
    BY <1>5, <2>1, <2>2 DEF ofGlobal
<1>8. ASSUME NEW g \in Guards, Guard(g)
      PROVE  GlobalInv'
  <2>1. pc = "recording" /\ pc' = "flagged" /\ UNCHANGED <<uses, peak, best, reported, tracker, upset>>
    BY <1>8 DEF Guard, Event, ofHeap
  <2>2. Deliver(GuardIn(g)) /\ DOMAIN GuardIn(g) = GuardHears(g)
    BY <1>8, GuardDelivers DEF GuardIn
  <2>3. \A s \in GuardHears(g) : s[1] # "global"
    <3>1. DOMAIN stack = {"depth", "unique"}
      BY DEF BaseInv, ToldInv, GuardInv
    <3>2. \A p : <<"auto", p>>[1] = "auto"
      OBVIOUS
    <3> QED
      BY <3>1, <3>2 DEF GuardHears
  <2>4. ofGlobal' = ofGlobal
    BY <1>0, <2>2, <2>3, GlobalUntold
  <2> QED
    BY <1>5, <2>1, <2>4
<1>9. ASSUME NEW c, HandleCmp(c), pc' # "idle"
      PROVE  GlobalInv'
  <2> DEFINE in == IF On("cmp") THEN [s \in {<<"cmp", c.pc>>} |-> Difference(c)] ELSE None
  <2>1. pc = "recording" /\ UNCHANGED <<uses, peak, best, reported, tracker, upset>> /\ Deliver(in)
    BY <1>9 DEF HandleCmp, Event, ofHeap
  <2>2. \A s \in DOMAIN in : s[1] # "global"
    BY DEF None
  <2> HIDE DEF in
  <2>3. ofGlobal' = ofGlobal
    BY <1>0, <2>1, <2>2, GlobalUntold
  <2> QED
    BY <1>5, <1>9, <2>1, <2>3
<1>10. ASSUME NEW c, TraceCmp(c) \/ TraceDiv(c)
       PROVE  GlobalInv'
  BY <1>9, <1>10 DEF TraceCmp, TraceDiv
<1>11. ASSUME NEW s \in Switches, TraceSwitch(s)
       PROVE  GlobalInv'
  <2>1. PICK c \in [pc : PC, a : Nat, b : Nat] : HandleCmp(c)
    BY <1>11, SwitchCompares
  <2>2. pc' # "idle"
    BY <1>11 DEF TraceSwitch
  <2> QED
    BY <1>9, <2>1, <2>2
<1>12. ASSUME NEW seen, ProfileOnly(seen)
       PROVE  GlobalInv'
  <2>1. pc = "recording" /\ pc' = "plain" /\ UNCHANGED <<uses, peak, best, reported, tracker, upset, memory>>
    BY <1>12 DEF ProfileOnly, Event, ofHeap
  <2> QED
    BY <1>5, <2>1 DEF ofGlobal
<1>13. ASSUME NEW call, TraceIndir(call)
       PROVE  GlobalInv'
  BY <1>12, <1>13 DEF TraceIndir
<1>14. ASSUME NEW m, HookMemcmp(m)
       PROVE  GlobalInv'
  BY <1>12, <1>14 DEF HookMemcmp
<1>15. CASE Return
  <2>1. pc # "idle" /\ pc' # "idle" /\ UNCHANGED <<uses, peak, best, reported, tracker, upset, memory>>
    BY <1>15 DEF Return, Leave, ofHeap
  <2> QED
    BY <1>5, <2>1 DEF ofGlobal
<1>16. CASE UNCHANGED vars
  <2>1. UNCHANGED <<pc, off, uses, peak, best, reported, tracker, upset, memory>>
    BY <1>16 DEF vars, ofHeap
  <2> QED
    BY <1>5, <2>1 DEF ofGlobal
<1> QED
  BY <1>1, <1>2, <1>3, <1>4, <1>6, <1>7, <1>8, <1>10, <1>11, <1>13, <1>14, <1>15, <1>16 DEF Next, Over

(* StopRecord() returns true exactly if the README's condition holds for a  *)
(* sensor of the target, or a peak of an earlier cycle is owed: for any    *)
(* addresses and sizes, any code, any length of the flow trace, sensors    *)
(* turned off and on at any time; the memory of a target that reallocates, *)
(* or frees what the tracker does not hear of, is left out.                *)
THEOREM NewsHolds == Spec => []NewsAsDocumented
<1>1. Init => NewsInv
  BY InitStory DEF NewsInv
<1>2. BaseInv /\ BaseInv' /\ NewsInv /\ [Next]_vars => NewsInv'
  BY NextStory, NextGlobal DEF NewsInv
<1>3. NewsInv => NewsAsDocumented
  <2>1. ~(uses \subseteq Exact) => NewsAsDocumented
    BY DEF NewsAsDocumented
  <2> QED
    BY <2>1 DEF NewsInv, StoryInv
<1> QED
  BY <1>1, <1>2, <1>3, BaseInvariant, PTL DEF Spec
-----------------------------------------------------------------------------
(* Whoever allocates and frees, and whenever sensors are turned off and on: *)
(* the tracker holds the live blocks it should know, and leftovers just    *)
(* where a block was reallocated or freed unheard.                         *)
THEOREM TrackedHolds == Spec => []TrackedIsLive
<1>1. IInv => TrackedIsLive
  BY DEF IInv, HeapInv, TrackedIsLive, Holds, Known
<1> QED BY <1>1, InitIInv, NextIInv, PTL DEF Spec
=============================================================================
