------------------------- MODULE MemoryManager_proofs -------------------------
(***************************************************************************)
(* Proofs about the device memory manager: the four invariants of          *)
(* MemoryManager, for any granularity, address range, sizes and amount of  *)
(* physical memory.                                                        *)
(***************************************************************************)
EXTENDS MemoryManager, FiniteSetTheorems, TLAPS

-----------------------------------------------------------------------------
(* The inductive invariant                                                 *)

Segment == [size : 1..RangeLen, proxy : Nat, phys : 1..NPhys, access : BOOLEAN]
UserHandle == [size : HandleSizes, phys : 1..NPhys]
Phases == {"running", "dumped", "fresh", "restored", "dumpFailed", "restoreFailed"}

(* The physical objects of a state of the manager.                         *)
PhysOf(a, h) == {a[p].phys : p \in DOMAIN a} \cup {h[x].phys : x \in DOMAIN h}

(* No two handles are the same memory, and nobody else has the memory of   *)
(* an owned segment.                                                       *)
Distinct(a, h) ==
  /\ \A x, y \in DOMAIN h : h[x].phys = h[y].phys => x = y
  /\ \A p \in DOMAIN a : a[p].proxy = Owned =>
       /\ \A x \in DOMAIN h : h[x].phys # a[p].phys
       /\ \A q \in DOMAIN a : a[q].phys = a[p].phys => q = p

(* A state of the manager and the GPU: the next address n, the segments a, *)
(* all below it, the user handles h and the content c.                     *)
Store(n, a, h, c) ==
  /\ n \in 0..RangeLen
  /\ DOMAIN a \subseteq 0..(n - 1) /\ \A p \in DOMAIN a : a[p] \in Segment
  /\ DOMAIN h \subseteq 1..MaxProxy /\ \A x \in DOMAIN h : h[x] \in UserHandle
  /\ DOMAIN c = PhysOf(a, h) /\ \A ph \in DOMAIN c : c[ph] \in Values \cup {Junk}
  /\ Distinct(a, h)

(* Every borrowed segment's proxy names the memory that is mapped.         *)
Backed(a, h) ==
  \A p \in DOMAIN a : a[p].proxy # Owned =>
    a[p].proxy \in DOMAIN h /\ h[a[p].proxy].phys = a[p].phys

(* What the client was given lies below n, rounded up as it was reserved.  *)
Below(n) == \A r \in reserved : r[1] + RoundUp(r[2]) <= n

(* Reservations are of sizes a client asks for, and overlap nowhere.       *)
ReservedOK ==
  /\ reserved \subseteq (0..RangeLen) \X AllocSizes
  /\ \A r, s \in reserved : r # s => Interval(r[1], r[2]) \cap Interval(s[1], s[2]) = {}

(* The image is that of the saved state: its metadata, and under the key   *)
(* of each segment what was to be read there.                              *)
Imaged ==
  LET a == saved.allocations
      h == saved.userHandles
  IN  /\ Store(saved.next, a, h, saved.content)
      /\ ~orphaned => Backed(a, h)
      /\ Below(saved.next)
      /\ image.meta.next = saved.next
      /\ image.meta.segments =
           [p \in DOMAIN a |-> [size |-> a[p].size, proxy |-> a[p].proxy]]
      /\ image.meta.handles = [x \in DOMAIN h |-> h[x].size]
      /\ \A p \in DOMAIN a :
           image.data[DataKey(image.where, image.meta.segments, p)]
             = saved.content[a[p].phys]

MemoryInv ==
  /\ Store(next, allocations, userHandles, content)
  /\ phase \in Phases /\ orphaned \in BOOLEAN
  /\ ReservedOK
  /\ Running => Below(next)
  /\ ~orphaned => Backed(allocations, userHandles)
  /\ phase \in {"dumped", "fresh"} => Imaged
  /\ phase = "fresh" => DOMAIN allocations = {}
  /\ RestoreFaithful

-----------------------------------------------------------------------------
(* Constants, numbers and sets                                             *)

(* What the assumption says of each constant.                              *)
LEMMA Constants ==
  /\ Granularity \in Nat \ {0} /\ RangeLen \in Nat /\ NPhys \in Nat /\ MaxProxy \in Nat
  /\ AllocSizes \subseteq Nat \ {0} /\ HandleSizes \subseteq Nat \ {0}
BY MemoryAssumption

(* Rounding up gives a natural number that is no smaller.                  *)
LEMMA RoundUpFacts ==
  ASSUME NEW size \in Nat \ {0}
  PROVE  RoundUp(size) \in Nat \ {0} /\ size <= RoundUp(size)
<1> DEFINE g == Granularity
           q == (size + g - 1) \div g
           r == (size + g - 1) % g
<1>1. g \in Nat \ {0}
  BY Constants
<1>2. size + g - 1 \in Nat
  BY <1>1
<1>3. q \in Nat /\ r \in 0..(g - 1)
  BY <1>1, <1>2
<1>4. size + g - 1 = g * q + r
  BY <1>1, <1>2
<1>5. RoundUp(size) = g * q
  BY <1>1, <1>3 DEF RoundUp
<1>6. g * q \in Nat
  BY <1>1, <1>3
<1> DEFINE m == g * q
<1> HIDE DEF g, q, r, m
<1>7. m = RoundUp(size) /\ m \in Nat /\ size + g - 1 = m + r
  BY <1>4, <1>5, <1>6 DEF m
<1> QED BY <1>1, <1>3, <1>7

(* A set of natural numbers has a smallest element.                        *)
LEMMA Smallest ==
  ASSUME NEW S, S \subseteq Nat, S # {}
  PROVE  Min(S) \in S /\ \A y \in S : Min(S) <= y
<1>1. PICK x \in S : \A y \in S : ~(<<y, x>> \in OpToRel(<, Nat))
  BY NatLessThanWellFounded, WFMin, Zenon
<1>2. \A y \in S : ~(y < x)
  BY <1>1 DEF OpToRel
<1>3. \A y \in S : x <= y
  BY <1>2
<1> QED BY <1>3 DEF Min

(* A bounded one has a largest.                                            *)
LEMMA Largest ==
  ASSUME NEW m \in Nat, NEW S, S \subseteq 0..m, S # {}
  PROVE  Max(S) \in S /\ \A y \in S : Max(S) >= y
<1> DEFINE T == {m - i : i \in S}
<1>1. T \subseteq Nat /\ T # {}
  <2>1. \A i \in S : m - i \in Nat
    OBVIOUS
  <2> QED BY <2>1
<1>2. Min(T) \in T /\ \A y \in T : Min(T) <= y
  BY <1>1, Smallest
<1>3. PICK i \in S : Min(T) = m - i
  BY <1>2
<1>4. ASSUME NEW j \in S PROVE i >= j
  <2>1. m - i <= m - j
    BY <1>2, <1>3
  <2>2. i \in Nat /\ j \in Nat
    OBVIOUS
  <2> QED BY <2>1, <2>2
<1> QED BY <1>4 DEF Max

(* The numbers that a restore gives to physical objects: different ones to *)
(* different elements, from 1 on.                                          *)
LEMMA RankFacts ==
  ASSUME NEW S, IsFiniteSet(S), S \subseteq Nat
  PROVE  /\ Cardinality(S) \in Nat
         /\ \A x \in S : Rank(S, x) \in 1..Cardinality(S)
         /\ \A x, y \in S : Rank(S, x) = Rank(S, y) => x = y
<1> DEFINE B(x) == {y \in S : y <= x}
<1>1. Cardinality(S) \in Nat
  BY FS_CardinalityType
<1>2. ASSUME NEW x \in S
      PROVE  /\ IsFiniteSet(B(x)) /\ Cardinality(B(x)) \in Nat
             /\ Cardinality(B(x)) <= Cardinality(S) /\ Cardinality(B(x)) # 0
             /\ Rank(S, x) = Cardinality(B(x))
  <2>1. B(x) \in SUBSET S
    OBVIOUS
  <2>2. IsFiniteSet(B(x)) /\ Cardinality(B(x)) <= Cardinality(S)
    BY <2>1, FS_Subset
  <2>3. x \in B(x)
    OBVIOUS
  <2>4. Cardinality(B(x)) \in Nat /\ Cardinality(B(x)) # 0
    BY <2>2, <2>3, FS_CardinalityType, FS_EmptySet
  <2> QED BY <2>2, <2>4 DEF Rank
<1>3. ASSUME NEW x \in S, NEW y \in S, x < y
      PROVE  Rank(S, x) # Rank(S, y)
  <2>1. B(x) \in SUBSET B(y)
    <3>1. \A z \in S : z <= x => z <= y
      BY <1>3
    <3> QED BY <3>1
  <2>2. y \in B(y) /\ y \notin B(x)
    BY <1>3
  <2>3. Cardinality(B(y)) = Cardinality(B(x)) => B(y) = B(x)
    BY <1>2, <2>1, FS_Subset
  <2> QED BY <1>2, <2>2, <2>3
<1>4. \A x \in S : Rank(S, x) \in 1..Cardinality(S)
  <2> SUFFICES ASSUME NEW x \in S PROVE Rank(S, x) \in 1..Cardinality(S)
    OBVIOUS
  <2>1. /\ Cardinality(B(x)) \in Nat
        /\ Cardinality(B(x)) <= Cardinality(S) /\ Cardinality(B(x)) # 0
        /\ Rank(S, x) = Cardinality(B(x))
    BY <1>2
  <2> HIDE DEF B
  <2> QED BY <1>1, <2>1
<1>5. \A x, y \in S : Rank(S, x) = Rank(S, y) => x = y
  <2> SUFFICES ASSUME NEW x \in S, NEW y \in S, Rank(S, x) = Rank(S, y)
               PROVE  x = y
    OBVIOUS
  <2>1. x < y \/ y < x \/ x = y
    OBVIOUS
  <2> QED BY <1>3, <2>1
<1> QED BY <1>1, <1>4, <1>5

(* f numbers the elements of S differently, from 1 to n, with the numbers T. *)
Numbering(f, S, n, T) ==
  /\ f \in [S -> 1..n]
  /\ \A x, y \in S : f[x] = f[y] => x = y
  /\ T = {f[x] : x \in S}

(* A set that can be numbered is no larger than the set of its numbers.    *)
LEMMA Numbered ==
  ASSUME NEW S, NEW n \in Nat, NEW f, NEW T, Numbering(f, S, n, T)
  PROVE  /\ IsFiniteSet(S) /\ IsFiniteSet(T) /\ T \subseteq 1..n
         /\ Cardinality(S) \in Nat /\ Cardinality(T) = Cardinality(S)
<1>1. T \in SUBSET (1..n)
  BY DEF Numbering
<1>2. IsFiniteSet(T)
  <2>1. IsFiniteSet(1..n)
    BY FS_Interval
  <2> QED BY <1>1, <2>1, FS_Subset
<1>3. f \in Injection(S, T) /\ f \in Surjection(S, T)
  BY DEF Numbering, Injection, IsInjective, Surjection
<1>4. IsFiniteSet(S) /\ (Cardinality(S) = Cardinality(T) <=> f \in Surjection(S, T))
  BY <1>2, <1>3, FS_Injection
<1> QED BY <1>1, <1>2, <1>3, <1>4, FS_CardinalityType

-----------------------------------------------------------------------------
(* The offsets in a detach snapshot                                        *)

(* The sizes of the segments, 0 where none begins, and their running sum.  *)
SizeAt(segments) ==
  [i \in 0..RangeLen |-> IF i \in DOMAIN segments THEN segments[i].size ELSE 0]

Sums(g, w, n) ==
  /\ g \in [0..n -> Nat] /\ g[0] = 0
  /\ \A i \in 1..n : g[i] = g[i - 1] + w[i - 1]

(* There is such a sum, for any sizes.  By induction on the address: a     *)
(* smallest address without one would have one.                            *)
LEMMA SumExists ==
  ASSUME NEW w \in [0..RangeLen -> Nat]
  PROVE  \E g : Sums(g, w, RangeLen)
<1> DEFINE T == {n \in 0..RangeLen : ~\E g : Sums(g, w, n)}
<1>0. RangeLen \in Nat
  BY Constants
<1> SUFFICES ASSUME T # {} PROVE FALSE
  BY <1>0
<1>1. Min(T) \in T /\ \A y \in T : Min(T) <= y
  <2>1. T \subseteq Nat
    OBVIOUS
  <2> QED BY <2>1, Smallest
<1> DEFINE m == Min(T)
<1>2. m \in 0..RangeLen /\ ~\E g : Sums(g, w, m)
  BY <1>1
<1>3. \A n \in 0..RangeLen : n < m => \E g : Sums(g, w, n)
  <2> SUFFICES ASSUME NEW n \in 0..RangeLen, n < m, ~\E g : Sums(g, w, n)
               PROVE  FALSE
    OBVIOUS
  <2>1. n \in T
    OBVIOUS
  <2>2. m <= n
    BY <1>1, <2>1
  <2> HIDE DEF m
  <2> QED BY <1>2, <2>2
<1> HIDE DEF m, T
<1>4. m # 0
  <2>1. Sums([i \in 0..0 |-> 0], w, 0)
    BY DEF Sums
  <2> QED BY <1>2, <2>1
<1>5. m \in Nat /\ m - 1 \in 0..RangeLen /\ m - 1 < m /\ m - 1 \in Nat
  BY <1>0, <1>2, <1>4
<1>6. PICK g : Sums(g, w, m - 1)
  BY <1>3, <1>5
<1> DEFINE g2 == [i \in 0..m |-> IF i < m THEN g[i] ELSE g[m - 1] + w[m - 1]]
<1>7. /\ g \in [0..(m - 1) -> Nat] /\ g[0] = 0
      /\ \A i \in 1..(m - 1) : g[i] = g[i - 1] + w[i - 1]
  BY <1>6 DEF Sums
<1>8. g2 \in [0..m -> Nat]
  <2>1. w[m - 1] \in Nat /\ g[m - 1] \in Nat
    BY <1>5, <1>7
  <2>2. \A i \in 0..m : i < m => g[i] \in Nat
    BY <1>5, <1>7
  <2> QED BY <2>1, <2>2
<1>9. g2[0] = 0
  BY <1>4, <1>5, <1>7
<1>10. ASSUME NEW i \in 1..m PROVE g2[i] = g2[i - 1] + w[i - 1]
  <2>1. i - 1 \in 0..m /\ i \in 0..m /\ i - 1 < m
    BY <1>5
  <2>2. g2[i - 1] = g[i - 1]
    BY <2>1
  <2>3. CASE i < m
    <3>1. i \in 1..(m - 1)
      BY <1>5, <2>3
    <3>2. g2[i] = g[i]
      BY <2>1, <2>3
    <3> QED BY <1>7, <2>2, <3>1, <3>2
  <2>4. CASE i = m
    <3>1. g2[i] = g[m - 1] + w[m - 1]
      BY <1>5, <2>1, <2>4
    <3> QED BY <2>2, <2>4, <3>1
  <2>5. i < m \/ i = m
    BY <1>5
  <2> QED BY <2>3, <2>4, <2>5
<1> HIDE DEF g2
<1>11. Sums(g2, w, m)
  BY <1>8, <1>9, <1>10 DEF Sums
<1> QED BY <1>2, <1>11

(* A running sum does not fall.                                            *)
LEMMA SumGrows ==
  ASSUME NEW w \in [0..RangeLen -> Nat], NEW g, Sums(g, w, RangeLen)
  PROVE  \A i, j \in 0..RangeLen : i <= j => g[i] <= g[j]
<1> DEFINE T == {j \in 0..RangeLen : \E i \in 0..RangeLen : i <= j /\ ~(g[i] <= g[j])}
<1>0. RangeLen \in Nat
  BY Constants
<1> SUFFICES ASSUME T # {} PROVE FALSE
  OBVIOUS
<1>1. Min(T) \in T /\ \A y \in T : Min(T) <= y
  <2>1. T \subseteq Nat
    OBVIOUS
  <2> QED BY <2>1, Smallest
<1> DEFINE m == Min(T)
<1>2. m \in 0..RangeLen
  BY <1>1
<1>3. PICK i \in 0..RangeLen : i <= m /\ ~(g[i] <= g[m])
  BY <1>1
<1>4. \A n \in 0..RangeLen : n < m => \A k \in 0..RangeLen : k <= n => g[k] <= g[n]
  <2> SUFFICES ASSUME NEW n \in 0..RangeLen, n < m, NEW k \in 0..RangeLen, k <= n,
                      ~(g[k] <= g[n])
               PROVE  FALSE
    OBVIOUS
  <2>1. n \in T
    OBVIOUS
  <2>2. m <= n
    BY <1>1, <2>1
  <2> HIDE DEF m
  <2> QED BY <1>2, <2>2
<1> HIDE DEF m, T
<1>5. g \in [0..RangeLen -> Nat] /\ \A k \in 1..RangeLen : g[k] = g[k - 1] + w[k - 1]
  BY DEF Sums
<1>6. i # m
  BY <1>3, <1>5
<1>7. m \in 1..RangeLen /\ m - 1 \in 0..RangeLen /\ m - 1 < m /\ i <= m - 1
  BY <1>0, <1>2, <1>3, <1>6
<1>8. g[i] <= g[m - 1] /\ g[m] = g[m - 1] + w[m - 1]
  BY <1>4, <1>5, <1>7
<1>9. g[i] \in Nat /\ g[m - 1] \in Nat /\ g[m] \in Nat /\ w[m - 1] \in Nat
  BY <1>2, <1>5, <1>7
<1> QED BY <1>3, <1>8, <1>9

(* Segments, as the image has them: addresses with sizes.                  *)
SegmentMap(segments) ==
  /\ DOMAIN segments \subseteq 0..(RangeLen - 1)
  /\ \A p \in DOMAIN segments : segments[p].size \in Nat \ {0}

(* The recursive definition of the offsets has the meaning it should have. *)
LEMMA OffsetsAreSums ==
  ASSUME NEW segments, SegmentMap(segments)
  PROVE  /\ SizeAt(segments) \in [0..RangeLen -> Nat]
         /\ Sums(SliceOffset(segments), SizeAt(segments), RangeLen)
<1> DEFINE w == SizeAt(segments)
           Offsets(g) == g = [p \in 0..RangeLen |->
                                IF p = 0 THEN 0
                                ELSE g[p - 1] + (IF p - 1 \in DOMAIN segments
                                                 THEN segments[p - 1].size ELSE 0)]
<1>0. RangeLen \in Nat
  BY Constants
<1>1. w \in [0..RangeLen -> Nat]
  BY DEF SizeAt, SegmentMap
<1>2. \A p \in 1..RangeLen :
        w[p - 1] = IF p - 1 \in DOMAIN segments THEN segments[p - 1].size ELSE 0
  <2>1. \A p \in 1..RangeLen : p - 1 \in 0..RangeLen
    BY <1>0
  <2> QED BY <2>1 DEF SizeAt
<1> HIDE DEF w
<1>3. SliceOffset(segments) = CHOOSE g : Offsets(g)
  BY DEF SliceOffset
<1>4. PICK g : Sums(g, w, RangeLen)
  BY <1>1, SumExists
<1>5. Offsets(g)
  <2>1. g \in [0..RangeLen -> Nat] /\ g[0] = 0
        /\ \A i \in 1..RangeLen : g[i] = g[i - 1] + w[i - 1]
    BY <1>4 DEF Sums
  <2>2. \A p \in 0..RangeLen : p = 0 \/ p \in 1..RangeLen
    BY <1>0
  <2> QED BY <1>2, <2>1, <2>2
<1>6. Offsets(SliceOffset(segments))
  BY <1>3, <1>5
<1> DEFINE f == SliceOffset(segments)
           T == {p \in 0..RangeLen : f[p] # g[p]}
<1>7. /\ f = [p \in 0..RangeLen |-> f[p]] /\ f[0] = 0
      /\ \A p \in 1..RangeLen : f[p] = f[p - 1] + w[p - 1]
  <2>1. f = [p \in 0..RangeLen |->
               IF p = 0 THEN 0
               ELSE f[p - 1] + (IF p - 1 \in DOMAIN segments
                                THEN segments[p - 1].size ELSE 0)]
    BY <1>6
  <2> HIDE DEF f
  <2>2. f = [p \in 0..RangeLen |-> f[p]] /\ f[0] = 0
    BY <1>0, <2>1
  <2>3. ASSUME NEW p \in 1..RangeLen PROVE f[p] = f[p - 1] + w[p - 1]
    <3>1. p \in 0..RangeLen /\ p # 0
      BY <1>0
    <3>2. f[p] = f[p - 1] + (IF p - 1 \in DOMAIN segments
                             THEN segments[p - 1].size ELSE 0)
      BY <2>1, <3>1
    <3> QED BY <1>2, <3>2
  <2> QED BY <2>2, <2>3
<1>8. /\ g \in [0..RangeLen -> Nat] /\ g[0] = 0
      /\ \A i \in 1..RangeLen : g[i] = g[i - 1] + w[i - 1]
  BY <1>4 DEF Sums
<1>9. T = {}
  <2> SUFFICES ASSUME T # {} PROVE FALSE
    OBVIOUS
  <2>1. Min(T) \in T /\ \A y \in T : Min(T) <= y
    <3>1. T \subseteq Nat
      OBVIOUS
    <3> QED BY <3>1, Smallest
  <2> DEFINE m == Min(T)
  <2>2. m \in 0..RangeLen /\ f[m] # g[m]
    BY <2>1
  <2>3. \A n \in 0..RangeLen : n < m => f[n] = g[n]
    <3> SUFFICES ASSUME NEW n \in 0..RangeLen, n < m, f[n] # g[n]
                 PROVE  FALSE
      OBVIOUS
    <3>1. n \in T
      OBVIOUS
    <3>2. m <= n
      BY <2>1, <3>1
    <3> HIDE DEF m, T
    <3> QED BY <2>2, <3>2
  <2> HIDE DEF m, T, f
  <2>4. m # 0
    BY <1>7, <1>8, <2>2
  <2>5. m \in 1..RangeLen /\ m - 1 \in 0..RangeLen /\ m - 1 < m
    BY <1>0, <2>2, <2>4
  <2>6. f[m - 1] = g[m - 1]
    BY <2>3, <2>5
  <2>7. f[m] = f[m - 1] + w[m - 1] /\ g[m] = g[m - 1] + w[m - 1]
    BY <1>7, <1>8, <2>5
  <2> QED BY <2>2, <2>6, <2>7
<1>10. \A p \in 0..RangeLen : f[p] = g[p]
  BY <1>9
<1> HIDE DEF f, T
<1>11. f = g
  BY <1>7, <1>8, <1>10
<1>12. Sums(f, w, RangeLen)
  BY <1>4, <1>11
<1> QED BY <1>1, <1>12 DEF f, w

(* Segments at different addresses have their data at different offsets.   *)
LEMMA OffsetsDiffer ==
  ASSUME NEW segments, SegmentMap(segments)
  PROVE  \A p, q \in DOMAIN segments :
           SliceOffset(segments)[p] = SliceOffset(segments)[q] => p = q
<1> DEFINE w == SizeAt(segments)
           f == SliceOffset(segments)
<1>0. RangeLen \in Nat
  BY Constants
<1>1. w \in [0..RangeLen -> Nat] /\ Sums(f, w, RangeLen)
  BY OffsetsAreSums
<1>2. /\ f \in [0..RangeLen -> Nat]
      /\ \A i \in 1..RangeLen : f[i] = f[i - 1] + w[i - 1]
  BY <1>1 DEF Sums
<1>3. \A i, j \in 0..RangeLen : i <= j => f[i] <= f[j]
  BY <1>1, SumGrows
<1>4. \A p \in DOMAIN segments : p \in 0..RangeLen /\ p + 1 \in 1..RangeLen
  BY <1>0 DEF SegmentMap
<1>5. \A p \in DOMAIN segments : w[p] \in Nat \ {0}
  BY <1>4 DEF SizeAt, SegmentMap
<1> HIDE DEF w, f
<1>6. ASSUME NEW p \in DOMAIN segments, NEW q \in DOMAIN segments, p < q
      PROVE  f[p] # f[q]
  <2>1. /\ p \in 0..RangeLen /\ p + 1 \in 1..RangeLen /\ q \in 0..RangeLen
        /\ p + 1 \in 0..RangeLen /\ p + 1 <= q /\ (p + 1) - 1 = p
    BY <1>0, <1>4, <1>6
  <2>2. f[p + 1] = f[p] + w[p]
    BY <1>2, <2>1
  <2>3. f[p + 1] <= f[q]
    BY <1>3, <2>1
  <2>4. f[p] \in Nat /\ f[q] \in Nat /\ w[p] \in Nat \ {0}
    BY <1>2, <1>5, <2>1
  <2> QED BY <2>2, <2>3, <2>4
<1>7. ASSUME NEW p \in DOMAIN segments, NEW q \in DOMAIN segments, f[p] = f[q]
      PROVE  p = q
  <2>1. p \in Nat /\ q \in Nat
    BY <1>4
  <2>2. p < q \/ q < p \/ p = q
    BY <2>1
  <2> QED BY <1>6, <1>7, <2>2
<1> QED BY <1>7 DEF f

(* So do their keys, wherever the data is.                                 *)
LEMMA KeysDiffer ==
  ASSUME NEW where, NEW segments, SegmentMap(segments)
  PROVE  \A p, q \in DOMAIN segments :
           DataKey(where, segments, p) = DataKey(where, segments, q) => p = q
BY OffsetsDiffer DEF DataKey

-----------------------------------------------------------------------------
(* What a step does to the manager and the GPU                             *)

(* A map with one entry less.                                              *)
LEMMA WithoutFacts ==
  ASSUME NEW f, NEW x
  PROVE  /\ DOMAIN Without(f, x) = DOMAIN f \ {x}
         /\ \A y \in DOMAIN f \ {x} : Without(f, x)[y] = f[y]
BY DEF Without, Restrict

(* The fields of a segment and of a handle.                                *)
LEMMA Fields ==
  /\ \A e \in Segment : /\ e.size \in 1..RangeLen /\ e.proxy \in Nat
                        /\ e.phys \in 1..NPhys /\ e.access \in BOOLEAN
  /\ \A e \in UserHandle : e.size \in HandleSizes /\ e.phys \in 1..NPhys
BY DEF Segment, UserHandle

(* A new owned segment at the next address, with memory nobody has.        *)
LEMMA AddOwned ==
  ASSUME NEW n, NEW a, NEW h, NEW c, Store(n, a, h, c),
         NEW m \in 0..RangeLen, n < m,
         NEW e \in Segment, e.proxy = Owned, e.phys \notin PhysOf(a, h)
  PROVE  /\ Store(m, With(a, n, e), h, With(c, e.phys, Junk))
         /\ Backed(a, h) => Backed(With(a, n, e), h)
<1> DEFINE b == With(a, n, e)
           d == With(c, e.phys, Junk)
<1>1. /\ n \in 0..RangeLen /\ DOMAIN a \subseteq 0..(n - 1)
      /\ \A p \in DOMAIN a : a[p] \in Segment
      /\ DOMAIN h \subseteq 1..MaxProxy /\ \A x \in DOMAIN h : h[x] \in UserHandle
      /\ DOMAIN c = PhysOf(a, h) /\ \A ph \in DOMAIN c : c[ph] \in Values \cup {Junk}
      /\ Distinct(a, h)
  BY DEF Store
<1>2. n \notin DOMAIN a
  BY <1>1
<1>3. /\ DOMAIN b = DOMAIN a \cup {n} /\ b[n] = e
      /\ \A p \in DOMAIN a : b[p] = a[p]
  BY <1>2 DEF With
<1>4. /\ DOMAIN d = DOMAIN c \cup {e.phys} /\ d[e.phys] = Junk
      /\ \A ph \in DOMAIN c : ph # e.phys => d[ph] = c[ph]
  BY DEF With
<1> HIDE DEF b, d
<1>5. DOMAIN b \subseteq 0..(m - 1)
  BY <1>1, <1>3
<1>6. \A p \in DOMAIN b : b[p] \in Segment
  BY <1>1, <1>3
<1>7. PhysOf(b, h) = PhysOf(a, h) \cup {e.phys}
  BY <1>3 DEF PhysOf
<1>8. \A ph \in DOMAIN d : d[ph] \in Values \cup {Junk}
  BY <1>1, <1>4
<1>9. Distinct(b, h)
  <2>1. \A p \in DOMAIN a : a[p].phys # e.phys
    BY DEF PhysOf
  <2>2. \A x \in DOMAIN h : h[x].phys # e.phys
    BY DEF PhysOf
  <2> QED BY <1>1, <1>3, <2>1, <2>2 DEF Distinct
<1>10. Backed(a, h) => Backed(b, h)
  BY <1>3 DEF Backed
<1>11. Store(m, b, h, d)
  BY <1>1, <1>4, <1>5, <1>6, <1>7, <1>8, <1>9 DEF Store
<1> QED BY <1>10, <1>11 DEF b, d

(* A mapping of a user handle.                                             *)
LEMMA AddBorrowed ==
  ASSUME NEW n, NEW a, NEW h, NEW c, Store(n, a, h, c),
         NEW p \in 0..(n - 1), p \notin DOMAIN a,
         NEW e \in Segment, e.proxy \in DOMAIN h, e.phys = h[e.proxy].phys
  PROVE  /\ Store(n, With(a, p, e), h, c)
         /\ Backed(a, h) => Backed(With(a, p, e), h)
<1> DEFINE b == With(a, p, e)
<1>1. /\ n \in 0..RangeLen /\ DOMAIN a \subseteq 0..(n - 1)
      /\ \A q \in DOMAIN a : a[q] \in Segment
      /\ DOMAIN h \subseteq 1..MaxProxy /\ \A x \in DOMAIN h : h[x] \in UserHandle
      /\ DOMAIN c = PhysOf(a, h) /\ \A ph \in DOMAIN c : c[ph] \in Values \cup {Junk}
      /\ Distinct(a, h)
  BY DEF Store
<1>3. /\ DOMAIN b = DOMAIN a \cup {p} /\ b[p] = e
      /\ \A q \in DOMAIN a : b[q] = a[q]
  BY DEF With
<1> HIDE DEF b
<1>4. DOMAIN b \subseteq 0..(n - 1) /\ \A q \in DOMAIN b : b[q] \in Segment
  BY <1>1, <1>3
<1>5. PhysOf(b, h) = PhysOf(a, h)
  BY <1>3 DEF PhysOf
<1>6. Distinct(b, h)
  <2>1. e.proxy # Owned
    <3>1. e.proxy \in 1..MaxProxy
      BY <1>1
    <3> QED BY <3>1, Constants DEF Owned
  <2> QED BY <1>1, <1>3, <2>1 DEF Distinct
<1>7. Backed(a, h) => Backed(b, h)
  BY <1>3 DEF Backed
<1>8. Store(n, b, h, c)
  BY <1>1, <1>4, <1>5, <1>6 DEF Store
<1> QED BY <1>7, <1>8 DEF b

(* A segment goes, and with its last mapping the memory.                   *)
LEMMA DropSegment ==
  ASSUME NEW n, NEW a, NEW h, NEW c, Store(n, a, h, c), NEW p
  PROVE  /\ Store(n, Without(a, p), h, Restrict(c, PhysOf(Without(a, p), h)))
         /\ Backed(a, h) => Backed(Without(a, p), h)
<1> DEFINE b == Without(a, p)
           d == Restrict(c, PhysOf(b, h))
<1>1. /\ n \in 0..RangeLen /\ DOMAIN a \subseteq 0..(n - 1)
      /\ \A q \in DOMAIN a : a[q] \in Segment
      /\ DOMAIN h \subseteq 1..MaxProxy /\ \A x \in DOMAIN h : h[x] \in UserHandle
      /\ DOMAIN c = PhysOf(a, h) /\ \A ph \in DOMAIN c : c[ph] \in Values \cup {Junk}
      /\ Distinct(a, h)
  BY DEF Store
<1>2. DOMAIN b \subseteq DOMAIN a /\ \A q \in DOMAIN b : b[q] = a[q]
  BY WithoutFacts
<1>3. DOMAIN d = PhysOf(b, h) /\ \A ph \in PhysOf(b, h) : d[ph] = c[ph]
  BY DEF Restrict
<1> HIDE DEF b, d
<1>4. PhysOf(b, h) \subseteq PhysOf(a, h)
  BY <1>2 DEF PhysOf
<1>5. Distinct(b, h)
  BY <1>1, <1>2 DEF Distinct
<1>6. Backed(a, h) => Backed(b, h)
  BY <1>2 DEF Backed
<1>7. Store(n, b, h, d)
  BY <1>1, <1>2, <1>3, <1>4, <1>5 DEF Store
<1> QED BY <1>6, <1>7 DEF b, d

(* A new user handle, with memory nobody has.                              *)
LEMMA AddHandle ==
  ASSUME NEW n, NEW a, NEW h, NEW c, Store(n, a, h, c),
         NEW x \in 1..MaxProxy, x \notin DOMAIN h,
         NEW e \in UserHandle, e.phys \notin PhysOf(a, h)
  PROVE  /\ Store(n, a, With(h, x, e), With(c, e.phys, Junk))
         /\ Backed(a, h) => Backed(a, With(h, x, e))
<1> DEFINE k == With(h, x, e)
           d == With(c, e.phys, Junk)
<1>1. /\ n \in 0..RangeLen /\ DOMAIN a \subseteq 0..(n - 1)
      /\ \A p \in DOMAIN a : a[p] \in Segment
      /\ DOMAIN h \subseteq 1..MaxProxy /\ \A y \in DOMAIN h : h[y] \in UserHandle
      /\ DOMAIN c = PhysOf(a, h) /\ \A ph \in DOMAIN c : c[ph] \in Values \cup {Junk}
      /\ Distinct(a, h)
  BY DEF Store
<1>3. /\ DOMAIN k = DOMAIN h \cup {x} /\ k[x] = e
      /\ \A y \in DOMAIN h : k[y] = h[y]
  BY DEF With
<1>4. /\ DOMAIN d = DOMAIN c \cup {e.phys} /\ d[e.phys] = Junk
      /\ \A ph \in DOMAIN c : ph # e.phys => d[ph] = c[ph]
  BY DEF With
<1> HIDE DEF k, d
<1>5. DOMAIN k \subseteq 1..MaxProxy /\ \A y \in DOMAIN k : k[y] \in UserHandle
  BY <1>1, <1>3
<1>7. PhysOf(a, k) = PhysOf(a, h) \cup {e.phys}
  BY <1>3 DEF PhysOf
<1>8. \A ph \in DOMAIN d : d[ph] \in Values \cup {Junk}
  BY <1>1, <1>4
<1>9. Distinct(a, k)
  <2>1. \A p \in DOMAIN a : a[p].phys # e.phys
    BY DEF PhysOf
  <2>2. \A y \in DOMAIN h : h[y].phys # e.phys
    BY DEF PhysOf
  <2> QED BY <1>1, <1>3, <2>1, <2>2 DEF Distinct
<1>10. Backed(a, h) => Backed(a, k)
  BY <1>3 DEF Backed
<1>11. Store(n, a, k, d)
  BY <1>1, <1>4, <1>5, <1>7, <1>8, <1>9 DEF Store
<1> QED BY <1>10, <1>11 DEF k, d

(* A user handle is released: its memory stays while it is mapped.         *)
LEMMA DropHandle ==
  ASSUME NEW n, NEW a, NEW h, NEW c, Store(n, a, h, c), NEW x
  PROVE  /\ Store(n, a, Without(h, x), Restrict(c, PhysOf(a, Without(h, x))))
         /\ (Backed(a, h) /\ \A p \in DOMAIN a : a[p].proxy # x)
              => Backed(a, Without(h, x))
<1> DEFINE k == Without(h, x)
           d == Restrict(c, PhysOf(a, k))
<1>1. /\ n \in 0..RangeLen /\ DOMAIN a \subseteq 0..(n - 1)
      /\ \A q \in DOMAIN a : a[q] \in Segment
      /\ DOMAIN h \subseteq 1..MaxProxy /\ \A y \in DOMAIN h : h[y] \in UserHandle
      /\ DOMAIN c = PhysOf(a, h) /\ \A ph \in DOMAIN c : c[ph] \in Values \cup {Junk}
      /\ Distinct(a, h)
  BY DEF Store
<1>2. DOMAIN k = DOMAIN h \ {x} /\ \A y \in DOMAIN k : k[y] = h[y]
  BY WithoutFacts
<1>3. DOMAIN d = PhysOf(a, k) /\ \A ph \in PhysOf(a, k) : d[ph] = c[ph]
  BY DEF Restrict
<1> HIDE DEF k, d
<1>4. PhysOf(a, k) \subseteq PhysOf(a, h)
  BY <1>2 DEF PhysOf
<1>5. Distinct(a, k)
  BY <1>1, <1>2 DEF Distinct
<1>6. (Backed(a, h) /\ \A p \in DOMAIN a : a[p].proxy # x) => Backed(a, k)
  BY <1>2 DEF Backed
<1>7. Store(n, a, k, d)
  BY <1>1, <1>2, <1>3, <1>4, <1>5 DEF Store
<1> QED BY <1>6, <1>7 DEF k, d

(* Access to a mapping is granted.                                         *)
LEMMA GrantAccess ==
  ASSUME NEW n, NEW a, NEW h, NEW c, Store(n, a, h, c), NEW p \in DOMAIN a
  PROVE  /\ Store(n, [a EXCEPT ![p].access = TRUE], h, c)
         /\ Backed(a, h) => Backed([a EXCEPT ![p].access = TRUE], h)
<1> DEFINE b == [a EXCEPT ![p].access = TRUE]
<1>1. /\ n \in 0..RangeLen /\ DOMAIN a \subseteq 0..(n - 1)
      /\ \A q \in DOMAIN a : a[q] \in Segment
      /\ DOMAIN h \subseteq 1..MaxProxy /\ \A y \in DOMAIN h : h[y] \in UserHandle
      /\ DOMAIN c = PhysOf(a, h) /\ \A ph \in DOMAIN c : c[ph] \in Values \cup {Junk}
      /\ Distinct(a, h)
  BY DEF Store
<1>2. DOMAIN b = DOMAIN a /\ \A q \in DOMAIN a : q # p => b[q] = a[q]
  OBVIOUS
<1>3. b[p] = [a[p] EXCEPT !.access = TRUE]
  OBVIOUS
<1>4. /\ b[p] \in Segment /\ b[p].proxy = a[p].proxy /\ b[p].phys = a[p].phys
  BY <1>1, <1>3 DEF Segment
<1> HIDE DEF b
<1>5. \A q \in DOMAIN a : /\ b[q] \in Segment /\ b[q].proxy = a[q].proxy
                          /\ b[q].phys = a[q].phys
  BY <1>1, <1>2, <1>4
<1>6. PhysOf(b, h) = PhysOf(a, h)
  BY <1>2, <1>5 DEF PhysOf
<1>7. Distinct(b, h)
  BY <1>1, <1>2, <1>5 DEF Distinct
<1>8. Backed(a, h) => Backed(b, h)
  BY <1>2, <1>5 DEF Backed
<1>9. Store(n, b, h, c)
  BY <1>1, <1>2, <1>5, <1>6, <1>7 DEF Store
<1> QED BY <1>8, <1>9 DEF b

(* Handles and owned segments all have memory of their own, so they are no *)
(* more than there are physical objects.                                   *)
LEMMA EnoughMemory ==
  ASSUME NEW n, NEW a, NEW h, NEW c, Store(n, a, h, c),
         NEW own, own = {p \in DOMAIN a : a[p].proxy = Owned}
  PROVE  /\ IsFiniteSet(DOMAIN h) /\ IsFiniteSet(own)
         /\ Cardinality(DOMAIN h) + Cardinality(own) <= NPhys
<1> DEFINE f == [x \in DOMAIN h |-> h[x].phys]
           g == [p \in own |-> a[p].phys]
           F == {f[x] : x \in DOMAIN h}
           G == {g[p] : p \in own}
<1>0. NPhys \in Nat
  BY Constants
<1>1. f \in [DOMAIN h -> 1..NPhys] /\ g \in [own -> 1..NPhys]
  BY Fields DEF Store
<1>2. \A x, y \in DOMAIN h : f[x] = f[y] => x = y
  BY DEF Store, Distinct
<1>3. \A p, q \in own : g[p] = g[q] => p = q
  BY DEF Store, Distinct
<1>4. F \cap G = {}
  <2>1. \A x \in DOMAIN h, p \in own : f[x] # g[p]
    BY DEF Store, Distinct
  <2> HIDE DEF f, g
  <2> QED BY <2>1
<1> HIDE DEF f, g, F, G
<1>4a. Numbering(f, DOMAIN h, NPhys, F) /\ Numbering(g, own, NPhys, G)
  BY <1>1, <1>2, <1>3 DEF F, G, Numbering
<1>5. /\ IsFiniteSet(DOMAIN h) /\ IsFiniteSet(F) /\ Cardinality(DOMAIN h) \in Nat
      /\ Cardinality(F) = Cardinality(DOMAIN h) /\ F \subseteq 1..NPhys
  BY <1>0, <1>4a, Numbered
<1>6. /\ IsFiniteSet(own) /\ IsFiniteSet(G) /\ Cardinality(own) \in Nat
      /\ Cardinality(G) = Cardinality(own) /\ G \subseteq 1..NPhys
  BY <1>0, <1>4a, Numbered
<1>7. Cardinality(F \cup G) = Cardinality(F) + Cardinality(G)
  <2>1. Cardinality(F \cup G) = Cardinality(F) + Cardinality(G) - Cardinality(F \cap G)
    BY <1>5, <1>6, FS_Union
  <2>2. Cardinality(F \cap G) = 0
    BY <1>4, FS_EmptySet
  <2> QED BY <1>5, <1>6, <2>1, <2>2
<1>8. IsFiniteSet(1..NPhys) /\ Cardinality(1..NPhys) = NPhys
  <2>1. /\ IsFiniteSet(1..NPhys)
        /\ Cardinality(1..NPhys) = IF 1 > NPhys THEN 0 ELSE NPhys - 1 + 1
    BY <1>0, FS_Interval
  <2> QED BY <1>0, <2>1
<1>9. Cardinality(F \cup G) <= NPhys
  <2>1. F \cup G \in SUBSET (1..NPhys)
    BY <1>5, <1>6
  <2> QED BY <1>8, <2>1, FS_Subset
<1> QED BY <1>5, <1>6, <1>7, <1>9

(* Memory the GPU has left is memory nobody has.                           *)
LEMMA FreshMemory ==
  ASSUME FreePhys # {}
  PROVE  Min(FreePhys) \in 1..NPhys /\ Min(FreePhys) \notin PhysOf(allocations, userHandles)
<1>1. FreePhys \subseteq Nat
  BY Constants DEF FreePhys
<1>2. Min(FreePhys) \in FreePhys
  BY <1>1, Smallest
<1> HIDE DEF FreePhys
<1>3. \A ph \in FreePhys : ph \in 1..NPhys /\ ph \notin Live
  BY DEF FreePhys
<1> QED BY <1>2, <1>3 DEF Live, PhysOf

(* The proxy of a new handle is no other handle's.                         *)
LEMMA FreshProxy ==
  ASSUME DOMAIN userHandles \subseteq 1..MaxProxy
  PROVE  NewProxy \in Nat \ {0} /\ NewProxy \notin DOMAIN userHandles
<1> DEFINE D == DOMAIN userHandles
<1>0. MaxProxy \in Nat
  BY Constants
<1>1. CASE D = {}
  BY <1>1 DEF NewProxy
<1>2. CASE D # {}
  <2>1. D \subseteq 0..MaxProxy
    OBVIOUS
  <2>2. Max(D) \in D /\ \A y \in D : Max(D) >= y
    BY <1>0, <1>2, <2>1, Largest
  <2>3. NewProxy = Max(D) + 1
    BY <1>2 DEF NewProxy
  <2> HIDE DEF D
  <2>4. Max(D) \in Nat
    <3>1. Max(D) \in 0..MaxProxy
      BY <2>1, <2>2
    <3> QED BY <1>0, <3>1
  <2>5. NewProxy \notin D
    BY <2>2, <2>3, <2>4
  <2>6. NewProxy \in Nat \ {0}
    BY <2>3, <2>4
  <2> QED BY <2>5, <2>6 DEF D
<1> QED BY <1>1, <1>2

(* A reservation at the next address overlaps none that was made before.   *)
LEMMA NewReservation ==
  ASSUME ReservedOK, Below(next), next \in 0..RangeLen, NEW size \in AllocSizes,
         ReserveAligned(RoundUp(size)), reserved' = reserved \cup {<<next, size>>}
  PROVE  /\ ReservedOK' /\ Below(next)' /\ next' \in 0..RangeLen /\ next < next'
<1>0. RangeLen \in Nat /\ AllocSizes \subseteq Nat \ {0}
  BY Constants
<1>1. RoundUp(size) \in Nat \ {0} /\ size <= RoundUp(size)
  BY <1>0, RoundUpFacts
<1>2. next' = next + RoundUp(size) /\ next + RoundUp(size) <= RangeLen
  BY DEF ReserveAligned, Fits
<1>3. next' \in 0..RangeLen /\ next < next' /\ next \in Nat /\ next' \in Nat
  BY <1>0, <1>1, <1>2
<1>4. \A r \in reserved : /\ r[1] \in Nat /\ r[2] \in Nat \ {0}
                          /\ RoundUp(r[2]) \in Nat /\ r[2] <= RoundUp(r[2])
                          /\ r[1] + RoundUp(r[2]) <= next
  <2> SUFFICES ASSUME NEW r \in reserved
               PROVE  /\ r[1] \in Nat /\ r[2] \in Nat \ {0}
                      /\ RoundUp(r[2]) \in Nat /\ r[2] <= RoundUp(r[2])
                      /\ r[1] + RoundUp(r[2]) <= next
    OBVIOUS
  <2>0. r \in (0..RangeLen) \X AllocSizes
    BY DEF ReservedOK
  <2>1. r[1] \in Nat /\ r[2] \in Nat \ {0}
    <3>1. PICK u \in 0..RangeLen, v \in AllocSizes : r = <<u, v>>
      BY <2>0
    <3>2. u \in Nat /\ v \in Nat \ {0} /\ r[1] = u /\ r[2] = v
      BY <1>0, <3>1
    <3> QED BY <3>2
  <2> QED BY <2>1, RoundUpFacts DEF Below
<1>5. reserved' \subseteq (0..RangeLen) \X AllocSizes
  BY DEF ReservedOK
<1>6. \A r \in reserved : r[1] + RoundUp(r[2]) <= next'
  <2> SUFFICES ASSUME NEW r \in reserved PROVE r[1] + RoundUp(r[2]) <= next'
    OBVIOUS
  <2>1. r[1] \in Nat /\ RoundUp(r[2]) \in Nat /\ r[1] + RoundUp(r[2]) <= next
    BY <1>4
  <2> QED BY <1>3, <2>1
<1>7. Below(next)'
  <2>1. <<next, size>>[1] + RoundUp(<<next, size>>[2]) <= next'
    <3>1. <<next, size>>[1] = next /\ <<next, size>>[2] = size
      OBVIOUS
    <3>2. next + RoundUp(size) <= next'
      BY <1>2, <1>3
    <3> QED BY <3>1, <3>2
  <2>2. \A r \in reserved' : r[1] + RoundUp(r[2]) <= next'
    BY <1>6, <2>1
  <2> QED BY <2>2 DEF Below, RoundUp
<1>8. \A r \in reserved : Interval(r[1], r[2]) \cap Interval(next, size) = {}
  <2> SUFFICES ASSUME NEW r \in reserved,
                      NEW i \in Interval(r[1], r[2]), i \in Interval(next, size)
               PROVE  FALSE
    OBVIOUS
  <2>1. /\ r[1] \in Nat /\ r[2] \in Nat \ {0}
        /\ RoundUp(r[2]) \in Nat /\ r[2] <= RoundUp(r[2])
        /\ r[1] + RoundUp(r[2]) <= next
    BY <1>4
  <2>2. i \in r[1]..(r[1] + r[2] - 1) /\ i \in next..(next + size - 1)
    BY DEF Interval
  <2> QED BY <1>3, <2>1, <2>2
<1>9. \A r, s \in reserved' :
        r # s => Interval(r[1], r[2]) \cap Interval(s[1], s[2]) = {}
  <2>1. <<next, size>>[1] = next /\ <<next, size>>[2] = size
    OBVIOUS
  <2>2. \A r, s \in reserved :
          r # s => Interval(r[1], r[2]) \cap Interval(s[1], s[2]) = {}
    BY DEF ReservedOK
  <2> QED BY <1>8, <2>1, <2>2
<1>10. ReservedOK'
  BY <1>5, <1>9 DEF ReservedOK, Interval
<1> QED BY <1>3, <1>7, <1>10

(* What every call of the client has in common.                            *)
LEMMA ClientStep ==
  ASSUME ClientCall, Store(next, allocations, userHandles, content)',
         ReservedOK', Below(next)', orphaned' \in BOOLEAN,
         ~orphaned' => Backed(allocations, userHandles)'
  PROVE  MemoryInv'
<1>1. phase' = "running"
  BY DEF ClientCall
<1>2. RestoreFaithful'
  BY <1>1 DEF RestoreFaithful
<1> QED BY <1>1, <1>2 DEF MemoryInv, Phases

-----------------------------------------------------------------------------
(* The client's calls                                                      *)

(* What a call of the client finds.                                        *)
LEMMA Before ==
  ASSUME MemoryInv, Running
  PROVE  /\ Store(next, allocations, userHandles, content)
         /\ next \in 0..RangeLen /\ next \in Nat
         /\ ReservedOK /\ Below(next) /\ orphaned \in BOOLEAN
         /\ ~orphaned => Backed(allocations, userHandles)
BY Constants DEF MemoryInv, Store

(* A call that leaves the client's reservations alone keeps what is known  *)
(* of them, if the next address does not fall.                             *)
LEMMA SameReservations ==
  ASSUME ReservedOK, Below(next), next \in Nat, next' \in Nat, next <= next',
         reserved' = reserved
  PROVE  ReservedOK' /\ Below(next)'
<1>1. ReservedOK'
  BY DEF ReservedOK, Interval
<1>2. ASSUME NEW r \in reserved PROVE r[1] + RoundUp(r[2]) <= next'
  <2>0. RangeLen \in Nat /\ AllocSizes \subseteq Nat \ {0}
    BY Constants
  <2>1. PICK u \in 0..RangeLen, v \in AllocSizes : r = <<u, v>>
    BY DEF ReservedOK
  <2>2. u \in Nat /\ v \in Nat \ {0} /\ r[1] = u /\ r[2] = v
    BY <2>0, <2>1
  <2>3. RoundUp(v) \in Nat
    BY <2>2, RoundUpFacts
  <2>4. u + RoundUp(v) <= next
    BY <2>2 DEF Below
  <2>5. u + RoundUp(v) <= next'
    BY <2>2, <2>3, <2>4
  <2> QED BY <2>2, <2>5
<1>3. Below(next)'
  BY <1>2 DEF Below, RoundUp
<1> QED BY <1>1, <1>3

(* A reservation at the next address keeps the invariant.                  *)
LEMMA ReserveAddressKeeps ==
  ASSUME MemoryInv, NEW size \in AllocSizes, ReserveAddress(size)
  PROVE  MemoryInv'
<1>1. ClientCall /\ Running
  BY DEF ReserveAddress, ClientCall
<1>2. ReservedOK' /\ Below(next)' /\ next' \in 0..RangeLen /\ next < next'
  BY <1>1, Before, NewReservation DEF ReserveAddress
<1>3. /\ allocations' = allocations /\ userHandles' = userHandles
      /\ content' = content /\ orphaned' = orphaned
  BY DEF ReserveAddress
<1>4. Store(next', allocations, userHandles, content)
  <2>1. DOMAIN allocations \subseteq 0..(next' - 1)
    <3>1. DOMAIN allocations \subseteq 0..(next - 1) /\ next \in Nat /\ next' \in Nat
      BY <1>1, <1>2, Before, Constants DEF Store
    <3> QED BY <1>2, <3>1
  <2> QED BY <1>1, <1>2, <2>1, Before DEF Store
<1>5. Store(next, allocations, userHandles, content)'
  BY <1>3, <1>4
<1>6. ~orphaned' => Backed(allocations, userHandles)'
  <2>1. ~orphaned => Backed(allocations, userHandles)
    BY <1>1, Before
  <2> QED BY <1>3, <2>1 DEF Backed
<1> QED BY <1>1, <1>2, <1>3, <1>5, <1>6, ClientStep, Before

(* cudaMalloc: a new owned segment in new memory.                          *)
LEMMA AllocateKeeps ==
  ASSUME MemoryInv, NEW size \in AllocSizes, Allocate(size)
  PROVE  MemoryInv'
<1> DEFINE e == [size |-> RoundUp(size), proxy |-> Owned, phys |-> Min(FreePhys),
                 access |-> TRUE]
<1>0. RangeLen \in Nat /\ AllocSizes \subseteq Nat \ {0}
  BY Constants
<1>1. ClientCall /\ Running
  BY DEF Allocate, ClientCall
<1>2. ReservedOK' /\ Below(next)' /\ next' \in 0..RangeLen /\ next < next'
  BY <1>1, Before, NewReservation DEF Allocate
<1>3. /\ allocations' = With(allocations, next, e) /\ userHandles' = userHandles
      /\ content' = With(content, Min(FreePhys), Junk) /\ orphaned' = orphaned
      /\ FreePhys # {} /\ next' = next + RoundUp(size)
  BY DEF Allocate, ReserveAligned
<1>4. Min(FreePhys) \in 1..NPhys /\ Min(FreePhys) \notin PhysOf(allocations, userHandles)
  BY <1>3, FreshMemory
<1>5. RoundUp(size) \in 1..RangeLen
  <2>1. RoundUp(size) \in Nat \ {0}
    BY <1>0, RoundUpFacts
  <2>2. next \in Nat
    BY <1>1, Before
  <2> QED BY <1>0, <1>2, <1>3, <2>1, <2>2
<1>6. e \in Segment /\ e.proxy = Owned /\ e.phys = Min(FreePhys)
  BY <1>4, <1>5 DEF Segment, Owned
<1> HIDE DEF e
<1>7. Store(next, allocations, userHandles, content)
  BY <1>1, Before
<1>8. /\ Store(next', With(allocations, next, e), userHandles, With(content, e.phys, Junk))
      /\ Backed(allocations, userHandles)
           => Backed(With(allocations, next, e), userHandles)
  BY <1>2, <1>4, <1>6, <1>7, AddOwned
<1>9. Store(next', allocations', userHandles', content')
  BY <1>3, <1>6, <1>8
<1>10. ~orphaned' => Backed(allocations', userHandles')
  BY <1>1, <1>3, <1>8, Before
<1> QED BY <1>1, <1>2, <1>3, <1>9, <1>10, ClientStep, Before

(* cudaMalloc without memory: only the next address moves.                 *)
LEMMA AllocateFailsKeeps ==
  ASSUME MemoryInv, NEW size \in AllocSizes, AllocateFails(size)
  PROVE  MemoryInv'
<1>0. RangeLen \in Nat /\ AllocSizes \subseteq Nat \ {0}
  BY Constants
<1>1. ClientCall /\ Running
  BY DEF AllocateFails, ClientCall
<1>2. /\ allocations' = allocations /\ userHandles' = userHandles /\ content' = content
      /\ reserved' = reserved /\ orphaned' = orphaned
      /\ next' = next + RoundUp(size) /\ next + RoundUp(size) <= RangeLen
  BY DEF AllocateFails, ReserveAligned, Fits, clientVars
<1>3. next \in Nat /\ next' \in 0..RangeLen /\ next' \in Nat /\ next <= next'
  <2>1. RoundUp(size) \in Nat \ {0}
    BY <1>0, RoundUpFacts
  <2>2. next \in Nat
    BY <1>1, Before
  <2> QED BY <1>0, <1>2, <2>1, <2>2
<1>4. ReservedOK' /\ Below(next)'
  BY <1>1, <1>2, <1>3, Before, SameReservations
<1>5. Store(next', allocations, userHandles, content)
  <2>1. DOMAIN allocations \subseteq 0..(next' - 1)
    <3>1. DOMAIN allocations \subseteq 0..(next - 1)
      BY <1>1, Before DEF Store
    <3> QED BY <1>3, <3>1
  <2> QED BY <1>1, <1>3, <2>1, Before DEF Store
<1>6. Store(next', allocations', userHandles', content')
  BY <1>2, <1>5
<1>7. ~orphaned' => Backed(allocations', userHandles')
  BY <1>1, <1>2, Before
<1> QED BY <1>1, <1>2, <1>4, <1>6, <1>7, ClientStep, Before

(* What remains of the GPU's content is what some mapping or handle has.   *)
LEMMA DropUnusedIs ==
  ASSUME NEW a, NEW h
  PROVE  DropUnused(a, h) = Restrict(content, PhysOf(a, h))
BY DEF DropUnused, PhysOf

(* cudaFree.                                                               *)
LEMMA FreeKeeps ==
  ASSUME MemoryInv, NEW p, Free(p)
  PROVE  MemoryInv'
<1>1. ClientCall /\ Running
  BY DEF Free, ClientCall
<1>2. /\ allocations' = Without(allocations, p) /\ userHandles' = userHandles
      /\ content' = DropUnused(allocations', userHandles) /\ orphaned' = orphaned
      /\ next' = next /\ reserved' \subseteq reserved
  BY DEF Free
<1>3. ReservedOK' /\ Below(next)'
  <2>1. ReservedOK /\ Below(next)
    BY <1>1, Before
  <2>2. ReservedOK'
    BY <1>2, <2>1 DEF ReservedOK, Interval
  <2>3. Below(next)'
    BY <1>2, <2>1 DEF Below, RoundUp
  <2> QED BY <2>2, <2>3
<1>4. content' = Restrict(content, PhysOf(Without(allocations, p), userHandles))
  BY <1>2, DropUnusedIs
<1>5. /\ Store(next, Without(allocations, p), userHandles,
               Restrict(content, PhysOf(Without(allocations, p), userHandles)))
      /\ Backed(allocations, userHandles) => Backed(Without(allocations, p), userHandles)
  BY <1>1, Before, DropSegment
<1>6. Store(next', allocations', userHandles', content')
  BY <1>2, <1>4, <1>5
<1>7. ~orphaned' => Backed(allocations', userHandles')
  BY <1>1, <1>2, <1>5, Before
<1> QED BY <1>1, <1>2, <1>3, <1>6, <1>7, ClientStep, Before

(* cuMemCreate: a new proxy for new memory.                                *)
LEMMA CreateUserHandleKeeps ==
  ASSUME MemoryInv, NEW size \in HandleSizes, CreateUserHandle(size)
  PROVE  MemoryInv'
<1> DEFINE e == [size |-> size, phys |-> Min(FreePhys)]
<1>1. ClientCall /\ Running
  BY DEF CreateUserHandle, ClientCall
<1>2. /\ userHandles' = With(userHandles, NewProxy, e) /\ allocations' = allocations
      /\ content' = With(content, Min(FreePhys), Junk) /\ orphaned' = orphaned
      /\ next' = next /\ reserved' = reserved
      /\ FreePhys # {} /\ NewProxy <= MaxProxy
  BY DEF CreateUserHandle, clientVars
<1>3. ReservedOK' /\ Below(next)'
  <2>1. next \in Nat
    BY <1>1, Before
  <2>2. next' \in Nat /\ next <= next'
    BY <1>2, <2>1
  <2> QED BY <1>1, <1>2, <2>1, <2>2, Before, SameReservations
<1>4. Min(FreePhys) \in 1..NPhys /\ Min(FreePhys) \notin PhysOf(allocations, userHandles)
  BY <1>2, FreshMemory
<1>5. NewProxy \in 1..MaxProxy /\ NewProxy \notin DOMAIN userHandles
  <2>1. DOMAIN userHandles \subseteq 1..MaxProxy
    BY <1>1, Before DEF Store
  <2>2. NewProxy \in Nat \ {0} /\ NewProxy \notin DOMAIN userHandles
    BY <2>1, FreshProxy
  <2> QED BY <1>2, <2>2, Constants
<1>6. e \in UserHandle /\ e.phys = Min(FreePhys)
  BY <1>4 DEF UserHandle
<1> HIDE DEF e
<1>7. /\ Store(next, allocations, With(userHandles, NewProxy, e),
               With(content, e.phys, Junk))
      /\ Backed(allocations, userHandles)
           => Backed(allocations, With(userHandles, NewProxy, e))
  BY <1>1, <1>4, <1>5, <1>6, Before, AddHandle
<1>8. Store(next', allocations', userHandles', content')
  BY <1>2, <1>6, <1>7
<1>9. ~orphaned' => Backed(allocations', userHandles')
  BY <1>1, <1>2, <1>7, Before
<1> QED BY <1>1, <1>2, <1>3, <1>8, <1>9, ClientStep, Before

(* A mapping lies in one reservation, and so below the next address.       *)
LEMMA MapUserHandleKeeps ==
  ASSUME MemoryInv, NEW p \in 0..(RangeLen - 1), NEW size \in HandleSizes, NEW proxy,
         MapUserHandle(p, size, proxy)
  PROVE  MemoryInv'
<1> DEFINE e == [size |-> size, proxy |-> proxy, phys |-> userHandles[proxy].phys,
                 access |-> FALSE]
<1>0. RangeLen \in Nat /\ AllocSizes \subseteq Nat \ {0} /\ size \in Nat \ {0}
  BY Constants
<1>1. ClientCall /\ Running
  BY DEF MapUserHandle, ClientCall
<1>2. /\ allocations' = With(allocations, p, e) /\ userHandles' = userHandles
      /\ content' = content /\ orphaned' = orphaned /\ next' = next
      /\ reserved' = reserved /\ proxy \in DOMAIN userHandles
      /\ p \notin DOMAIN allocations /\ Mappable(p, size, userHandles[proxy])
  BY DEF MapUserHandle, clientVars
<1>3. ReservedOK' /\ Below(next)'
  <2>1. next \in Nat
    BY <1>1, Before
  <2>2. next' \in Nat /\ next <= next'
    BY <1>2, <2>1
  <2> QED BY <1>1, <1>2, <2>1, <2>2, Before, SameReservations
<1>4. p \in 0..(next - 1) /\ size \in 1..RangeLen
  <2>1. PICK r \in reserved : Interval(p, size) \subseteq Interval(r[1], RoundUp(r[2]))
    BY <1>2 DEF Mappable
  <2>2. PICK u \in 0..RangeLen, v \in AllocSizes : r = <<u, v>>
    BY <1>1, Before DEF ReservedOK
  <2>3. u \in Nat /\ v \in Nat \ {0} /\ r[1] = u /\ r[2] = v
    BY <1>0, <2>2
  <2>4. RoundUp(v) \in Nat
    BY <2>3, RoundUpFacts
  <2>5. u + RoundUp(v) <= next
    BY <1>1, <2>3, Before DEF Below
  <2>6. p \in Nat
    BY <1>0
  <2>7. p + size - 1 \in p..(p + size - 1)
    BY <1>0, <2>6
  <2>8. p + size - 1 \in u..(u + RoundUp(v) - 1)
    BY <2>1, <2>3, <2>7 DEF Interval
  <2>9. p + size - 1 <= u + RoundUp(v) - 1
    BY <2>8
  <2>10. next \in Nat /\ next <= RangeLen
    BY <1>0, <1>1, Before
  <2> HIDE DEF e
  <2> QED BY <1>0, <2>3, <2>4, <2>5, <2>6, <2>9, <2>10
<1>5. e \in Segment /\ e.proxy = proxy /\ e.phys = userHandles[proxy].phys
  <2>1. userHandles[proxy].phys \in 1..NPhys
    BY <1>1, <1>2, Before, Fields DEF Store
  <2>2. proxy \in 1..MaxProxy
    BY <1>1, <1>2, Before DEF Store
  <2>3. proxy \in Nat
    BY <2>2, Constants
  <2> QED BY <1>4, <2>1, <2>3 DEF Segment
<1> HIDE DEF e
<1>6. /\ Store(next, With(allocations, p, e), userHandles, content)
      /\ Backed(allocations, userHandles) => Backed(With(allocations, p, e), userHandles)
  BY <1>1, <1>2, <1>4, <1>5, Before, AddBorrowed
<1>7. Store(next', allocations', userHandles', content')
  BY <1>2, <1>6
<1>8. ~orphaned' => Backed(allocations', userHandles')
  BY <1>1, <1>2, <1>6, Before
<1> QED BY <1>1, <1>2, <1>3, <1>7, <1>8, ClientStep, Before

(* cuMemSetAccess.                                                         *)
LEMMA SetAccessKeeps ==
  ASSUME MemoryInv, NEW p, SetAccess(p)
  PROVE  MemoryInv'
<1>1. ClientCall /\ Running
  BY DEF SetAccess, ClientCall
<1>2. /\ allocations' = [allocations EXCEPT ![p].access = TRUE] /\ p \in DOMAIN allocations
      /\ userHandles' = userHandles /\ content' = content /\ orphaned' = orphaned
      /\ next' = next /\ reserved' = reserved
  BY DEF SetAccess, clientVars
<1>3. ReservedOK' /\ Below(next)'
  <2>1. next \in Nat
    BY <1>1, Before
  <2>2. next' \in Nat /\ next <= next'
    BY <1>2, <2>1
  <2> QED BY <1>1, <1>2, <2>1, <2>2, Before, SameReservations
<1> DEFINE b == [allocations EXCEPT ![p].access = TRUE]
<1>4. /\ Store(next, b, userHandles, content)
      /\ Backed(allocations, userHandles) => Backed(b, userHandles)
  BY <1>1, <1>2, Before, GrantAccess
<1>5. allocations' = b
  BY <1>2
<1> HIDE DEF b
<1>6. Store(next', allocations', userHandles', content')
  BY <1>2, <1>4, <1>5
<1>7. ~orphaned' => Backed(allocations', userHandles')
  BY <1>1, <1>2, <1>4, <1>5, Before
<1> QED BY <1>1, <1>2, <1>3, <1>6, <1>7, ClientStep, Before

(* cuMemUnmap.                                                             *)
LEMMA UnmapKeeps ==
  ASSUME MemoryInv, NEW p, NEW size, Unmap(p, size)
  PROVE  MemoryInv'
<1>1. ClientCall /\ Running
  BY DEF Unmap, ClientCall
<1>2. /\ allocations' = Without(allocations, p) /\ userHandles' = userHandles
      /\ content' = DropUnused(allocations', userHandles) /\ orphaned' = orphaned
      /\ next' = next /\ reserved' = reserved
  BY DEF Unmap, clientVars
<1>3. ReservedOK' /\ Below(next)'
  <2>1. next \in Nat
    BY <1>1, Before
  <2>2. next' \in Nat /\ next <= next'
    BY <1>2, <2>1
  <2> QED BY <1>1, <1>2, <2>1, <2>2, Before, SameReservations
<1>4. content' = Restrict(content, PhysOf(Without(allocations, p), userHandles))
  BY <1>2, DropUnusedIs
<1>5. /\ Store(next, Without(allocations, p), userHandles,
               Restrict(content, PhysOf(Without(allocations, p), userHandles)))
      /\ Backed(allocations, userHandles) => Backed(Without(allocations, p), userHandles)
  BY <1>1, Before, DropSegment
<1>6. Store(next', allocations', userHandles', content')
  BY <1>2, <1>4, <1>5
<1>7. ~orphaned' => Backed(allocations', userHandles')
  BY <1>1, <1>2, <1>5, Before
<1> QED BY <1>1, <1>2, <1>3, <1>6, <1>7, ClientStep, Before

(* cuMemRelease: a client that releases a mapped handle is orphaned.       *)
LEMMA ReleaseUserHandleKeeps ==
  ASSUME MemoryInv, NEW proxy, ReleaseUserHandle(proxy)
  PROVE  MemoryInv'
<1>1. ClientCall /\ Running
  BY DEF ReleaseUserHandle, ClientCall
<1>2. /\ userHandles' = Without(userHandles, proxy) /\ allocations' = allocations
      /\ content' = DropUnused(allocations, userHandles')
      /\ next' = next /\ reserved' = reserved
      /\ orphaned' = (orphaned \/ \E p \in DOMAIN allocations :
                                     allocations[p].proxy = proxy)
  BY DEF ReleaseUserHandle
<1>3. ReservedOK' /\ Below(next)'
  <2>1. next \in Nat
    BY <1>1, Before
  <2>2. next' \in Nat /\ next <= next'
    BY <1>2, <2>1
  <2> QED BY <1>1, <1>2, <2>1, <2>2, Before, SameReservations
<1>4. content' = Restrict(content, PhysOf(allocations, Without(userHandles, proxy)))
  BY <1>2, DropUnusedIs
<1>5. /\ Store(next, allocations, Without(userHandles, proxy),
               Restrict(content, PhysOf(allocations, Without(userHandles, proxy))))
      /\ (Backed(allocations, userHandles)
            /\ \A p \in DOMAIN allocations : allocations[p].proxy # proxy)
           => Backed(allocations, Without(userHandles, proxy))
  BY <1>1, Before, DropHandle
<1>6. Store(next', allocations', userHandles', content')
  BY <1>2, <1>4, <1>5
<1>7. ~orphaned' => Backed(allocations', userHandles')
  BY <1>1, <1>2, <1>5, Before
<1>8. orphaned' \in BOOLEAN
  BY <1>1, <1>2, Before
<1> QED BY <1>1, <1>3, <1>6, <1>7, <1>8, ClientStep

(* A write changes the content of live memory.                             *)
LEMMA WriteKeeps ==
  ASSUME MemoryInv, NEW p, NEW v \in Values, Write(p, v)
  PROVE  MemoryInv'
<1>1. ClientCall /\ Running
  BY DEF Write, ClientCall
<1>2. /\ allocations' = allocations /\ userHandles' = userHandles /\ next' = next
      /\ content' = [content EXCEPT ![allocations[p].phys] = v]
      /\ orphaned' = orphaned /\ reserved' = reserved
  BY DEF Write, managerVars, clientVars
<1>3. ReservedOK' /\ Below(next)'
  <2>1. next \in Nat
    BY <1>1, Before
  <2>2. next' \in Nat /\ next <= next'
    BY <1>2, <2>1
  <2> QED BY <1>1, <1>2, <2>1, <2>2, Before, SameReservations
<1>4. Store(next, allocations, userHandles, content')
  <2>1. DOMAIN content' = DOMAIN content
    BY <1>2
  <2>2. \A ph \in DOMAIN content : content[ph] \in Values \cup {Junk}
    BY <1>1, Before DEF Store
  <2>3. \A ph \in DOMAIN content : content'[ph] \in Values \cup {Junk}
    BY <1>2, <2>2
  <2> QED BY <1>1, <2>1, <2>3, Before DEF Store
<1>5. Store(next', allocations', userHandles', content')
  BY <1>2, <1>4
<1>6. ~orphaned' => Backed(allocations', userHandles')
  BY <1>1, <1>2, Before
<1> QED BY <1>1, <1>2, <1>3, <1>5, <1>6, ClientStep, Before

-----------------------------------------------------------------------------
(* Checkpoint and restore                                                  *)

(* The image has, under the key of a segment, what is read there: no other *)
(* segment has the same key.                                               *)
LEMMA DumpedData ==
  ASSUME NEW where, NEW segments, SegmentMap(segments), NEW p \in DOMAIN segments
  PROVE  DataAt(segments, where)[DataKey(where, segments, p)]
           = content[allocations[p].phys]
<1> DEFINE key(q) == DataKey(where, segments, q)
           at(k) == CHOOSE q \in DOMAIN segments : key(q) = k
<1>1. \A q, r \in DOMAIN segments : key(q) = key(r) => q = r
  BY KeysDiffer
<1>2. DataAt(segments, where)
        = [k \in {key(q) : q \in DOMAIN segments} |-> content[allocations[at(k)].phys]]
  BY DEF DataAt
<1> HIDE DEF key
<1>3. at(key(p)) \in DOMAIN segments /\ key(at(key(p))) = key(p)
  OBVIOUS
<1>4. at(key(p)) = p
  BY <1>1, <1>3
<1> HIDE DEF at
<1>5. DataAt(segments, where)[key(p)] = content[allocations[at(key(p))].phys]
  BY <1>2
<1> QED BY <1>4, <1>5 DEF key

(* A dump leaves an image of the saved state.                              *)
LEMMA DumpKeeps ==
  ASSUME MemoryInv, NEW where, Dump(where)
  PROVE  MemoryInv'
<1> DEFINE segments == CheckpointMeta.segments
<1>1. Running
  BY DEF Dump
<1>2. /\ phase' = "dumped" /\ next' = next /\ allocations' = allocations
      /\ userHandles' = userHandles /\ content' = content
      /\ reserved' = reserved /\ orphaned' = orphaned
  BY DEF Dump, managerVars, clientVars
<1>3. /\ image'.where = where /\ image'.meta = CheckpointMeta
      /\ image'.data = DataAt(segments, where)
      /\ saved'.next = next /\ saved'.allocations = allocations
      /\ saved'.userHandles = userHandles /\ saved'.content = content
  BY DEF Dump
<1>4. /\ CheckpointMeta.next = next
      /\ segments = [p \in DOMAIN allocations |-> [size |-> allocations[p].size,
                                                   proxy |-> allocations[p].proxy]]
      /\ CheckpointMeta.handles = [x \in DOMAIN userHandles |-> userHandles[x].size]
  BY DEF CheckpointMeta
<1> HIDE DEF segments
<1>5. SegmentMap(segments)
  <2>1. RangeLen \in Nat /\ next \in 0..RangeLen
    BY <1>1, Before, Constants
  <2>2. DOMAIN allocations \subseteq 0..(next - 1)
    BY <1>1, Before DEF Store
  <2>3. \A p \in DOMAIN allocations : allocations[p].size \in Nat \ {0}
    <3>1. \A p \in DOMAIN allocations : allocations[p].size \in 1..RangeLen
      BY <1>1, Before, Fields DEF Store
    <3> QED BY <2>1, <3>1
  <2>4. DOMAIN segments = DOMAIN allocations
    BY <1>4
  <2>5. \A p \in DOMAIN segments : segments[p].size \in Nat \ {0}
    BY <1>4, <2>3
  <2>6. DOMAIN segments \subseteq 0..(RangeLen - 1)
    BY <2>1, <2>2, <2>4
  <2> QED BY <2>5, <2>6 DEF SegmentMap
<1>6. \A p \in DOMAIN allocations :
        image'.data[DataKey(where, segments, p)] = content[allocations[p].phys]
  <2>1. DOMAIN segments = DOMAIN allocations
    BY <1>4
  <2> QED BY <1>3, <1>5, <2>1, DumpedData
<1>7. /\ Store(saved'.next, saved'.allocations, saved'.userHandles, saved'.content)
      /\ ~orphaned' => Backed(saved'.allocations, saved'.userHandles)
  BY <1>1, <1>2, <1>3, Before
<1>8. ReservedOK' /\ Below(next)'
  <2>1. next \in Nat
    BY <1>1, Before
  <2>2. next' \in Nat /\ next <= next'
    BY <1>2, <2>1
  <2> QED BY <1>1, <1>2, <2>1, <2>2, Before, SameReservations
<1>9. Below(saved.next)'
  BY <1>2, <1>3, <1>8 DEF Below, RoundUp
<1>10. /\ image'.meta.next = saved'.next
       /\ image'.meta.segments = segments
       /\ image'.meta.segments =
            [p \in DOMAIN saved'.allocations |-> [size |-> saved'.allocations[p].size,
                                                  proxy |-> saved'.allocations[p].proxy]]
       /\ image'.meta.handles =
            [x \in DOMAIN saved'.userHandles |-> saved'.userHandles[x].size]
  BY <1>3, <1>4 DEF segments
<1>11. \A p \in DOMAIN saved'.allocations :
         image'.data[DataKey(image'.where, image'.meta.segments, p)]
           = saved'.content[saved'.allocations[p].phys]
  BY <1>3, <1>6, <1>10
<1>12. Imaged'
  BY <1>7, <1>9, <1>10, <1>11 DEF Imaged
<1>13. /\ Store(next', allocations', userHandles', content')
       /\ orphaned' \in BOOLEAN /\ (~orphaned' => Backed(allocations', userHandles'))
  BY <1>1, <1>2, Before
<1>14. RestoreFaithful'
  BY <1>2 DEF RestoreFaithful
<1> QED BY <1>2, <1>8, <1>12, <1>13, <1>14 DEF MemoryInv, Phases

(* A dump that fails leaves the manager as it was.                         *)
LEMMA DumpFailsKeeps ==
  ASSUME MemoryInv, DumpFails
  PROVE  MemoryInv'
<1>1. Running
  BY DEF DumpFails
<1>2. /\ phase' = "dumpFailed" /\ next' = next /\ allocations' = allocations
      /\ userHandles' = userHandles /\ content' = content
      /\ reserved' = reserved /\ orphaned' = orphaned
  BY DEF DumpFails, managerVars, clientVars
<1>3. ReservedOK' /\ ~Running'
  BY <1>1, <1>2, Before DEF ReservedOK, Interval, Running
<1>4. /\ Store(next', allocations', userHandles', content')
      /\ orphaned' \in BOOLEAN /\ (~orphaned' => Backed(allocations', userHandles'))
  BY <1>1, <1>2, Before
<1>5. RestoreFaithful'
  BY <1>2 DEF RestoreFaithful
<1> QED BY <1>2, <1>3, <1>4, <1>5 DEF MemoryInv, Phases

(* A process that has just started.                                        *)
LEMMA EmptyStore ==
  Store(0, <<>>, <<>>, <<>>) /\ Backed(<<>>, <<>>)
<1>1. DOMAIN <<>> = {}
  OBVIOUS
<1>2. PhysOf(<<>>, <<>>) = {}
  BY <1>1 DEF PhysOf
<1>3. Distinct(<<>>, <<>>)
  BY <1>1 DEF Distinct
<1>4. 0 \in 0..RangeLen
  BY Constants
<1>5. Store(0, <<>>, <<>>, <<>>)
  BY <1>1, <1>2, <1>3, <1>4 DEF Store
<1> QED BY <1>1, <1>5 DEF Backed

(* A reset leaves the image and empties the manager.                       *)
LEMMA ResetKeeps ==
  ASSUME MemoryInv, Reset
  PROVE  MemoryInv'
<1>1. /\ phase = "dumped" /\ phase' = "fresh" /\ next' = 0 /\ allocations' = <<>>
      /\ userHandles' = <<>> /\ content' = <<>> /\ image' = image /\ saved' = saved
      /\ reserved' = reserved /\ orphaned' = orphaned
  BY DEF Reset, clientVars
<1>2. Imaged /\ ReservedOK /\ orphaned \in BOOLEAN
  BY <1>1 DEF MemoryInv
<1>3. Imaged'
  BY <1>1, <1>2 DEF Imaged, Below, RoundUp
<1>4. ReservedOK' /\ ~Running'
  BY <1>1, <1>2 DEF ReservedOK, Interval, Running
<1>5. /\ Store(next', allocations', userHandles', content')
      /\ Backed(allocations', userHandles')
  BY <1>1, EmptyStore
<1>6. RestoreFaithful'
  BY <1>1 DEF RestoreFaithful
<1>7. DOMAIN allocations' = {}
  BY <1>1
<1> QED BY <1>1, <1>2, <1>3, <1>4, <1>5, <1>6, <1>7 DEF MemoryInv, Phases

(* The physical objects that a restore gives to the handles and segments   *)
(* of the image: new ones, and no more than there are.                     *)
LEMMA RestoredMemory ==
  ASSUME Imaged, HandlesPresent,
         NEW a, a = saved.allocations, NEW h, h = saved.userHandles,
         NEW k, k = RestoredHandles(image.meta.handles),
         NEW b, b = RestoredSegments(image.meta.segments, k)
  PROVE  /\ DOMAIN k = DOMAIN h /\ DOMAIN b = DOMAIN a
         /\ \A x \in DOMAIN h : k[x] \in UserHandle /\ k[x].size = h[x].size
         /\ \A p \in DOMAIN a : /\ b[p] \in Segment
                                /\ b[p].size = a[p].size /\ b[p].proxy = a[p].proxy
         /\ Distinct(b, k) /\ Backed(b, k)
<1> DEFINE own == {p \in DOMAIN a : a[p].proxy = Owned}
           N == Cardinality(DOMAIN h)
<1>0. NPhys \in Nat /\ MaxProxy \in Nat /\ RangeLen \in Nat
  BY Constants
<1>1. /\ Store(saved.next, a, h, saved.content)
      /\ image.meta.segments =
           [p \in DOMAIN a |-> [size |-> a[p].size, proxy |-> a[p].proxy]]
      /\ image.meta.handles = [x \in DOMAIN h |-> h[x].size]
  BY DEF Imaged
<1>2. /\ saved.next \in 0..RangeLen /\ DOMAIN a \subseteq 0..(saved.next - 1)
      /\ \A p \in DOMAIN a : a[p] \in Segment
      /\ DOMAIN h \subseteq 1..MaxProxy /\ \A x \in DOMAIN h : h[x] \in UserHandle
  BY <1>1 DEF Store
<1>3. IsFiniteSet(DOMAIN h) /\ IsFiniteSet(own) /\ N + Cardinality(own) <= NPhys
  BY <1>1, EnoughMemory
<1>4. DOMAIN h \subseteq Nat /\ own \subseteq Nat
  <2>1. DOMAIN a \subseteq Nat
    BY <1>0, <1>2
  <2> QED BY <1>0, <1>2, <2>1
<1>5. /\ N \in Nat /\ \A x \in DOMAIN h : Rank(DOMAIN h, x) \in 1..N
      /\ \A x, y \in DOMAIN h : Rank(DOMAIN h, x) = Rank(DOMAIN h, y) => x = y
  BY <1>3, <1>4, RankFacts
<1>6. /\ Cardinality(own) \in Nat
      /\ \A p \in own : Rank(own, p) \in 1..Cardinality(own)
      /\ \A p, q \in own : Rank(own, p) = Rank(own, q) => p = q
  BY <1>3, <1>4, RankFacts
<1>7. DOMAIN image.meta.segments = DOMAIN a /\ DOMAIN image.meta.handles = DOMAIN h
  BY <1>1
<1>8. \A p \in DOMAIN a : /\ image.meta.segments[p].size = a[p].size
                          /\ image.meta.segments[p].proxy = a[p].proxy
  BY <1>1
<1>9. \A x \in DOMAIN h : image.meta.handles[x] = h[x].size
  BY <1>1
<1>10. own = {p \in DOMAIN image.meta.segments : image.meta.segments[p].proxy = Owned}
  BY <1>7, <1>8
<1> HIDE DEF own, N
<1>11. /\ DOMAIN k = DOMAIN h
       /\ \A x \in DOMAIN h : k[x] = [size |-> h[x].size, phys |-> Rank(DOMAIN h, x)]
  BY <1>7, <1>9 DEF RestoredHandles
<1>12. /\ DOMAIN b = DOMAIN a
       /\ \A p \in DOMAIN a :
            b[p] = [size |-> a[p].size, proxy |-> a[p].proxy,
                    phys |-> IF p \in own THEN N + Rank(own, p) ELSE k[a[p].proxy].phys,
                    access |-> TRUE]
  <2>1. b = [p \in DOMAIN image.meta.segments |->
               [size |-> image.meta.segments[p].size,
                proxy |-> image.meta.segments[p].proxy,
                phys |-> IF p \in own THEN Cardinality(DOMAIN k) + Rank(own, p)
                         ELSE k[image.meta.segments[p].proxy].phys,
                access |-> TRUE]]
    BY <1>10 DEF RestoredSegments
  <2>2. Cardinality(DOMAIN k) = N
    BY <1>11 DEF N
  <2> QED BY <1>7, <1>8, <2>1, <2>2
<1>13. \A x \in DOMAIN h : k[x].size = h[x].size /\ k[x].phys = Rank(DOMAIN h, x)
  <2> SUFFICES ASSUME NEW x \in DOMAIN h
               PROVE  k[x].size = h[x].size /\ k[x].phys = Rank(DOMAIN h, x)
    OBVIOUS
  <2>1. k[x] = [size |-> h[x].size, phys |-> Rank(DOMAIN h, x)]
    BY <1>11
  <2> QED BY <2>1
<1>14. \A p \in DOMAIN a : /\ b[p].size = a[p].size /\ b[p].proxy = a[p].proxy
                           /\ p \in own => b[p].phys = N + Rank(own, p)
                           /\ p \notin own => b[p].phys = k[a[p].proxy].phys
  <2> SUFFICES ASSUME NEW p \in DOMAIN a
               PROVE  /\ b[p].size = a[p].size /\ b[p].proxy = a[p].proxy
                      /\ p \in own => b[p].phys = N + Rank(own, p)
                      /\ p \notin own => b[p].phys = k[a[p].proxy].phys
    OBVIOUS
  <2>1. b[p] = [size |-> a[p].size, proxy |-> a[p].proxy,
                phys |-> IF p \in own THEN N + Rank(own, p) ELSE k[a[p].proxy].phys,
                access |-> TRUE]
    BY <1>12
  <2> QED BY <2>1
<1>15. \A p \in DOMAIN a : p \in own <=> a[p].proxy = Owned
  BY DEF own
<1>16. \A p \in DOMAIN a : p \notin own => a[p].proxy \in DOMAIN h
  BY <1>7, <1>8, <1>15 DEF HandlesPresent
<1>17. \A x \in DOMAIN h : k[x].phys \in 1..N
  BY <1>5, <1>13
<1>18. \A p \in own : b[p].phys \in (N + 1)..NPhys
  <2> SUFFICES ASSUME NEW p \in own PROVE b[p].phys \in (N + 1)..NPhys
    OBVIOUS
  <2>1. p \in DOMAIN a
    BY DEF own
  <2>2. b[p].phys = N + Rank(own, p) /\ Rank(own, p) \in 1..Cardinality(own)
    BY <1>6, <1>14, <2>1
  <2> QED BY <1>0, <1>3, <1>5, <1>6, <2>2
<1>19. N <= NPhys
  BY <1>0, <1>3, <1>5, <1>6
<1>20. \A x \in DOMAIN h : k[x].phys \in 1..NPhys
  BY <1>0, <1>5, <1>17, <1>19
<1>21. \A p \in DOMAIN a : b[p].phys \in 1..NPhys
  <2> SUFFICES ASSUME NEW p \in DOMAIN a PROVE b[p].phys \in 1..NPhys
    OBVIOUS
  <2>1. CASE p \in own
    BY <1>0, <1>5, <1>18, <2>1
  <2>2. CASE p \notin own
    BY <1>14, <1>16, <1>20, <2>2
  <2> QED BY <2>1, <2>2
<1>22. \A x \in DOMAIN h : k[x] \in UserHandle
  <2>1. \A x \in DOMAIN h : h[x].size \in HandleSizes
    BY <1>2, Fields
  <2> SUFFICES ASSUME NEW x \in DOMAIN h PROVE k[x] \in UserHandle
    OBVIOUS
  <2>2. k[x] = [size |-> h[x].size, phys |-> Rank(DOMAIN h, x)]
    BY <1>11
  <2>3. Rank(DOMAIN h, x) \in 1..NPhys /\ h[x].size \in HandleSizes
    BY <1>13, <1>20, <2>1
  <2> QED BY <2>2, <2>3 DEF UserHandle
<1>23. \A p \in DOMAIN a : b[p] \in Segment
  <2> SUFFICES ASSUME NEW p \in DOMAIN a PROVE b[p] \in Segment
    OBVIOUS
  <2>1. PICK ph : b[p] = [size |-> a[p].size, proxy |-> a[p].proxy, phys |-> ph,
                          access |-> TRUE]
    BY <1>12
  <2>2. ph \in 1..NPhys
    BY <1>21, <2>1
  <2>3. a[p].size \in 1..RangeLen /\ a[p].proxy \in Nat
    BY <1>2, Fields
  <2> QED BY <2>1, <2>2, <2>3 DEF Segment
<1>24. Distinct(b, k)
  <2>1. \A x, y \in DOMAIN k : k[x].phys = k[y].phys => x = y
    BY <1>5, <1>11, <1>13
  <2>2. ASSUME NEW p \in DOMAIN b, b[p].proxy = Owned
        PROVE  /\ \A x \in DOMAIN k : k[x].phys # b[p].phys
               /\ \A q \in DOMAIN b : b[q].phys = b[p].phys => q = p
    <3>1. p \in DOMAIN a /\ p \in own
      BY <1>12, <1>14, <1>15, <2>2
    <3>2. b[p].phys \in (N + 1)..NPhys
      BY <1>18, <3>1
    <3>3. \A x \in DOMAIN k : k[x].phys # b[p].phys
      <4> SUFFICES ASSUME NEW x \in DOMAIN k PROVE k[x].phys # b[p].phys
        OBVIOUS
      <4>1. k[x].phys \in 1..N
        BY <1>11, <1>17
      <4> QED BY <1>0, <1>5, <3>2, <4>1
    <3>4. ASSUME NEW q \in DOMAIN b, b[q].phys = b[p].phys
          PROVE  q = p
      <4>1. q \in DOMAIN a
        BY <1>12
      <4>2. CASE q \in own
        <5>1. b[q].phys = N + Rank(own, q) /\ b[p].phys = N + Rank(own, p)
          BY <1>14, <3>1, <4>1, <4>2
        <5>2. Rank(own, q) \in 1..Cardinality(own) /\ Rank(own, p) \in 1..Cardinality(own)
          BY <1>6, <3>1, <4>2
        <5>3. Rank(own, q) = Rank(own, p)
          <6> DEFINE i == Rank(own, q)
                     j == Rank(own, p)
          <6>1. N \in Nat /\ i \in Int /\ j \in Int
            BY <1>5, <1>6, <5>2
          <6>2. N + i = N + j
            BY <3>4, <5>1
          <6> HIDE DEF i, j
          <6>3. i = j
            BY <6>1, <6>2
          <6> QED BY <6>3 DEF i, j
        <5> QED BY <1>6, <3>1, <4>2, <5>3
      <4>3. CASE q \notin own
        <5>1. b[q].phys = k[a[q].proxy].phys /\ a[q].proxy \in DOMAIN h
          BY <1>14, <1>16, <4>1, <4>3
        <5> QED BY <1>11, <3>3, <3>4, <5>1
      <4> QED BY <4>2, <4>3
    <3> QED BY <3>3, <3>4
  <2> QED BY <2>1, <2>2 DEF Distinct
<1>25. Backed(b, k)
  BY <1>11, <1>12, <1>14, <1>15, <1>16 DEF Backed
<1> QED BY <1>11, <1>12, <1>13, <1>14, <1>22, <1>23, <1>24, <1>25

(* The content that a restore gives to them.  Segments that share a        *)
(* physical object shared one in the saved state, so it does not matter    *)
(* which of them is copied last.                                           *)
LEMMA RestoredView ==
  ASSUME Imaged, HandlesPresent,
         NEW a, a = saved.allocations, NEW h, h = saved.userHandles,
         NEW k, k = RestoredHandles(image.meta.handles),
         NEW b, b = RestoredSegments(image.meta.segments, k),
         NEW d, d = RestoredContent(b, k)
  PROVE  /\ DOMAIN d = PhysOf(b, k) /\ \A ph \in DOMAIN d : d[ph] \in Values \cup {Junk}
         /\ Backed(a, h) => SameView(b, k, d, a, h, saved.content)
<1> DEFINE c == saved.content
           mapped(ph) == {p \in DOMAIN b : b[p].phys = ph}
           last(ph) == Max(mapped(ph))
<1>1. /\ DOMAIN k = DOMAIN h /\ DOMAIN b = DOMAIN a
      /\ \A x \in DOMAIN h : k[x].size = h[x].size
      /\ \A p \in DOMAIN a : b[p].size = a[p].size /\ b[p].proxy = a[p].proxy
      /\ Distinct(b, k) /\ Backed(b, k)
  BY RestoredMemory
<1>2. /\ Store(saved.next, a, h, c)
      /\ \A p \in DOMAIN a :
           image.data[DataKey(image.where, image.meta.segments, p)] = c[a[p].phys]
  BY DEF Imaged
<1>3. DOMAIN b \subseteq 0..RangeLen /\ RangeLen \in Nat
  BY <1>1, <1>2, Constants DEF Store
<1>4. \A p \in DOMAIN a : c[a[p].phys] \in Values \cup {Junk}
  BY <1>2 DEF Store, PhysOf
<1>5. d = [ph \in PhysOf(b, k) |->
             IF mapped(ph) = {} THEN Junk
             ELSE image.data[DataKey(image.where, image.meta.segments, last(ph))]]
  BY DEF RestoredContent, PhysOf
<1>6. ASSUME NEW ph, mapped(ph) # {}
      PROVE  last(ph) \in DOMAIN a /\ b[last(ph)].phys = ph
  <2>1. mapped(ph) \subseteq 0..RangeLen
    BY <1>3
  <2>2. last(ph) \in mapped(ph)
    BY <1>3, <1>6, <2>1, Largest
  <2> HIDE DEF last
  <2> QED BY <1>1, <2>2
<1>7. \A p \in DOMAIN a : mapped(b[p].phys) # {}
  BY <1>1
<1> HIDE DEF c, mapped, last
<1>8. DOMAIN d = PhysOf(b, k)
  BY <1>5
<1>9. ASSUME NEW ph \in PhysOf(b, k)
      PROVE  d[ph] = IF mapped(ph) = {} THEN Junk ELSE c[a[last(ph)].phys]
  BY <1>2, <1>5, <1>6
<1>10. \A ph \in DOMAIN d : d[ph] \in Values \cup {Junk}
  BY <1>4, <1>6, <1>8, <1>9
<1>11. ASSUME Backed(a, h) PROVE SameView(b, k, d, a, h, c)
  <2>1. \A p, q \in DOMAIN a : b[p].phys = b[q].phys <=> a[p].phys = a[q].phys
    <3> SUFFICES ASSUME NEW p \in DOMAIN a, NEW q \in DOMAIN a
                 PROVE  b[p].phys = b[q].phys <=> a[p].phys = a[q].phys
      OBVIOUS
    <3>0. Distinct(a, h)
      BY <1>2 DEF Store
    <3>1. CASE a[p].proxy = Owned
      BY <1>1, <3>0, <3>1 DEF Distinct
    <3>2. CASE a[q].proxy = Owned
      BY <1>1, <3>0, <3>2 DEF Distinct
    <3>3. CASE a[p].proxy # Owned /\ a[q].proxy # Owned
      <4> DEFINE x == a[p].proxy
                 y == a[q].proxy
      <4>1. /\ x \in DOMAIN h /\ h[x].phys = a[p].phys
            /\ y \in DOMAIN h /\ h[y].phys = a[q].phys
        BY <1>11, <3>3 DEF Backed
      <4>2. k[x].phys = b[p].phys /\ k[y].phys = b[q].phys
        BY <1>1, <3>3 DEF Backed
      <4>3. h[x].phys = h[y].phys => x = y
        BY <3>0, <4>1 DEF Distinct
      <4>4. k[x].phys = k[y].phys => x = y
        BY <1>1, <4>1 DEF Distinct
      <4> HIDE DEF x, y
      <4> QED BY <4>1, <4>2, <4>3, <4>4
    <3> QED BY <3>1, <3>2, <3>3
  <2>2. \A x \in DOMAIN h, p \in DOMAIN a :
          b[p].phys = k[x].phys <=> a[p].phys = h[x].phys
    <3> SUFFICES ASSUME NEW x \in DOMAIN h, NEW p \in DOMAIN a
                 PROVE  b[p].phys = k[x].phys <=> a[p].phys = h[x].phys
      OBVIOUS
    <3>0. Distinct(a, h)
      BY <1>2 DEF Store
    <3>1. CASE a[p].proxy = Owned
      BY <1>1, <3>0, <3>1 DEF Distinct
    <3>2. CASE a[p].proxy # Owned
      <4> DEFINE y == a[p].proxy
      <4>1. y \in DOMAIN h /\ h[y].phys = a[p].phys
        BY <1>11, <3>2 DEF Backed
      <4>2. k[y].phys = b[p].phys
        BY <1>1, <3>2 DEF Backed
      <4>3. h[x].phys = h[y].phys => x = y
        BY <3>0, <4>1 DEF Distinct
      <4>4. k[x].phys = k[y].phys => x = y
        BY <1>1, <4>1 DEF Distinct
      <4> HIDE DEF y
      <4> QED BY <4>1, <4>2, <4>3, <4>4
    <3> QED BY <3>1, <3>2
  <2>3. ASSUME NEW p \in DOMAIN a PROVE d[b[p].phys] = c[a[p].phys]
    <3> DEFINE ph == b[p].phys
    <3>1. mapped(ph) # {}
      BY <1>7
    <3>2. last(ph) \in DOMAIN a /\ b[last(ph)].phys = ph
      BY <1>6, <3>1
    <3>3. ph \in PhysOf(b, k)
      BY <1>1 DEF PhysOf
    <3>4. d[ph] = c[a[last(ph)].phys]
      BY <1>9, <3>1, <3>3
    <3>5. a[last(ph)].phys = a[p].phys
      BY <2>1, <3>2
    <3> QED BY <3>4, <3>5
  <2> QED BY <1>1, <2>1, <2>2, <2>3 DEF SameView
<1> QED BY <1>8, <1>10, <1>11 DEF c

(* A restore gives the client back what was saved.                         *)
LEMMA RestoreKeeps ==
  ASSUME MemoryInv, Restore
  PROVE  MemoryInv'
<1> DEFINE a == saved.allocations
           h == saved.userHandles
           k == userHandles'
           b == allocations'
           d == content'
<1>1. /\ phase = "fresh" /\ HandlesPresent /\ next' = RestoredNext
      /\ k = RestoredHandles(image.meta.handles)
      /\ b = RestoredSegments(image.meta.segments, k)
      /\ d = RestoredContent(b, k)
      /\ phase' = "restored" /\ image' = image /\ saved' = saved
      /\ reserved' = reserved /\ orphaned' = orphaned
  BY DEF Restore, clientVars
<1>2. Imaged /\ ReservedOK /\ orphaned \in BOOLEAN
  BY <1>1 DEF MemoryInv
<1> HIDE DEF k, b, d
<1>3. /\ DOMAIN k = DOMAIN h /\ DOMAIN b = DOMAIN a
      /\ \A x \in DOMAIN h : k[x] \in UserHandle
      /\ \A p \in DOMAIN a : b[p] \in Segment
      /\ Distinct(b, k) /\ Backed(b, k)
  BY <1>1, <1>2, RestoredMemory
<1>4. /\ DOMAIN d = PhysOf(b, k) /\ \A ph \in DOMAIN d : d[ph] \in Values \cup {Junk}
      /\ Backed(a, h) => SameView(b, k, d, a, h, saved.content)
  BY <1>1, <1>2, RestoredView
<1>5. /\ Store(saved.next, a, h, saved.content) /\ Below(saved.next)
      /\ ~orphaned => Backed(a, h)
      /\ image.meta.next = saved.next
  BY <1>2 DEF Imaged
<1>6. next' = saved.next
  BY <1>1, <1>5 DEF RestoredNext
<1> HIDE DEF a, h
<1>7. Store(next', b, k, d)
  BY <1>3, <1>4, <1>5, <1>6 DEF Store
<1>8. ReservedOK' /\ Below(next)'
  BY <1>1, <1>2, <1>5, <1>6 DEF ReservedOK, Interval, Below, RoundUp
<1>9. RestoreFaithful'
  <2>1. phase' = "restored" /\ saved' = saved /\ orphaned' = orphaned
    BY <1>1
  <2>2. ~orphaned' => SameView(allocations', userHandles', content',
                               saved'.allocations, saved'.userHandles, saved'.content)
    BY <1>4, <1>5, <2>1 DEF a, h, b, k, d
  <2> QED BY <2>1, <2>2 DEF RestoreFaithful
<1>10. /\ Store(next', allocations', userHandles', content')
       /\ Backed(allocations', userHandles')
  BY <1>3, <1>7 DEF b, k, d
<1> QED BY <1>1, <1>2, <1>8, <1>9, <1>10 DEF MemoryInv, Phases

(* A restore fails only for a client that is orphaned.                     *)
LEMMA RestoreFailsKeeps ==
  ASSUME MemoryInv, RestoreFails
  PROVE  MemoryInv'
<1>1. /\ phase = "fresh" /\ ~HandlesPresent /\ next' = RestoredNext
      /\ phase' = "restoreFailed" /\ allocations' = allocations
      /\ userHandles' = userHandles /\ content' = content
      /\ image' = image /\ saved' = saved
      /\ reserved' = reserved /\ orphaned' = orphaned
  BY DEF RestoreFails, clientVars
<1>2. /\ Imaged /\ ReservedOK /\ orphaned \in BOOLEAN
      /\ Store(next, allocations, userHandles, content)
  BY <1>1 DEF MemoryInv
<1>3. orphaned
  <2> SUFFICES ASSUME Backed(saved.allocations, saved.userHandles) PROVE FALSE
    BY <1>2 DEF Imaged
  <2> DEFINE a == saved.allocations
             h == saved.userHandles
  <2>1. /\ image.meta.segments =
             [p \in DOMAIN a |-> [size |-> a[p].size, proxy |-> a[p].proxy]]
        /\ image.meta.handles = [x \in DOMAIN h |-> h[x].size]
    BY <1>2 DEF Imaged
  <2>2. \A p \in DOMAIN a : a[p].proxy \in {Owned} \cup DOMAIN h
    BY DEF Backed
  <2> HIDE DEF a, h
  <2>3. DOMAIN image.meta.segments = DOMAIN a /\ DOMAIN image.meta.handles = DOMAIN h
    BY <2>1
  <2>4. \A p \in DOMAIN a : image.meta.segments[p].proxy = a[p].proxy
    BY <2>1
  <2>5. HandlesPresent
    BY <2>2, <2>3, <2>4 DEF HandlesPresent
  <2> QED BY <1>1, <2>5
<1>4. next' = saved.next
  BY <1>1, <1>2 DEF Imaged, RestoredNext
<1>5. ReservedOK' /\ ~Running'
  BY <1>1, <1>2 DEF ReservedOK, Interval, Running
<1>6. RestoreFaithful'
  BY <1>1, <1>3 DEF RestoreFaithful
<1>7. Store(next', allocations', userHandles', content')
  <2>1. saved.next \in 0..RangeLen
    BY <1>2 DEF Imaged, Store
  <2>2. DOMAIN allocations = {}
    BY <1>1 DEF MemoryInv
  <2> QED BY <1>1, <1>2, <1>4, <2>1, <2>2 DEF Store
<1> QED BY <1>1, <1>2, <1>3, <1>5, <1>6, <1>7 DEF MemoryInv, Phases

-----------------------------------------------------------------------------
(* The theorems                                                            *)

(* The initial state satisfies the invariant.                              *)
LEMMA InitMemory ==
  Init => MemoryInv
<1> SUFFICES ASSUME Init PROVE MemoryInv
  OBVIOUS
<1>1. /\ next = 0 /\ allocations = <<>> /\ userHandles = <<>> /\ content = <<>>
      /\ phase = "running" /\ reserved = {} /\ orphaned = FALSE
  BY DEF Init
<1>2. Store(next, allocations, userHandles, content) /\ Backed(allocations, userHandles)
  BY <1>1, EmptyStore
<1>3. ReservedOK /\ Below(next)
  BY <1>1 DEF ReservedOK, Below
<1>4. RestoreFaithful
  BY <1>1 DEF RestoreFaithful
<1> QED BY <1>1, <1>2, <1>3, <1>4 DEF MemoryInv, Phases

(* Every step keeps the invariant.                                         *)
LEMMA NextKeepsMemory ==
  MemoryInv /\ [Next]_vars => MemoryInv'
<1> SUFFICES ASSUME MemoryInv, [Next]_vars PROVE MemoryInv'
  OBVIOUS
<1>1. ASSUME NEW size \in AllocSizes,
             ReserveAddress(size) \/ Allocate(size) \/ AllocateFails(size)
      PROVE  MemoryInv'
  BY <1>1, ReserveAddressKeeps, AllocateKeeps, AllocateFailsKeeps
<1>2. ASSUME NEW size \in HandleSizes, CreateUserHandle(size) PROVE MemoryInv'
  BY <1>2, CreateUserHandleKeeps
<1>3. ASSUME NEW p \in 0..(RangeLen - 1),
             \/ Free(p) \/ SetAccess(p)
             \/ \E v \in Values : Write(p, v)
             \/ \E size \in HandleSizes :
                  \/ Unmap(p, size)
                  \/ \E proxy \in DOMAIN userHandles : MapUserHandle(p, size, proxy)
      PROVE  MemoryInv'
  <2>1. CASE Free(p)
    BY <2>1, FreeKeeps
  <2>2. CASE SetAccess(p)
    BY <2>2, SetAccessKeeps
  <2>3. ASSUME NEW v \in Values, Write(p, v) PROVE MemoryInv'
    BY <2>3, WriteKeeps
  <2>4. ASSUME NEW size \in HandleSizes, Unmap(p, size) PROVE MemoryInv'
    BY <2>4, UnmapKeeps
  <2>5. ASSUME NEW size \in HandleSizes, NEW proxy \in DOMAIN userHandles,
               MapUserHandle(p, size, proxy)
        PROVE  MemoryInv'
    BY <2>5, MapUserHandleKeeps
  <2> QED BY <1>3, <2>1, <2>2, <2>3, <2>4, <2>5
<1>4. ASSUME NEW proxy \in DOMAIN userHandles, ReleaseUserHandle(proxy) PROVE MemoryInv'
  BY <1>4, ReleaseUserHandleKeeps
<1>5. ASSUME NEW where \in {"disk", "slice"}, Dump(where) PROVE MemoryInv'
  BY <1>5, DumpKeeps
<1>6. CASE DumpFails
  BY <1>6, DumpFailsKeeps
<1>7. CASE Reset
  BY <1>7, ResetKeeps
<1>8. CASE Restore
  BY <1>8, RestoreKeeps
<1>9. CASE RestoreFails
  BY <1>9, RestoreFailsKeeps
<1>10. CASE UNCHANGED vars
  <2>1. /\ next' = next /\ allocations' = allocations /\ userHandles' = userHandles
        /\ content' = content /\ phase' = phase /\ image' = image /\ saved' = saved
        /\ reserved' = reserved /\ orphaned' = orphaned
    BY <1>10 DEF vars, managerVars, clientVars
  <2> QED BY <2>1 DEF MemoryInv, ReservedOK, Interval, Running, Below, RoundUp, Imaged,
                      RestoreFaithful
<1> QED BY <1>1, <1>2, <1>3, <1>4, <1>5, <1>6, <1>7, <1>8, <1>9, <1>10 DEF Next

(* The inductive invariant holds: no two user handles and no owned segment *)
(* share physical memory, segments lie below the next address, a pending   *)
(* image is that of the saved state.                                       *)
THEOREM MemoryInvariant == Spec => []MemoryInv
BY InitMemory, NextKeepsMemory, PTL DEF Spec

(* Every variable of the manager has its type: allocations stay inside the *)
(* reserved range and the GPU has content for exactly the live memory.     *)
THEOREM MemoryTypes == Spec => []TypeOK
<1>1. ASSUME MemoryInv PROVE TypeOK
  <2>1. Store(next, allocations, userHandles, content) /\ phase \in Phases /\ ReservedOK
    BY <1>1 DEF MemoryInv
  <2>2. /\ next \in 0..RangeLen /\ DOMAIN allocations \subseteq 0..(next - 1)
        /\ \A p \in DOMAIN allocations : allocations[p] \in Segment
        /\ DOMAIN userHandles \subseteq 1..MaxProxy
        /\ \A x \in DOMAIN userHandles : userHandles[x] \in UserHandle
        /\ DOMAIN content = PhysOf(allocations, userHandles)
        /\ \A ph \in DOMAIN content : content[ph] \in Values \cup {Junk}
    BY <2>1 DEF Store
  <2>3. RangeLen \in Nat /\ MaxProxy \in Nat
    BY Constants
  <2>4. DOMAIN allocations \subseteq 0..(RangeLen - 1)
    BY <2>2, <2>3
  <2>5. DOMAIN userHandles \subseteq Nat \ {Owned}
    BY <2>2, <2>3 DEF Owned
  <2>6. PhysOf(allocations, userHandles) = Live
    BY DEF PhysOf, Live
  <2>7. DOMAIN content = Live /\ \A ph \in Live : content[ph] \in Values \cup {Junk}
    BY <2>2, <2>6
  <2>8. phase \in {"running", "dumped", "fresh", "restored", "dumpFailed", "restoreFailed"}
    BY <2>1 DEF Phases
  <2>9. reserved \subseteq (0..RangeLen) \X AllocSizes
    BY <2>1 DEF ReservedOK
  <2> QED BY <2>2, <2>4, <2>5, <2>7, <2>8, <2>9 DEF TypeOK, Segment, UserHandle
<1> QED BY <1>1, MemoryInvariant, PTL

(* What memory::restore rebuilds, from disk or from a detach snapshot, is  *)
(* what the client had: addresses, sizes, contents and sharing; and it     *)
(* does not fail for a client that releases no handle that is mapped.      *)
THEOREM RestoresAreFaithful == Spec => []RestoreFaithful
<1>1. MemoryInv => RestoreFaithful
  BY DEF MemoryInv
<1> QED BY <1>1, MemoryInvariant, PTL

(* No address of cudaMalloc or cuMemAddressReserve is handed out twice,    *)
(* also not after a restore.                                               *)
THEOREM AddressesAreDisjoint == Spec => []ReservationsDisjoint
<1>1. ASSUME MemoryInv PROVE ReservationsDisjoint
  <2>1. \A r, s \in reserved :
          r # s => Interval(r[1], r[2]) \cap Interval(s[1], s[2]) = {}
    BY <1>1 DEF MemoryInv, ReservedOK
  <2>2. ASSUME Running, NEW r \in reserved PROVE r[1] + r[2] <= next
    <3>0. RangeLen \in Nat /\ AllocSizes \subseteq Nat \ {0} /\ next \in Nat
      BY <1>1, <2>2, Before, Constants
    <3>1. PICK u \in 0..RangeLen, v \in AllocSizes : r = <<u, v>>
      BY <1>1 DEF MemoryInv, ReservedOK
    <3>2. u \in Nat /\ v \in Nat \ {0} /\ r[1] = u /\ r[2] = v
      BY <3>0, <3>1
    <3>3. RoundUp(v) \in Nat /\ v <= RoundUp(v)
      BY <3>2, RoundUpFacts
    <3>4. u + RoundUp(v) <= next
      BY <1>1, <2>2, <3>2, Before DEF Below
    <3>5. u + v <= next
      BY <3>0, <3>2, <3>3, <3>4
    <3> QED BY <3>2, <3>5
  <2> QED BY <2>1, <2>2 DEF ReservationsDisjoint
<1> QED BY <1>1, MemoryInvariant, PTL

(* As long as no mapped handle is released, every borrowed segment's proxy *)
(* names the user handle whose memory is mapped there.                     *)
THEOREM BorrowedSegmentsAreBacked == Spec => []BorrowedBacked
<1>1. MemoryInv => BorrowedBacked
  BY DEF MemoryInv, Backed, BorrowedBacked
<1> QED BY <1>1, MemoryInvariant, PTL

=============================================================================
