----------------------------- MODULE TlsfProofs -----------------------------
(***************************************************************************)
(* Proofs about tlsf.c.  First the powers of two, which the provers know   *)
(* nothing about, and with them the size classes: mapping_insert sorts     *)
(* blocks by size, and every block in the class mapping_search starts      *)
(* from, or in a later one, is large enough.  Then what this means for a   *)
(* sound heap: a request is met by a block that is large enough and        *)
(* refused only when there is none, and what the users of an allocator     *)
(* that keeps HeapContract can rely on.                                    *)
(*                                                                         *)
(* The rest shows that the heap is always sound and keeps the contract:    *)
(* from the single words of memory over chains of blocks, lists and each   *)
(* function of tlsf.c up to the calls of the users.  See TlsfInvariant for *)
(* the invariant.                                                          *)
(***************************************************************************)
EXTENDS TlsfInvariant, WellFoundedInduction, FiniteSetTheorems, TLAPS

VARIABLES owned, held   \* of the contract: see HeapContract

Heap == INSTANCE HeapContract WITH Word <- W

(* A set of numbers has a least one; with it induction over Nat for a set. *)
LEMMA LeastOfNat ==
    ASSUME NEW S, S \subseteq Nat, S # {}
    PROVE  \E m \in S : \A n \in S : m <= n
<1> DEFINE R == {ss \in Nat \X Nat : ss[1] < ss[2]}
<1>1. IsWellFoundedOn(R, Nat) BY NatLessThanWellFounded, Zenon DEF OpToRel
<1>2. \E m \in S : \A n \in S : <<n, m>> \notin R BY <1>1, WFMin
<1>3. PICK m \in S : \A n \in S : <<n, m>> \notin R BY <1>2
<1>4. \A n \in S : m <= n
  <2> SUFFICES ASSUME NEW n \in S, ~ (m <= n) PROVE FALSE OBVIOUS
  <2>1. m \in Nat /\ n \in Nat BY <1>3
  <2>2. n < m BY <2>1
  <2>3. <<n, m>> \in R BY <2>1, <2>2
  <2> QED BY <1>3, <2>3
<1> QED BY <1>4

LEMMA SetInduction ==
    ASSUME NEW S, 0 \in S, \A n \in Nat : n \in S => n + 1 \in S
    PROVE  Nat \subseteq S
<1> DEFINE A == Nat \ S
<1>1. SUFFICES ASSUME A # {} PROVE FALSE OBVIOUS
<1>2. PICK m \in A : \A n \in A : m <= n BY <1>1, LeastOfNat
<1>3. m \in Nat /\ m # 0 /\ m \notin S BY <1>2
<1>4. m - 1 \in Nat /\ (m - 1) + 1 = m /\ ~ (m <= m - 1) BY <1>3
<1>5. m - 1 \in A BY <1>3, <1>4
<1> QED BY <1>2, <1>4, <1>5

(* g holds the powers of two up to the n-th.                               *)
Powers(g, n) ==
    /\ g \in [0 .. n -> Nat]
    /\ g[0] = 1
    /\ \A k \in 0 .. n - 1 : g[k + 1] = 2 * g[k]

(* Such a function exists for each n, and they agree with each other.      *)
LEMMA PowersExist == \A n \in Nat : \E g : Powers(g, n)
<1> DEFINE S == {n \in Nat : \E g : Powers(g, n)}
<1>1. 0 \in S
  <2>1. Powers([k \in 0 .. 0 |-> 1], 0) BY SMT DEF Powers
  <2> QED BY <2>1
<1>2. ASSUME NEW n \in Nat, n \in S PROVE n + 1 \in S
  <2>1. PICK g : Powers(g, n) BY <1>2
  <2> DEFINE f == [k \in 0 .. n + 1 |-> IF k = n + 1 THEN 2 * g[n] ELSE g[k]]
  <2>2. g[n] \in Nat BY <2>1 DEF Powers
  <2>3. f \in [0 .. n + 1 -> Nat]
    <3>1. ASSUME NEW k \in 0 .. n + 1 PROVE f[k] \in Nat
      <4>1. k # n + 1 => k \in 0 .. n BY SMT
      <4>2. k \in 0 .. n => g[k] \in Nat BY <2>1 DEF Powers
      <4>3. 2 * g[n] \in Nat BY <2>2
      <4> QED BY <4>1, <4>2, <4>3
    <3> QED BY <3>1
  <2>4. f[0] = 1
    <3>1. 0 \in 0 .. n + 1 /\ 0 # n + 1 BY SMT
    <3> QED BY <3>1, <2>1 DEF Powers
  <2>5. ASSUME NEW k \in 0 .. n PROVE f[k + 1] = 2 * f[k]
    <3>1. f[k] = g[k] BY SMT
    <3>2. CASE k = n
      <4>1. f[n + 1] = 2 * g[n] BY SMT
      <4> QED BY <3>1, <3>2, <4>1
    <3>3. CASE k # n
      <4>1. k \in 0 .. n - 1 /\ k + 1 \in 0 .. n BY <3>3
      <4>2. f[k + 1] = g[k + 1] BY <4>1
      <4> QED BY <3>1, <4>1, <4>2, <2>1 DEF Powers
    <3> QED BY <3>2, <3>3
  <2>6. (n + 1) - 1 = n /\ n + 1 \in Nat BY SMT
  <2>7. Powers(f, n + 1) BY <2>3, <2>4, <2>5, <2>6, Zenon DEF Powers
  <2> QED BY <2>6, <2>7
<1> HIDE DEF S
<1>3. Nat \subseteq S BY <1>1, <1>2, SetInduction
<1> QED BY <1>3 DEF S

LEMMA PowersAgree ==
    ASSUME NEW n \in Nat, NEW g, NEW h, Powers(g, n), Powers(h, n + 1)
    PROVE  \A k \in 0 .. n : g[k] = h[k]
<1> DEFINE S == {k \in Nat : k <= n => g[k] = h[k]}
<1>1. 0 \in S BY DEF Powers
<1>2. ASSUME NEW k \in Nat, k \in S PROVE k + 1 \in S
  <2> SUFFICES ASSUME k + 1 <= n PROVE g[k + 1] = h[k + 1] BY SMT
  <2>1. k \in 0 .. n - 1 /\ k \in 0 .. (n + 1) - 1 BY SMT
  <2>2. g[k] = h[k] BY <1>2
  <2> QED BY <2>1, <2>2 DEF Powers
<1> HIDE DEF S
<1>3. Nat \subseteq S BY <1>1, <1>2, SetInduction
<1> QED BY <1>3 DEF S

(* Pow2 satisfies the equations it is defined by.                          *)
LEMMA Pow2Def ==
    /\ Pow2[0] = 1
    /\ \A k \in Nat : Pow2[k] \in Nat /\ Pow2[k + 1] = 2 * Pow2[k]
<1> DEFINE G(n) == CHOOSE g : Powers(g, n)
           f == [n \in Nat |-> G(n)[n]]
<1>1. \A n \in Nat : Powers(G(n), n) BY PowersExist
<1>2. f[0] = 1 BY <1>1 DEF Powers
<1>3. ASSUME NEW n \in Nat PROVE f[n] \in Nat /\ f[n + 1] = 2 * f[n]
  <2> HIDE DEF G
  <2>1. n + 1 \in Nat /\ n \in 0 .. n /\ n \in 0 .. (n + 1) - 1 BY SMT
  <2>2. G(n)[n] = G(n + 1)[n] BY <1>1, <2>1, PowersAgree
  <2>3. G(n + 1)[n + 1] = 2 * G(n + 1)[n] BY <1>1, <2>1 DEF Powers
  <2>4. G(n)[n] \in Nat BY <1>1, <2>1 DEF Powers
  <2> QED BY <2>1, <2>2, <2>3, <2>4
<1> HIDE DEF f
<1>4. f = [k \in Nat |-> IF k = 0 THEN 1 ELSE 2 * f[k - 1]]
  <2>1. f = [k \in Nat |-> f[k]] BY DEF f
  <2>2. ASSUME NEW k \in Nat PROVE f[k] = IF k = 0 THEN 1 ELSE 2 * f[k - 1]
    <3>1. CASE k = 0 BY <1>2, <3>1
    <3>2. CASE k # 0
      <4>1. k - 1 \in Nat /\ (k - 1) + 1 = k BY <3>2
      <4> QED BY <1>3, <3>2, <4>1
    <3> QED BY <3>1, <3>2
  <2> QED BY <2>1, <2>2, Zenon
<1> DEFINE P == Pow2
<1>5. P = [k \in Nat |-> IF k = 0 THEN 1 ELSE 2 * P[k - 1]] BY <1>4, Zenon DEF Pow2
<1> HIDE DEF P
<1>6. P[0] = 1 /\ \A k \in Nat : P[k + 1] = 2 * P[k] BY <1>5
<1> DEFINE S == {k \in Nat : P[k] \in Nat}
<1>7. 0 \in S BY <1>6
<1>8. ASSUME NEW k \in Nat, k \in S PROVE k + 1 \in S BY <1>6, <1>8
<1> HIDE DEF S
<1>9. Nat \subseteq S BY <1>7, <1>8, SetInduction
<1> QED BY <1>6, <1>9 DEF S, P

(* Powers of two grow.                                                     *)
LEMMA Pow2Grows == \A k \in Nat : k < Pow2[k]
<1> DEFINE S == {k \in Nat : k < Pow2[k]}
<1>1. 0 \in S BY Pow2Def
<1>2. ASSUME NEW k \in Nat, k \in S PROVE k + 1 \in S BY <1>2, Pow2Def
<1> HIDE DEF S
<1>3. Nat \subseteq S BY <1>1, <1>2, SetInduction
<1> QED BY <1>3 DEF S

LEMMA Pow2Sum ==
    ASSUME NEW a \in Nat, NEW b \in Nat
    PROVE  Pow2[a + b] = Pow2[a] * Pow2[b]
<1> DEFINE S == {k \in Nat : Pow2[a + k] = Pow2[a] * Pow2[k]}
<1>1. 0 \in S
  <2>1. a + 0 = a BY SMT
  <2>2. Pow2[a] * 1 = Pow2[a] BY Pow2Def
  <2> QED BY <2>1, <2>2, Pow2Def
<1>2. ASSUME NEW k \in Nat, k \in S PROVE k + 1 \in S
  <2>1. a + (k + 1) = (a + k) + 1 /\ a + k \in Nat /\ k + 1 \in Nat BY SMT
  <2>2. Pow2[a] \in Nat /\ Pow2[k] \in Nat BY Pow2Def
  <2>3. Pow2[(a + k) + 1] = 2 * Pow2[a + k] /\ Pow2[k + 1] = 2 * Pow2[k] BY <2>1, Pow2Def
  <2>4. \A x, y \in Nat : 2 * (x * y) = x * (2 * y) BY SMT
  <2> QED BY <1>2, <2>1, <2>2, <2>3, <2>4
<1> HIDE DEF S
<1>3. Nat \subseteq S BY <1>1, <1>2, SetInduction
<1> QED BY <1>3 DEF S

LEMMA Pow2Mono ==
    ASSUME NEW a \in Nat, NEW b \in Nat, a <= b
    PROVE  Pow2[a] <= Pow2[b]
<1>1. b - a \in Nat /\ b = a + (b - a) BY SMT
<1>2. Pow2[b] = Pow2[a] * Pow2[b - a] BY <1>1, Pow2Sum
<1>3. Pow2[b - a] \in Nat \ {0} /\ Pow2[a] \in Nat BY <1>1, Pow2Def, Pow2Grows
<1>4. \A x \in Nat, y \in Nat \ {0} : x <= x * y BY SMT
<1> QED BY <1>2, <1>3, <1>4

(* Quotients.                                                              *)
LEMMA DivFacts ==
    ASSUME NEW x \in Nat, NEW d \in Nat \ {0}
    PROVE  /\ x \div d \in Nat
           /\ d * (x \div d) <= x
           /\ x < d * (x \div d) + d
BY SMT

(* tlsf_fls_sizet finds the highest bit of every number but 0.             *)
LEMMA Fls ==
    ASSUME NEW size \in Nat \ {0}
    PROVE  /\ tlsf_fls_sizet(size) \in Nat
           /\ Pow2[tlsf_fls_sizet(size)] <= size
           /\ size < Pow2[tlsf_fls_sizet(size) + 1]
<1> DEFINE S == {k \in Nat : size < Pow2[k] => \E j \in 0 .. size : Pow2[j] <= size /\ size < Pow2[j + 1]}
<1>1. 0 \in S BY Pow2Def
<1>2. ASSUME NEW k \in Nat, k \in S PROVE k + 1 \in S
  <2>1. CASE size < Pow2[k] BY <1>2, <2>1
  <2>2. CASE Pow2[k] <= size
    <3>1. k \in 0 .. size BY <2>2, Pow2Grows, Pow2Def
    <3> QED BY <3>1, <2>2
  <2> QED BY <2>1, <2>2, Pow2Def
<1> HIDE DEF S
<1>3. Nat \subseteq S BY <1>1, <1>2, SetInduction
<1>4. size \in S /\ size < Pow2[size] BY <1>3, Pow2Grows
<1>5. \E j \in 0 .. size : Pow2[j] <= size /\ size < Pow2[j + 1] BY <1>4 DEF S
<1>6. /\ tlsf_fls_sizet(size) \in 0 .. size
      /\ Pow2[tlsf_fls_sizet(size)] <= size
      /\ size < Pow2[tlsf_fls_sizet(size) + 1]
  BY <1>5, Zenon DEF tlsf_fls_sizet
<1> QED BY <1>6

-----------------------------------------------------------------------------
(* A larger number has no lower highest bit.                               *)
LEMMA FlsMono ==
    ASSUME NEW s \in Nat \ {0}, NEW t \in Nat \ {0}, s <= t
    PROVE  tlsf_fls_sizet(s) <= tlsf_fls_sizet(t)
<1> DEFINE a == tlsf_fls_sizet(s)
           b == tlsf_fls_sizet(t)
<1>1. a \in Nat /\ b \in Nat /\ Pow2[a] <= s /\ t < Pow2[b + 1] BY Fls
<1> HIDE DEF a, b
<1>2. CASE b < a
  <2>1. b + 1 \in Nat /\ b + 1 <= a BY <1>1, <1>2
  <2>2. Pow2[b + 1] <= Pow2[a] BY <1>1, <2>1, Pow2Mono
  <2> QED BY <1>1, <2>1, <2>2, Pow2Def
<1> QED BY <1>1, <1>2 DEF a, b

LEMMA DivMono ==
    ASSUME NEW s \in Nat, NEW t \in Nat, NEW d \in Nat \ {0}, s <= t
    PROVE  s \div d <= t \div d
<1> DEFINE a == s \div d
           b == t \div d
<1>1. a \in Nat /\ b \in Nat /\ d * a <= s /\ t < d * b + d BY DivFacts
<1> HIDE DEF a, b
<1>2. CASE b + 1 <= a
  <2>1. \A x, y, z \in Nat : y + 1 <= x => z * y + z <= z * x BY SMT
  <2>2. d * b + d <= d * a BY <1>1, <1>2, <2>1
  <2> QED BY <1>1, <2>2
<1> QED BY <1>1, <1>2 DEF a, b

LEMMA DivBelow ==
    ASSUME NEW s \in Nat, NEW d \in Nat \ {0}, NEW m \in Nat
    PROVE  /\ s < d * m => s \div d < m
           /\ d * m <= s => m <= s \div d
           /\ m <= s \div d => d * m <= s
<1> DEFINE a == s \div d
<1>1. a \in Nat /\ d * a <= s /\ s < d * a + d BY DivFacts
<1> HIDE DEF a
<1>2. \A x, y \in Nat : y <= x => d * y <= d * x BY SMT
<1>3. m <= a => d * m <= d * a BY <1>1, <1>2
<1>4. a + 1 <= m => d * (a + 1) <= d * m BY <1>1, <1>2
<1>5. d * (a + 1) = d * a + d BY <1>1
<1>6. d * m \in Nat /\ d * a \in Nat BY <1>1
<1> QED BY <1>1, <1>3, <1>4, <1>5, <1>6 DEF a

(* The constants of the allocator: small blocks have one class for each    *)
(* multiple of ALIGN_SIZE.                                                 *)
LEMMA ClassSizes ==
    /\ ALIGN_SIZE \in {4, 8}
    /\ SL_INDEX_COUNT \in Nat \ {0, 1}
    /\ SMALL_BLOCK_SIZE = ALIGN_SIZE * SL_INDEX_COUNT
    /\ SMALL_BLOCK_SIZE \in Nat \ {0}
    /\ SMALL_BLOCK_SIZE \div SL_INDEX_COUNT = ALIGN_SIZE
<1> USE TlsfConstants
<1>1. ALIGN_SIZE \in {4, 8}
  <2>1. Pow2[1] = 2 /\ Pow2[2] = 4 /\ Pow2[3] = 8
    <3>1. Pow2[0 + 1] = 2 * 1 BY Pow2Def
    <3>2. Pow2[1 + 1] = 2 * Pow2[1] /\ Pow2[2 + 1] = 2 * Pow2[2] BY Pow2Def
    <3> QED BY <3>1, <3>2
  <2>2. ALIGN_SIZE_LOG2 = 2 \/ ALIGN_SIZE_LOG2 = 3 BY SMT
  <2> QED BY <2>1, <2>2 DEF ALIGN_SIZE
<1>2. SL_INDEX_COUNT \in Nat \ {0, 1} BY Pow2Def, Pow2Grows DEF SL_INDEX_COUNT
<1>3. SMALL_BLOCK_SIZE = ALIGN_SIZE * SL_INDEX_COUNT
  <2>1. SL_INDEX_COUNT_LOG2 \in Nat /\ ALIGN_SIZE_LOG2 \in Nat BY SMT
  <2>2. SMALL_BLOCK_SIZE = SL_INDEX_COUNT * ALIGN_SIZE
    BY <2>1, Pow2Sum DEF SMALL_BLOCK_SIZE, FL_INDEX_SHIFT, ALIGN_SIZE, SL_INDEX_COUNT
  <2> QED BY <1>1, <1>2, <2>2
<1>4. SMALL_BLOCK_SIZE \in Nat \ {0} BY <1>1, <1>2, <1>3
<1>5. SMALL_BLOCK_SIZE \div SL_INDEX_COUNT = ALIGN_SIZE
  <2> DEFINE q == SMALL_BLOCK_SIZE \div SL_INDEX_COUNT
  <2>1. /\ SMALL_BLOCK_SIZE = SL_INDEX_COUNT * ALIGN_SIZE
        /\ SMALL_BLOCK_SIZE < SL_INDEX_COUNT * (ALIGN_SIZE + 1)
    BY <1>1, <1>2, <1>3
  <2>2. ALIGN_SIZE \in Nat /\ ALIGN_SIZE + 1 \in Nat /\ SL_INDEX_COUNT \in Nat \ {0} BY <1>1, <1>2
  <2>3. ALIGN_SIZE <= q BY <1>4, <2>1, <2>2, DivBelow
  <2>4. q < ALIGN_SIZE + 1 BY <1>4, <2>1, <2>2, DivBelow
  <2>5. q \in Nat BY <1>4, <2>2, DivFacts
  <2> QED BY <2>2, <2>3, <2>4, <2>5
<1> QED BY <1>1, <1>2, <1>3, <1>4, <1>5

Classes == [fl : Nat, sl : SL]

(* d is c, or comes behind c in the order in which lists are searched.     *)
NotBefore(d, c) == c.fl < d.fl \/ (c.fl = d.fl /\ c.sl <= d.sl)

(* How many sizes share a list when k is their highest bit.                *)
Part(k) == Pow2[k - SL_INDEX_COUNT_LOG2]

(* The classes of blocks that are not small, and of those that are.        *)
LEMMA LargeClass ==
    ASSUME NEW s \in Nat, s >= SMALL_BLOCK_SIZE
    PROVE  LET k == tlsf_fls_sizet(s) IN
           /\ k \in Nat /\ k >= FL_INDEX_SHIFT
           /\ Part(k) \in Nat \ {0}
           /\ Pow2[k] = Part(k) * SL_INDEX_COUNT
           /\ Pow2[k + 1] = Part(k) * (SL_INDEX_COUNT + SL_INDEX_COUNT)
           /\ s \div Part(k) \in SL_INDEX_COUNT .. 2 * SL_INDEX_COUNT - 1
           /\ mapping_insert(s) = [fl |-> k - (FL_INDEX_SHIFT - 1),
                                   sl |-> s \div Part(k) - SL_INDEX_COUNT]
           /\ mapping_insert(s).fl \in Nat \ {0} /\ mapping_insert(s).sl \in SL
<1> DEFINE k == tlsf_fls_sizet(s)
           d == Part(k)
<1>0. s \in Nat \ {0} BY ClassSizes
<1>a. k \in Nat /\ Pow2[k] <= s /\ s < Pow2[k + 1] BY <1>0, Fls
<1>b. FL_INDEX_SHIFT \in Nat /\ SL_INDEX_COUNT_LOG2 \in Nat
  BY TlsfConstants DEF FL_INDEX_SHIFT
<1>1. k >= FL_INDEX_SHIFT
  <2>1. CASE k < FL_INDEX_SHIFT
    <3>1. Pow2[k + 1] <= SMALL_BLOCK_SIZE
      <4>1. k + 1 \in Nat /\ k + 1 <= FL_INDEX_SHIFT BY <1>a, <1>b, <2>1
      <4> QED BY <1>b, <4>1, Pow2Mono DEF SMALL_BLOCK_SIZE
    <3>2. Pow2[k + 1] \in Nat BY <1>a, Pow2Def
    <3> QED BY <1>a, <3>1, <3>2, ClassSizes
  <2> QED BY <1>a, <1>b, <2>1
<1>2. k - SL_INDEX_COUNT_LOG2 \in Nat /\ k = (k - SL_INDEX_COUNT_LOG2) + SL_INDEX_COUNT_LOG2
  BY <1>a, <1>1, TlsfConstants DEF FL_INDEX_SHIFT
<1>3. d \in Nat \ {0}
  <2>1. \A j \in Nat : Pow2[j] \in Nat \ {0} BY Pow2Def, Pow2Grows
  <2> QED BY <1>2, <2>1 DEF Part
<1>4. Pow2[k] = d * SL_INDEX_COUNT BY <1>b, <1>2, Pow2Sum DEF Part, SL_INDEX_COUNT
<1>5. Pow2[k + 1] = d * (SL_INDEX_COUNT + SL_INDEX_COUNT)
  <2>1. Pow2[k + 1] = 2 * Pow2[k] BY <1>a, Pow2Def
  <2>2. \A x, y \in Nat : 2 * (x * y) = x * (y + y) BY SMT
  <2> QED BY <1>3, <1>4, <2>1, <2>2, ClassSizes
<1> HIDE DEF d, k
<1>6. s \div d \in SL_INDEX_COUNT .. 2 * SL_INDEX_COUNT - 1
  <2>1. SL_INDEX_COUNT + SL_INDEX_COUNT \in Nat /\ SL_INDEX_COUNT \in Nat BY ClassSizes
  <2>2. SL_INDEX_COUNT <= s \div d BY <1>3, <1>4, <1>a, <2>1, DivBelow
  <2>3. s \div d < SL_INDEX_COUNT + SL_INDEX_COUNT BY <1>3, <1>5, <1>a, <2>1, DivBelow
  <2>4. s \div d \in Nat BY <1>3, DivFacts
  <2> QED BY <2>1, <2>2, <2>3, <2>4
<1>7. mapping_insert(s) = [fl |-> k - (FL_INDEX_SHIFT - 1), sl |-> s \div d - SL_INDEX_COUNT]
  <2>1. ~(s < SMALL_BLOCK_SIZE) BY ClassSizes
  <2> QED BY <2>1, Zenon DEF mapping_insert, d, k, Part
<1>8. k - (FL_INDEX_SHIFT - 1) \in Nat \ {0} BY <1>a, <1>1, <1>b
<1>9. s \div d - SL_INDEX_COUNT \in SL BY <1>6, ClassSizes DEF SL
<1> QED BY <1>a, <1>1, <1>3, <1>4, <1>5, <1>6, <1>7, <1>8, <1>9 DEF k, d

LEMMA SmallClass ==
    ASSUME NEW s \in Nat, s < SMALL_BLOCK_SIZE
    PROVE  /\ mapping_insert(s) = [fl |-> 0, sl |-> s \div ALIGN_SIZE]
           /\ s \div ALIGN_SIZE \in SL
<1>1. s \div ALIGN_SIZE < SL_INDEX_COUNT BY ClassSizes, DivBelow
<1>2. s \div ALIGN_SIZE \in Nat BY ClassSizes, DivFacts
<1>3. mapping_insert(s) = [fl |-> 0, sl |-> s \div ALIGN_SIZE]
  BY ClassSizes, Zenon DEF mapping_insert
<1> QED BY <1>1, <1>2, <1>3, ClassSizes DEF SL

LEMMA InsertType ==
    ASSUME NEW s \in Nat
    PROVE  mapping_insert(s) \in Classes
<1>1. CASE s < SMALL_BLOCK_SIZE BY <1>1, SmallClass DEF Classes
<1>2. CASE s >= SMALL_BLOCK_SIZE
  <2> DEFINE c == mapping_insert(s)
  <2>1. c.fl \in Nat /\ c.sl \in SL BY <1>2, LargeClass
  <2>2. c = [fl |-> tlsf_fls_sizet(s) - (FL_INDEX_SHIFT - 1),
             sl |-> s \div Part(tlsf_fls_sizet(s)) - SL_INDEX_COUNT] BY <1>2, LargeClass
  <2> HIDE DEF c
  <2>3. c \in Classes BY <2>1, <2>2 DEF Classes
  <2> QED BY <2>3 DEF c
<1> QED BY <1>1, <1>2, ClassSizes

(* A larger block is never in an earlier class.                            *)
LEMMA InsertMono ==
    ASSUME NEW s \in Nat, NEW t \in Nat, s <= t
    PROVE  NotBefore(mapping_insert(t), mapping_insert(s))
<1>1. CASE t < SMALL_BLOCK_SIZE
  <2>1. s < SMALL_BLOCK_SIZE BY <1>1, ClassSizes
  <2>2. s \div ALIGN_SIZE <= t \div ALIGN_SIZE BY DivMono, ClassSizes
  <2> QED BY <1>1, <2>1, <2>2, SmallClass DEF NotBefore
<1>2. CASE s < SMALL_BLOCK_SIZE /\ t >= SMALL_BLOCK_SIZE
  <2>1. mapping_insert(s).fl = 0 BY <1>2, SmallClass
  <2>2. mapping_insert(t).fl \in Nat \ {0} BY <1>2, LargeClass
  <2> QED BY <2>1, <2>2 DEF NotBefore
<1>3. CASE s >= SMALL_BLOCK_SIZE
  <2> DEFINE j == tlsf_fls_sizet(s)
             k == tlsf_fls_sizet(t)
  <2>1. t >= SMALL_BLOCK_SIZE /\ s \in Nat \ {0} /\ t \in Nat \ {0} BY <1>3, ClassSizes
  <2>2. j <= k BY <2>1, FlsMono
  <2>3. /\ j \in Nat /\ mapping_insert(s) = [fl |-> j - (FL_INDEX_SHIFT - 1), sl |-> s \div Part(j) - SL_INDEX_COUNT]
        /\ Part(j) \in Nat \ {0}
        /\ s \div Part(j) \in Nat
    BY <1>3, LargeClass, ClassSizes
  <2>4. /\ k \in Nat /\ mapping_insert(t) = [fl |-> k - (FL_INDEX_SHIFT - 1), sl |-> t \div Part(k) - SL_INDEX_COUNT]
        /\ t \div Part(k) \in Nat
    BY <2>1, LargeClass, ClassSizes
  <2>5. FL_INDEX_SHIFT \in Nat BY TlsfConstants DEF FL_INDEX_SHIFT
  <2> HIDE DEF j, k
  <2>6. CASE j < k
    <3>1. j - (FL_INDEX_SHIFT - 1) < k - (FL_INDEX_SHIFT - 1) BY <2>3, <2>4, <2>5, <2>6
    <3> QED BY <3>1, <2>3, <2>4 DEF NotBefore
  <2>7. CASE j = k
    <3>1. s \div Part(j) <= t \div Part(j) BY <2>3, DivMono
    <3>2. s \div Part(j) - SL_INDEX_COUNT <= t \div Part(j) - SL_INDEX_COUNT
      BY <2>3, <2>4, <2>7, <3>1, ClassSizes
    <3> QED BY <3>2, <2>3, <2>4, <2>7 DEF NotBefore
  <2> QED BY <2>2, <2>3, <2>4, <2>6, <2>7
<1> QED BY <1>1, <1>2, <1>3, ClassSizes

LEMMA RoundType ==
    ASSUME NEW size \in Nat
    PROVE  SearchRound(size) \in Nat
<1>1. CASE size < SMALL_BLOCK_SIZE BY <1>1 DEF SearchRound
<1>2. CASE size >= SMALL_BLOCK_SIZE
  <2>1. Part(tlsf_fls_sizet(size)) \in Nat \ {0} BY <1>2, LargeClass
  <2>2. ~(size < SMALL_BLOCK_SIZE) BY <1>2, ClassSizes
  <2>3. SearchRound(size) = Part(tlsf_fls_sizet(size)) - 1 BY <2>2 DEF SearchRound, Part
  <2> QED BY <2>1, <2>3
<1> QED BY <1>1, <1>2, ClassSizes

(* What mapping_search rounds up to is late enough: every block of that    *)
(* class or of a later one satisfies the request ...                       *)
LEMMA SearchLargeEnough ==
    ASSUME NEW size \in Nat, size % ALIGN_SIZE = 0, NEW t \in Nat,
           NotBefore(mapping_insert(t), mapping_search(size))
    PROVE  size <= t
<1>1. CASE size < SMALL_BLOCK_SIZE
  <2>1. mapping_search(size) = mapping_insert(size)
    <3>1. SearchRound(size) = 0 BY <1>1 DEF SearchRound
    <3>2. size + 0 = size BY SMT
    <3> QED BY <3>1, <3>2 DEF mapping_search
  <2>2. mapping_insert(size) = [fl |-> 0, sl |-> size \div ALIGN_SIZE] BY <1>1, SmallClass
  <2>3. CASE t < SMALL_BLOCK_SIZE
    <3>1. mapping_insert(t) = [fl |-> 0, sl |-> t \div ALIGN_SIZE] BY <2>3, SmallClass
    <3>2. size \div ALIGN_SIZE <= t \div ALIGN_SIZE BY <2>1, <2>2, <3>1 DEF NotBefore
    <3>3. size \div ALIGN_SIZE \in Nat /\ ALIGN_SIZE * (size \div ALIGN_SIZE) = size
      <4>1. CASE ALIGN_SIZE = 4 BY <4>1
      <4>2. CASE ALIGN_SIZE = 8 BY <4>2
      <4> QED BY <4>1, <4>2, ClassSizes
    <3> QED BY <3>2, <3>3, DivBelow, ClassSizes
  <2> QED BY <1>1, <2>3, ClassSizes
<1>2. CASE size >= SMALL_BLOCK_SIZE
  <2> DEFINE k == tlsf_fls_sizet(size)
             d == Part(k)
             s == size + (d - 1)
             j == tlsf_fls_sizet(s)
             i == tlsf_fls_sizet(t)
  <2>1. /\ k \in Nat /\ d \in Nat \ {0}
        /\ SearchRound(size) = d - 1
    <3>1. k \in Nat /\ d \in Nat \ {0} BY <1>2, LargeClass
    <3>2. ~(size < SMALL_BLOCK_SIZE) BY <1>2, ClassSizes
    <3> QED BY <3>1, <3>2 DEF SearchRound, Part
  <2>2. s \in Nat /\ size <= s /\ s >= SMALL_BLOCK_SIZE /\ s = size + d - 1
    <3> HIDE DEF d
    <3> QED BY <1>2, <2>1, ClassSizes
  <2>3. mapping_search(size) = mapping_insert(s) BY <2>1 DEF mapping_search
  <2>a. size \in Nat \ {0} /\ s \in Nat \ {0}
    <3> HIDE DEF s
    <3> QED BY <1>2, <2>2, ClassSizes
  <2>4. size < Pow2[k + 1] /\ k <= j BY <2>a, <2>2, Fls, FlsMono
  <2> HIDE DEF d, k, s
  <2>5. /\ j \in Nat
        /\ mapping_insert(s) = [fl |-> j - (FL_INDEX_SHIFT - 1), sl |-> s \div Part(j) - SL_INDEX_COUNT]
        /\ mapping_insert(s).fl \in Nat \ {0}
        /\ s \div Part(j) \in Nat
    BY <2>2, LargeClass, ClassSizes
  <2>6. t >= SMALL_BLOCK_SIZE
    <3>1. CASE t < SMALL_BLOCK_SIZE
      <4>1. mapping_insert(t).fl = 0 BY <3>1, SmallClass
      <4> QED BY <4>1, <2>3, <2>5 DEF NotBefore
    <3> QED BY <3>1, ClassSizes
  <2>7. /\ i \in Nat
        /\ mapping_insert(t) = [fl |-> i - (FL_INDEX_SHIFT - 1), sl |-> t \div Part(i) - SL_INDEX_COUNT]
        /\ t \div Part(i) \in Nat
    BY <2>6, LargeClass, ClassSizes
  <2>8. Pow2[i] <= t
    <3>1. t \in Nat \ {0} BY <2>6, ClassSizes
    <3> QED BY <3>1, Fls
  <2>9. FL_INDEX_SHIFT \in Nat BY TlsfConstants DEF FL_INDEX_SHIFT
  <2> HIDE DEF i, j
  <2>10. \/ j < i
         \/ j = i /\ s \div Part(j) <= t \div Part(i)
    <3>1. \/ j - (FL_INDEX_SHIFT - 1) < i - (FL_INDEX_SHIFT - 1)
          \/ /\ j - (FL_INDEX_SHIFT - 1) = i - (FL_INDEX_SHIFT - 1)
             /\ s \div Part(j) - SL_INDEX_COUNT <= t \div Part(i) - SL_INDEX_COUNT
      <4> DEFINE c == mapping_insert(s)
                 e == mapping_insert(t)
      <4>1. c.fl < e.fl \/ (c.fl = e.fl /\ c.sl <= e.sl) BY <2>3 DEF NotBefore
      <4>2. /\ c.fl = j - (FL_INDEX_SHIFT - 1) /\ c.sl = s \div Part(j) - SL_INDEX_COUNT
            /\ e.fl = i - (FL_INDEX_SHIFT - 1) /\ e.sl = t \div Part(i) - SL_INDEX_COUNT
        BY <2>5, <2>7
      <4> HIDE DEF c, e
      <4> QED BY <4>1, <4>2
    <3>2. SL_INDEX_COUNT \in Nat BY ClassSizes
    <3> DEFINE p == s \div Part(j)
               q == t \div Part(i)
    <3>3. p \in Nat /\ q \in Nat BY <2>5, <2>7
    <3>4. \/ j - (FL_INDEX_SHIFT - 1) < i - (FL_INDEX_SHIFT - 1)
          \/ /\ j - (FL_INDEX_SHIFT - 1) = i - (FL_INDEX_SHIFT - 1)
             /\ p - SL_INDEX_COUNT <= q - SL_INDEX_COUNT
      BY <3>1
    <3> HIDE DEF p, q
    <3>5. j < i \/ (j = i /\ p <= q) BY <2>5, <2>7, <2>9, <3>2, <3>3, <3>4
    <3> QED BY <3>5 DEF p, q
  <2>11. CASE k < i
    <3>1. k + 1 \in Nat /\ k + 1 <= i BY <2>1, <2>7, <2>11
    <3>2. Pow2[k + 1] <= Pow2[i] BY <2>7, <3>1, Pow2Mono
    <3>3. Pow2[k + 1] \in Nat /\ Pow2[i] \in Nat BY <2>7, <3>1, Pow2Def
    <3> QED BY <2>4, <2>8, <3>2, <3>3
  <2>12. CASE k = i
    <3>1. j = i /\ s \div d <= t \div d
      <4>1. j = i BY <2>1, <2>4, <2>5, <2>7, <2>10, <2>12
      <4>2. s \div Part(j) <= t \div Part(i) BY <2>5, <2>7, <2>10, <4>1
      <4> QED BY <2>12, <4>1, <4>2 DEF d
    <3>2. s \div d \in Nat /\ s < d * (s \div d) + d BY <2>1, <2>2, DivFacts
    <3>3. d * (s \div d) <= t BY <2>1, <3>1, <3>2, DivBelow
    <3> DEFINE q == d * (s \div d)
    <3>4. q \in Nat BY <2>1, <3>2
    <3>5. s < q + d /\ q <= t BY <3>2, <3>3
    <3> HIDE DEF q
    <3> QED BY <2>1, <2>2, <3>4, <3>5
  <2> QED BY <2>1, <2>4, <2>5, <2>7, <2>10, <2>11, <2>12
<1> QED BY <1>1, <1>2, ClassSizes

(* ... and not too late: no block of the rounded size is in front of it.   *)
LEMMA SearchSkipsNothing ==
    ASSUME NEW size \in Nat, NEW t \in Nat, size + SearchRound(size) <= t
    PROVE  NotBefore(mapping_insert(t), mapping_search(size))
<1>1. size + SearchRound(size) \in Nat BY RoundType
<1> QED BY <1>1, InsertMono DEF mapping_search

-----------------------------------------------------------------------------
(* Min finds the lowest bit of a bitmap that is not empty (tlsf_ffs).      *)
LEMMA NatMin ==
    ASSUME NEW S, S \subseteq Nat, S # {}
    PROVE  Min(S) \in S
<1>1. \E x \in S : \A y \in S : x <= y BY LeastOfNat
<1> QED BY <1>1, Zenon DEF Min

LEMMA MaxBlocksType == MaxBlocks \in Nat
<1>1. block_header_size \in Nat \ {0} BY ClassSizes DEF block_header_size
<1>2. Bytes \div block_header_size \in Nat /\ Extra.bytes \div block_header_size \in Nat
  BY <1>1, TlsfMemory, DivFacts
<1> QED BY <1>2 DEF MaxBlocks

(* A step of a walk.                                                       *)
Grow(step, T) == T \cup UNION {step[b] : b \in T \cap DOMAIN step}

Walk(r, first, step) ==
    /\ r[0] = {first}
    /\ \A n \in 1 .. MaxBlocks : r[n] = Grow(step, r[n - 1])
    /\ Reached(first, step) = r[MaxBlocks]

(* The steps of a walk, from the first block to the last step.             *)
LEMMA ReachedRuns ==
    ASSUME NEW first, NEW step
    PROVE  \E r : Walk(r, first, step)
<1> DEFINE M == MaxBlocks
           Runs(r, m) == /\ r = [n \in 0 .. M |-> r[n]]
                         /\ r[0] = {first}
                         /\ \A n \in 1 .. M : n <= m => r[n] = Grow(step, r[n - 1])
           S == {m \in Nat : \E r : Runs(r, m)}
<1>m. M \in Nat BY MaxBlocksType
<1> HIDE DEF M
<1>1. 0 \in S
  <2>1. Runs([n \in 0 .. M |-> {first}], 0) BY <1>m
  <2> QED BY <2>1
<1>2. ASSUME NEW m \in Nat, m \in S PROVE m + 1 \in S
  <2>1. PICK r : Runs(r, m) BY <1>2
  <2> DEFINE q == [n \in 0 .. M |-> IF n = m + 1 THEN Grow(step, r[m]) ELSE r[n]]
  <2>2. q = [n \in 0 .. M |-> q[n]] OBVIOUS
  <2>3. q[0] = {first} BY <1>m, <2>1
  <2>4. ASSUME NEW n \in 1 .. M, n <= m + 1 PROVE q[n] = Grow(step, q[n - 1])
    <3>1. n \in 0 .. M /\ n - 1 \in 0 .. M /\ n - 1 # m + 1 BY <1>m, <2>4
    <3>2. q[n - 1] = r[n - 1] BY <3>1, Zenon
    <3>3. CASE n = m + 1
      <4>1. q[n] = Grow(step, r[m]) /\ n - 1 = m BY <3>1, <3>3
      <4> QED BY <3>2, <4>1
    <3>4. CASE n # m + 1
      <4>1. q[n] = r[n] /\ n <= m BY <2>4, <3>1, <3>4
      <4>2. r[n] = Grow(step, r[n - 1]) BY <2>1, <4>1
      <4> QED BY <3>2, <4>1, <4>2
    <3> QED BY <3>3, <3>4
  <2>5. m + 1 \in Nat BY SMT
  <2> HIDE DEF q
  <2>6. Runs(q, m + 1) BY <2>2, <2>3, <2>4
  <2> QED BY <2>5, <2>6
<1> HIDE DEF S
<1>3. Nat \subseteq S BY <1>1, <1>2, SetInduction
<1>4. PICK f : Runs(f, M) BY <1>3, <1>m DEF S
<1>5. f = [n \in 0 .. M |-> IF n = 0 THEN {first} ELSE Grow(step, f[n - 1])]
  <2>1. \A n \in 0 .. M : f[n] = IF n = 0 THEN {first} ELSE Grow(step, f[n - 1])
    <3> SUFFICES ASSUME NEW n \in 0 .. M
                 PROVE  f[n] = IF n = 0 THEN {first} ELSE Grow(step, f[n - 1])
      OBVIOUS
    <3>1. n # 0 => n \in 1 .. M /\ n <= M BY <1>m
    <3> QED BY <1>4, <3>1, Zenon
  <2> QED BY <1>4, <2>1, Zenon
<1> DEFINE r == CHOOSE r : r = [n \in 0 .. M |-> IF n = 0 THEN {first} ELSE Grow(step, r[n - 1])]
<1>6. r = [n \in 0 .. M |-> IF n = 0 THEN {first} ELSE Grow(step, r[n - 1])] BY <1>5, Zenon
<1>7. Reached(first, step) = r[M] BY DEF Reached, M, Grow
<1> HIDE DEF r
<1>8. r[0] = {first} /\ \A n \in 1 .. M : r[n] = Grow(step, r[n - 1])
  <2>1. \A n \in 0 .. M : r[n] = IF n = 0 THEN {first} ELSE Grow(step, r[n - 1]) BY <1>6, Zenon
  <2>2. 0 \in 0 .. M /\ \A n \in 1 .. M : n \in 0 .. M /\ n # 0 BY <1>m
  <2> QED BY <2>1, <2>2, Zenon
<1> QED BY <1>7, <1>8 DEF M, Walk

(* A walk contains its start.                                              *)
LEMMA ReachedFrom ==
    ASSUME NEW first, NEW step
    PROVE  first \in Reached(first, step)
<1>0. PICK r : Walk(r, first, step) BY ReachedRuns
<1>1. /\ r[0] = {first}
      /\ \A n \in 1 .. MaxBlocks : r[n] = Grow(step, r[n - 1])
      /\ Reached(first, step) = r[MaxBlocks]
  BY <1>0 DEF Walk
<1> DEFINE T == {n \in Nat : n <= MaxBlocks => first \in r[n]}
<1>2. 0 \in T BY <1>1, Zenon
<1>3. ASSUME NEW n \in Nat, n \in T PROVE n + 1 \in T
  <2>1. n + 1 \in Nat BY SMT
  <2> SUFFICES ASSUME n + 1 <= MaxBlocks PROVE first \in r[n + 1] BY <2>1
  <2>2. n <= MaxBlocks /\ n + 1 \in 1 .. MaxBlocks /\ (n + 1) - 1 = n BY MaxBlocksType
  <2>3. r[n + 1] = Grow(step, r[n]) BY <1>1, <2>2
  <2>4. first \in r[n] BY <1>3, <2>2
  <2> QED BY <2>3, <2>4 DEF Grow
<1> HIDE DEF T
<1>4. Nat \subseteq T BY <1>2, <1>3, SetInduction
<1>5. MaxBlocks \in T BY MaxBlocksType, <1>4
<1> QED BY <1>1, <1>5, MaxBlocksType DEF T

(* Addresses are not NULL, and block headers in memory have sizes.         *)
LEMMA AddrNat == Addr \subseteq Nat \ {0}
<1>1. W \in Nat \ {0} BY ClassSizes DEF W
<1>2. ASSUME NEW a \in Nat \ {0}, NEW bytes PROVE WordsFrom(a, bytes) \subseteq Nat \ {0}
  <2> SUFFICES ASSUME NEW i \in 0 .. (bytes \div W) - 1 PROVE a + W * i \in Nat \ {0}
    BY DEF WordsFrom
  <2>1. i \in Nat BY SMT
  <2>2. \A x, y \in Nat : x * y \in Nat BY SMT
  <2>3. W * i \in Nat BY <1>1, <2>1, <2>2
  <2> QED BY <1>2, <2>3
<1>3. ARENA \in Nat \ {0} /\ Extra.mem - W \in Nat \ {0} BY <1>1, TlsfMemory
<1> QED BY <1>2, <1>3 DEF Addr

LEMMA BlockInMemory ==
    ASSUME NEW h, h.mem \in [Addr -> Nat], NEW b, InMemory(b)
    PROVE  b \in Addr /\ b + W \in Addr /\ block_size(h, b) \in Nat
<1>4. b \in Addr /\ b + W \in Addr BY DEF InMemory
<1>7. h.mem[b + W] \in Nat BY <1>4
<1>8. \A x \in Nat : x - (x % 4) \in Nat BY SMT
<1> QED BY <1>4, <1>7, <1>8 DEF block_size, SizeWord

(* A free list starts with its head and is empty when that is block_null.  *)
LEMMA FreeListHead ==
    ASSUME NEW h, NEW i, NEW j
    PROVE  /\ h.blocks[i][j] # block_null => h.blocks[i][j] \in FreeList(h, i, j)
           /\ h.blocks[i][j] = block_null => FreeList(h, i, j) = {}
<1> DEFINE step == [b \in ListedAddr |-> {NextFree(h, b)}]
<1>1. h.blocks[i][j] \in Reached(h.blocks[i][j], step) BY ReachedFrom
<1>2. FreeList(h, i, j) = IF h.blocks[i][j] = block_null THEN {}
                          ELSE Reached(h.blocks[i][j], step) \ {block_null}
  BY DEF FreeList
<1> QED BY <1>1, <1>2

(* A list with a bit has a first block, which is free and of its class.    *)
LEMMA BitHasBlock ==
    ASSUME HeapSound, NEW i \in FL, NEW j \in SL, j \in heap.sl_bitmap[i]
    PROVE  /\ heap.blocks[i][j] \in FreeBlocks(heap)
           /\ mapping_insert(block_size(heap, heap.blocks[i][j])) = [fl |-> i, sl |-> j]
           /\ heap.blocks[i][j] \in Addr
           /\ block_size(heap, heap.blocks[i][j]) \in Nat
<1> DEFINE b == heap.blocks[i][j]
<1>1. b # block_null BY DEF HeapSound, tlsf_check
<1>2. b \in FreeList(heap, i, j) BY <1>1, FreeListHead
<1>3. InMemory(b) /\ mapping_insert(block_size(heap, b)) = [fl |-> i, sl |-> j]
  BY <1>2 DEF HeapSound, tlsf_check
<1>4. b \in Listed(heap) BY <1>2 DEF Listed
<1>5. b \in FreeBlocks(heap) BY <1>4 DEF HeapSound
<1>6. heap.mem \in [Addr -> Nat] BY DEF HeapSound, TypeOK
<1>7. b \in Addr /\ block_size(heap, b) \in Nat BY <1>3, <1>6, BlockInMemory
<1> QED BY <1>3, <1>5, <1>7

(* A free block has its bits.                                              *)
LEMMA BlockHasBit ==
    ASSUME HeapSound, NEW b \in FreeBlocks(heap)
    PROVE  LET c == mapping_insert(block_size(heap, b)) IN
           /\ c.fl \in FL /\ c.sl \in SL
           /\ c.fl \in heap.fl_bitmap /\ c.sl \in heap.sl_bitmap[c.fl]
           /\ block_size(heap, b) \in Nat
<1>1. b \in Listed(heap) BY DEF HeapSound
<1>2. PICK i \in FL, j \in SL : b \in FreeList(heap, i, j) BY <1>1 DEF Listed
<1>3. InMemory(b) /\ mapping_insert(block_size(heap, b)) = [fl |-> i, sl |-> j]
  BY <1>2 DEF HeapSound, tlsf_check
<1>4. heap.blocks[i][j] # block_null BY <1>2, FreeListHead
<1>5. j \in heap.sl_bitmap[i] BY <1>2, <1>4 DEF HeapSound, tlsf_check
<1>6. i \in heap.fl_bitmap BY <1>2, <1>5 DEF HeapSound, tlsf_check
<1>7. heap.mem \in [Addr -> Nat] BY DEF HeapSound, TypeOK
<1>8. block_size(heap, b) \in Nat BY <1>3, <1>7, BlockInMemory
<1> QED BY <1>3, <1>5, <1>6, <1>8

(* b is the first block of the list class, which lies at or behind c.      *)
Suits(b, class, c) ==
    /\ b \in FreeBlocks(heap) /\ b \in Addr
    /\ class = mapping_insert(block_size(heap, b))
    /\ class.fl \in FL /\ class.sl \in SL /\ b = heap.blocks[class.fl][class.sl]
    /\ NotBefore(class, c)

(* The first list behind class c that has a bit, or none.                  *)
LEMMA SearchFinds ==
    ASSUME HeapSound, NEW c \in Classes, c.fl \in FL
    PROVE  LET f == search_suitable_block(heap, c) IN
           \/ Suits(f.block, f.class, c)
           \/ /\ f.block = NULL
              /\ \A b \in FreeBlocks(heap) :
                    ~ NotBefore(mapping_insert(block_size(heap, b)), c)
<1> DEFINE sl_map == {j \in heap.sl_bitmap[c.fl] : j >= c.sl}
           fl_map == {i \in heap.fl_bitmap : i > c.fl}
           f == search_suitable_block(heap, c)
<1>1. heap.fl_bitmap \subseteq FL /\ \A i \in FL : heap.sl_bitmap[i] \subseteq SL
  BY DEF HeapSound, TypeOK
<1>2. FL \subseteq Nat /\ SL \subseteq Nat BY SMT DEF FL, SL
<1>3. ASSUME NEW i \in FL, NEW j \in SL, j \in heap.sl_bitmap[i],
             c.fl < i \/ (c.fl = i /\ c.sl <= j), f = Found(heap, i, j)
      PROVE  Suits(f.block, f.class, c)
  <2>1. f.block = heap.blocks[i][j] /\ f.class = [fl |-> i, sl |-> j] BY <1>3 DEF Found
  <2>2. f.class.fl = i /\ f.class.sl = j BY <2>1
  <2> HIDE DEF f
  <2> QED BY <1>3, <2>1, <2>2, BitHasBlock DEF Suits, NotBefore
<1>4. CASE sl_map # {}
  <2>1. f = Found(heap, c.fl, Min(sl_map)) BY <1>4 DEF search_suitable_block
  <2>2. Min(sl_map) \in sl_map
    <3>1. sl_map \subseteq Nat BY <1>1, <1>2
    <3> QED BY <1>4, <3>1, NatMin
  <2>3. Min(sl_map) \in SL /\ Min(sl_map) \in heap.sl_bitmap[c.fl] /\ c.sl <= Min(sl_map)
    <3> DEFINE m == Min(sl_map)
    <3>1. m \in heap.sl_bitmap[c.fl] /\ m >= c.sl BY <2>2
    <3>2. m \in SL BY <1>1, <3>1
    <3>3. m \in Nat /\ c.sl \in Nat BY <1>2, <3>2 DEF Classes
    <3> HIDE DEF m
    <3>4. c.sl <= m BY <3>1, <3>3
    <3> QED BY <3>1, <3>2, <3>4 DEF m
  <2> QED BY <1>3, <2>1, <2>3
<1>5. CASE sl_map = {} /\ fl_map # {}
  <2> DEFINE i == Min(fl_map)
             j == Min(heap.sl_bitmap[i])
  <2>1. f = Found(heap, i, j) BY <1>5 DEF search_suitable_block
  <2>2. i \in fl_map
    <3>1. fl_map \subseteq Nat BY <1>1, <1>2
    <3> QED BY <1>5, <3>1, NatMin
  <2>3. i \in FL /\ i \in heap.fl_bitmap /\ i > c.fl BY <1>1, <2>2
  <2>4. c.fl < i BY <1>2, <2>3
  <2> HIDE DEF i
  <2>5. heap.sl_bitmap[i] # {} BY <2>3 DEF HeapSound
  <2>6. j \in heap.sl_bitmap[i] /\ j \in SL
    <3>1. heap.sl_bitmap[i] \subseteq Nat BY <1>1, <1>2, <2>3
    <3> QED BY <1>1, <2>3, <2>5, <3>1, NatMin
  <2> HIDE DEF j, f
  <2> QED BY <1>3, <2>1, <2>3, <2>4, <2>6 DEF f
<1>6. CASE sl_map = {} /\ fl_map = {}
  <2>1. f.block = NULL BY <1>6 DEF search_suitable_block
  <2>2. ASSUME NEW b \in FreeBlocks(heap),
               NotBefore(mapping_insert(block_size(heap, b)), c)
        PROVE  FALSE
    <3> DEFINE e == mapping_insert(block_size(heap, b))
    <3>1. e.fl \in FL /\ e.sl \in SL /\ e.fl \in heap.fl_bitmap /\ e.sl \in heap.sl_bitmap[e.fl]
      BY BlockHasBit
    <3>2. c.fl < e.fl \/ (c.fl = e.fl /\ c.sl <= e.sl) BY <2>2 DEF NotBefore
    <3>3. c.fl \in Nat /\ c.sl \in Nat /\ e.fl \in Nat /\ e.sl \in Nat
      BY <1>2, <3>1 DEF Classes
    <3> HIDE DEF e
    <3>4. e.fl > c.fl => e.fl \in fl_map BY <3>1
    <3>5. c.fl = e.fl /\ e.sl >= c.sl => e.sl \in sl_map BY <3>1
    <3>6. e.fl > c.fl \/ (c.fl = e.fl /\ e.sl >= c.sl) BY <3>2, <3>3
    <3> QED BY <1>6, <3>4, <3>5, <3>6
  <2> QED BY <2>1, <2>2
<1> QED BY <1>4, <1>5, <1>6

(* How the powers of two compare, and when align_up does not wrap.         *)
LEMMA Widths ==
    /\ block_size_max \in Nat /\ 4 * ALIGN_SIZE <= block_size_max
    /\ SizeValues \in Nat /\ 4 * block_size_max <= SizeValues
<1> DEFINE F == FL_INDEX_MAX
           L == ALIGN_SIZE_LOG2
<1>1. L \in Nat /\ F \in Nat /\ SIZE_WIDTH \in Nat /\ L + 2 <= F /\ F + 2 <= SIZE_WIDTH
  BY TlsfConstants
<1> HIDE DEF F, L
<1>2. \A k \in Nat : Pow2[k] \in Nat /\ Pow2[k + 2] = 4 * Pow2[k]
  <2>1. \A k \in Nat : k + 1 \in Nat /\ k + 2 = (k + 1) + 1 OBVIOUS
  <2> QED BY <2>1, Pow2Def
<1>3. Pow2[L + 2] <= Pow2[F] /\ Pow2[F + 2] <= Pow2[SIZE_WIDTH]
  <2>1. L + 2 \in Nat /\ F + 2 \in Nat BY <1>1
  <2> QED BY <1>1, <2>1, Pow2Mono
<1> QED BY <1>1, <1>2, <1>3 DEF F, L, ALIGN_SIZE, block_size_max, SizeValues

LEMMA NoWrap ==
    ASSUME NEW x \in Nat, NEW a \in Nat \ {0}, x + a <= SizeValues
    PROVE  align_up(x, a) = RoundUp(x, a)
<1>1. \A u, v \in Nat : u < v => u % v = u OBVIOUS
<1>2. x + a - 1 \in Nat /\ x + a - 1 < SizeValues /\ SizeValues \in Nat BY Widths
<1>3. (x + a - 1) % SizeValues = x + a - 1 BY <1>1, <1>2
<1> QED BY <1>3 DEF align_up, RoundUp

LEMMA RequestFacts ==
    ASSUME NEW size \in Requests
    PROVE  size \in Nat /\ align_up(size, ALIGN_SIZE) = RoundUp(size, ALIGN_SIZE)
<1>1. ALIGN_SIZE \in Nat \ {0} BY ClassSizes
<1>2. size \in Nat /\ size + ALIGN_SIZE <= SizeValues BY <1>1, Widths DEF Requests
<1> QED BY <1>1, <1>2, NoWrap

(* What a request is rounded up to.                                        *)
LEMMA AdjustType ==
    ASSUME NEW size \in Requests
    PROVE  LET adjust == adjust_request_size(size, ALIGN_SIZE) IN
           /\ adjust \in Nat /\ adjust % ALIGN_SIZE = 0
           /\ adjust # 0 => size <= adjust /\ block_size_min <= adjust
<1> DEFINE a == RoundUp(size, ALIGN_SIZE)
<1>0. size \in Nat /\ align_up(size, ALIGN_SIZE) = a BY RequestFacts
<1>1. a \in Nat /\ a % ALIGN_SIZE = 0 /\ size <= a
  <2>1. CASE ALIGN_SIZE = 4 BY <1>0, <2>1 DEF RoundUp
  <2>2. CASE ALIGN_SIZE = 8 BY <1>0, <2>2 DEF RoundUp
  <2> QED BY <2>1, <2>2, ClassSizes
<1>2. block_size_min \in Nat /\ block_size_min % ALIGN_SIZE = 0 /\ block_size_max \in Nat
  <2>1. block_size_max \in Nat BY TlsfConstants, Pow2Def DEF block_size_max
  <2>2. CASE ALIGN_SIZE = 4 BY <2>1, <2>2 DEF block_size_min
  <2>3. CASE ALIGN_SIZE = 8 BY <2>1, <2>3 DEF block_size_min
  <2> QED BY <2>2, <2>3, ClassSizes
<1>3. 0 % ALIGN_SIZE = 0
  <2>1. CASE ALIGN_SIZE = 4 BY <2>1
  <2>2. CASE ALIGN_SIZE = 8 BY <2>2
  <2> QED BY <2>1, <2>2, ClassSizes
<1> DEFINE r == adjust_request_size(size, ALIGN_SIZE)
<1>4. r = IF size = 0 \/ a >= block_size_max THEN 0
          ELSE IF a < block_size_min THEN block_size_min ELSE a
  BY <1>0 DEF adjust_request_size
<1> HIDE DEF a, r
<1>5. r \in Nat /\ r % ALIGN_SIZE = 0 BY <1>1, <1>2, <1>3, <1>4
<1>6. r # 0 => size <= r /\ block_size_min <= r BY <1>0, <1>1, <1>2, <1>4
<1> QED BY <1>5, <1>6 DEF r

(* block_locate_free finds a block that is large enough, or there is none  *)
(* of the rounded size.                                                    *)
LEMMA Located ==
    ASSUME HeapSound, NEW size \in Nat, size # 0, size % ALIGN_SIZE = 0
    PROVE  LET b == block_locate_free(heap, size).block IN
           \/ /\ b \in FreeBlocks(heap) /\ b \in Addr
              /\ size <= block_size(heap, b)
           \/ /\ b = NULL
              /\ \A e \in FreeBlocks(heap) :
                    block_size(heap, e) < size + SearchRound(size)
<1> DEFINE c == mapping_search(size)
           f == search_suitable_block(heap, c)
           b == block_locate_free(heap, size).block
<1>1. c \in Classes
  <2>1. size + SearchRound(size) \in Nat BY RoundType
  <2> QED BY <2>1, InsertType DEF mapping_search
<1>2. c.fl \in Nat BY <1>1 DEF Classes
<1>3. FL = {i \in Nat : ~ (i >= FL_INDEX_COUNT)}
  <2>1. FL_INDEX_COUNT \in Nat BY TlsfConstants DEF FL_INDEX_COUNT, FL_INDEX_SHIFT
  <2> QED BY <2>1 DEF FL
<1>4. ASSUME NEW e \in FreeBlocks(heap), ~ NotBefore(mapping_insert(block_size(heap, e)), c)
      PROVE  block_size(heap, e) < size + SearchRound(size)
  <2>1. block_size(heap, e) \in Nat BY BlockHasBit
  <2>2. ~ (size + SearchRound(size) <= block_size(heap, e)) BY <1>4, <2>1, SearchSkipsNothing
  <2>3. SearchRound(size) \in Nat BY RoundType
  <2> QED BY <2>1, <2>2, <2>3
<1>5. CASE c.fl >= FL_INDEX_COUNT
  <2>1. b = NULL BY <1>5 DEF block_locate_free, Result
  <2>2. ASSUME NEW e \in FreeBlocks(heap)
        PROVE  ~ NotBefore(mapping_insert(block_size(heap, e)), c)
    <3> DEFINE d == mapping_insert(block_size(heap, e))
    <3>1. d.fl \in FL BY BlockHasBit
    <3> HIDE DEF d, c
    <3>2. FL_INDEX_COUNT \in Nat /\ d.fl \in Nat /\ ~ (d.fl >= FL_INDEX_COUNT)
      BY <1>3, <3>1, TlsfConstants DEF FL_INDEX_COUNT, FL_INDEX_SHIFT
    <3>3. d.fl < c.fl BY <1>2, <1>5, <3>2
    <3>4. ~ NotBefore(d, c) BY <1>2, <3>2, <3>3 DEF NotBefore
    <3> QED BY <3>4 DEF d
  <2> QED BY <1>4, <2>1, <2>2
<1>6. CASE ~ (c.fl >= FL_INDEX_COUNT)
  <2>1. c.fl \in FL BY <1>2, <1>3, <1>6
  <2>2. b = IF f.block = NULL THEN NULL ELSE f.block BY <1>6 DEF block_locate_free, Result
  <2>3. \/ Suits(f.block, f.class, c)
        \/ /\ f.block = NULL
           /\ \A e \in FreeBlocks(heap) : ~ NotBefore(mapping_insert(block_size(heap, e)), c)
    BY <1>1, <2>1, SearchFinds
  <2>4. CASE Suits(f.block, f.class, c)
    <3>1. f.block \in FreeBlocks(heap) /\ f.block \in Addr
          /\ NotBefore(mapping_insert(block_size(heap, f.block)), c)
      BY <2>4 DEF Suits
    <3>2. block_size(heap, f.block) \in Nat BY <3>1, BlockHasBit
    <3>3. size <= block_size(heap, f.block) BY <3>1, <3>2, SearchLargeEnough
    <3>4. b = f.block BY <2>2
    <3> QED BY <3>1, <3>3, <3>4
  <2>5. CASE ~ Suits(f.block, f.class, c) BY <1>4, <2>2, <2>3, <2>5
  <2> QED BY <2>4, <2>5
<1> QED BY <1>5, <1>6

(* In a sound heap a request is met from a free block of at least its size *)
(* (the good fit of block_locate_free), for every alignment, number of     *)
(* size classes and memory, and every size but the few at the top that     *)
(* align_up wraps to 0 and adjust_request_size takes for the least.        *)
THEOREM GoodFit ==
    HeapSound => \A size \in Requests :
        LET adjust == adjust_request_size(size, ALIGN_SIZE)
            b      == block_locate_free(heap, adjust).block
        IN  b # NULL => /\ b \in FreeBlocks(heap)
                        /\ size <= adjust /\ adjust <= block_size(heap, b)
<1> SUFFICES ASSUME HeapSound, NEW size \in Requests
             PROVE  LET adjust == adjust_request_size(size, ALIGN_SIZE)
                        b      == block_locate_free(heap, adjust).block
                    IN  b # NULL => /\ b \in FreeBlocks(heap)
                                    /\ size <= adjust /\ adjust <= block_size(heap, b)
  OBVIOUS
<1> DEFINE adjust == adjust_request_size(size, ALIGN_SIZE)
           b      == block_locate_free(heap, adjust).block
<1>1. /\ adjust \in Nat /\ adjust % ALIGN_SIZE = 0
      /\ adjust # 0 => size <= adjust /\ block_size_min <= adjust
  BY AdjustType
<1>2. adjust = 0 => b = NULL BY DEF block_locate_free, Result
<1> HIDE DEF adjust
<1>3. adjust # 0 /\ b # NULL => b \in FreeBlocks(heap) /\ adjust <= block_size(heap, b)
  BY <1>1, Located
<1>4. b # NULL => /\ b \in FreeBlocks(heap)
                  /\ size <= adjust /\ adjust <= block_size(heap, b)
  BY <1>1, <1>2, <1>3
<1> QED BY <1>4 DEF adjust

(* A sound heap refuses a request only when no free block is as large as   *)
(* the request rounded up to a size class.                                 *)
THEOREM SoundHeapRefusesOnlyWhenFull == HeapSound => RefusesOnlyWhenFull
<1> SUFFICES ASSUME HeapSound, NEW size \in Sizes,
                    adjust_request_size(size, ALIGN_SIZE) # 0,
                    tlsf_malloc(heap, size).ptr = NULL,
                    NEW e \in FreeBlocks(heap)
             PROVE  LET adjust == adjust_request_size(size, ALIGN_SIZE)
                    IN  block_size(heap, e) < adjust + SearchRound(adjust)
  BY DEF RefusesOnlyWhenFull
<1> DEFINE adjust == adjust_request_size(size, ALIGN_SIZE)
           l == block_locate_free(heap, adjust)
<1>1. size \in Requests BY TlsfMemory
<1>2. adjust \in Nat /\ adjust % ALIGN_SIZE = 0 BY <1>1, AdjustType
<1>3. tlsf_malloc(heap, size) = block_prepare_used(l.heap, l.block, adjust)
  BY DEF tlsf_malloc
<1> HIDE DEF l, adjust
<1>4. l.block # NULL => tlsf_malloc(heap, size).ptr = block_to_ptr(l.block)
  BY <1>3 DEF block_prepare_used
<1>5. l.block \in Addr => block_to_ptr(l.block) # NULL
  <2>1. ALIGN_SIZE \in Nat BY ClassSizes
  <2>2. l.block \in Addr => l.block \in Nat \ {0} BY AddrNat
  <2> QED BY <2>1, <2>2 DEF block_to_ptr, block_start_offset, NULL
<1>6. ~ (l.block \in Addr)
  <2>1. l.block \in Addr => l.block # NULL BY AddrNat DEF NULL
  <2> QED BY <1>4, <1>5, <2>1
<1>7. \A b \in FreeBlocks(heap) : block_size(heap, b) < adjust + SearchRound(adjust)
  BY <1>2, <1>6, Located DEF l, adjust
<1> QED BY <1>7 DEF adjust

-----------------------------------------------------------------------------

(* A block that is not touched is as safe as it was, next to the others    *)
(* that are not touched.                                                   *)
LEMMA UntouchedSafe ==
    ASSUME Heap!BlocksApart, owned' = owned, NEW S, S \subseteq DOMAIN held, Heap!Keeps(S)
    PROVE  \A p \in S :
              /\ p % held'[p].align = 0
              /\ Heap!Span(p, held'[p].words) \subseteq owned'
              /\ \A q \in S \ {p} :
                    Heap!Span(p, held'[p].words) \cap Heap!Span(q, held'[q].words) = {}
BY DEF Heap!BlocksApart, Heap!BlockSafe, Heap!Keeps

(* A new or moved block that is well placed makes all blocks safe when the *)
(* others were not touched.                                                *)
LEMMA PlacedSafe ==
    ASSUME Heap!BlocksApart, owned' = owned, NEW S, S \subseteq DOMAIN held, Heap!Keeps(S),
           NEW p, DOMAIN held' = S \cup {p}, Heap!WellPlaced(p)
    PROVE  Heap!BlocksApart'
<1>1. \A q \in S :
         /\ q % held'[q].align = 0
         /\ Heap!Span(q, held'[q].words) \subseteq owned'
         /\ \A r \in S \ {q} :
               Heap!Span(q, held'[q].words) \cap Heap!Span(r, held'[r].words) = {}
  BY UntouchedSafe
<1>2. /\ p % held'[p].align = 0
      /\ Heap!Span(p, held'[p].words) \subseteq owned'
      /\ \A q \in DOMAIN held' \ {p} :
            Heap!Span(p, held'[p].words) \cap Heap!Span(q, held'[q].words) = {}
  BY DEF Heap!WellPlaced
<1> QED BY <1>1, <1>2 DEF Heap!BlocksApart, Heap!BlockSafe

(* Every step of an allocator that keeps the contract keeps the blocks     *)
(* apart.                                                                  *)
LEMMA NextApart == Heap!BlocksApart /\ [Heap!Next]_(Heap!vars) => Heap!BlocksApart'
<1> SUFFICES ASSUME Heap!BlocksApart, [Heap!Next]_(Heap!vars) PROVE Heap!BlocksApart'
    OBVIOUS
<1>1. CASE Heap!Allocate BY <1>1, PlacedSafe DEF Heap!Allocate
<1>2. CASE Heap!Free
  <2>1. PICK p \in DOMAIN held :
            /\ DOMAIN held' = DOMAIN held \ {p}
            /\ Heap!Keeps(DOMAIN held \ {p})
            /\ owned' = owned
    BY <1>2 DEF Heap!Free
  <2> QED BY <2>1, UntouchedSafe DEF Heap!BlocksApart, Heap!BlockSafe
<1>3. CASE Heap!Write
  <2>1. PICK p \in DOMAIN held :
            /\ DOMAIN held' = DOMAIN held
            /\ Heap!Keeps(DOMAIN held \ {p})
            /\ held'[p].align = held[p].align
            /\ DOMAIN held'[p].words = DOMAIN held[p].words
            /\ owned' = owned
    BY <1>3 DEF Heap!Write
  <2>2. Heap!Span(p, held'[p].words) = Heap!Span(p, held[p].words) BY <2>1 DEF Heap!Span
  <2>3. \A q \in DOMAIN held \ {p} : held'[q] = held[q] BY <2>1 DEF Heap!Keeps
  <2> QED BY <2>1, <2>2, <2>3 DEF Heap!BlocksApart, Heap!BlockSafe
<1>4. CASE Heap!Resize
  <2>1. PICK p \in DOMAIN held, q \in DOMAIN held' :
            /\ DOMAIN held' = (DOMAIN held \ {p}) \cup {q}
            /\ Heap!Keeps(DOMAIN held \ {p})
            /\ Heap!WellPlaced(q)
            /\ owned' = owned
    BY <1>4 DEF Heap!Resize
  <2> QED BY <2>1, PlacedSafe
<1>5. CASE Heap!ChangePools BY <1>5 DEF Heap!ChangePools, Heap!BlocksApart, Heap!BlockSafe
<1>6. CASE UNCHANGED Heap!vars BY <1>6 DEF Heap!vars, Heap!BlocksApart, Heap!BlockSafe
<1> QED BY <1>1, <1>2, <1>3, <1>4, <1>5, <1>6 DEF Heap!Next

(* With an allocator that keeps the contract, no two blocks in use ever    *)
(* share a word, and all are aligned and inside the memory the allocator   *)
(* was given, however malloc, memalign, realloc, free and the pools are    *)
(* used.                                                                   *)
THEOREM BlocksNeverOverlap == Heap!Spec => []Heap!BlocksApart
<1>1. Heap!Init => Heap!BlocksApart BY DEF Heap!Init, Heap!BlocksApart
<1> QED BY <1>1, NextApart, PTL DEF Heap!Spec

(* The layout of headers and of the arena, in words.                       *)
LEMMA Layout ==
    /\ W \in {4, 8} /\ ALIGN_SIZE = W
    /\ block_header_overhead = W /\ block_start_offset = 2 * W
    /\ block_size_min = 3 * W /\ block_header_size = 4 * W
    /\ tlsf_size = 5 * W /\ tlsf_get_pool = ARENA + 5 * W /\ block_null = ARENA
    /\ NULL = 0 /\ tlsf_pool_overhead = 2 * W
<1>1. W \in {4, 8} /\ ALIGN_SIZE = W BY ClassSizes DEF W
<1>2. /\ block_header_overhead = W /\ block_start_offset = 2 * W
      /\ block_size_min = 3 * W /\ block_header_size = 4 * W
  BY <1>1 DEF block_header_overhead, block_start_offset, block_size_min, block_header_size
<1>3. tlsf_size = 5 * W BY <1>1, <1>2 DEF tlsf_size
<1> QED BY <1>1, <1>2, <1>3 DEF tlsf_get_pool, block_null, NULL, tlsf_pool_overhead

(* Multiples of the word size.                                             *)
LEMMA AlignedFacts ==
    /\ Aligned(0) /\ Aligned(W)
    /\ \A x, y : Aligned(x) /\ Aligned(y) =>
          /\ Aligned(x + y) /\ (y <= x => Aligned(x - y)) /\ (x < y => x + W <= y)
          /\ x % 4 = 0
<1>1. CASE W = 4 BY <1>1 DEF Aligned
<1>2. CASE W = 8 BY <1>2 DEF Aligned
<1> QED BY <1>1, <1>2, Layout

LEMMA AlignedSum ==
    ASSUME NEW x, NEW y, Aligned(x), Aligned(y)
    PROVE  Aligned(x + y) /\ x \in Nat /\ y \in Nat
BY AlignedFacts DEF Aligned

LEMMA AlignedDiff ==
    ASSUME NEW x, NEW y, Aligned(x), Aligned(y), y <= x
    PROVE  Aligned(x - y)
BY AlignedFacts

LEMMA AlignedGap ==
    ASSUME NEW x, NEW y, Aligned(x), Aligned(y), x < y
    PROVE  x + W <= y
BY AlignedFacts

LEMMA AlignedMod ==
    ASSUME NEW x, Aligned(x)
    PROVE  x \in Nat /\ x % 4 = 0
BY AlignedFacts DEF Aligned

LEMMA AlignedWords ==
    /\ Aligned(W) /\ Aligned(2 * W) /\ Aligned(3 * W) /\ Aligned(4 * W) /\ Aligned(5 * W)
    /\ Aligned(0)
<1>1. CASE W = 4 BY <1>1 DEF Aligned
<1>2. CASE W = 8 BY <1>2 DEF Aligned
<1> QED BY <1>1, <1>2, Layout

(* The words of a stretch of memory.                                       *)
LEMMA WordsFromIs ==
    ASSUME NEW a, Aligned(a), NEW bytes, Aligned(bytes)
    PROVE  WordsFrom(a, bytes) = {x \in Nat : Aligned(x) /\ a <= x /\ x < a + bytes}
<1>1. CASE W = 4
  <2>1. a \in Nat /\ bytes \in Nat /\ a % 4 = 0 /\ bytes % 4 = 0 BY <1>1 DEF Aligned
  <2>2. ASSUME NEW i \in 0 .. (bytes \div 4) - 1
        PROVE  a + 4 * i \in Nat /\ (a + 4 * i) % 4 = 0 /\ a <= a + 4 * i /\ a + 4 * i < a + bytes
    BY <2>1
  <2>3. ASSUME NEW x \in Nat, x % 4 = 0, a <= x, x < a + bytes
        PROVE  (x - a) \div 4 \in 0 .. (bytes \div 4) - 1 /\ x = a + 4 * ((x - a) \div 4)
    BY <2>1, <2>3
  <2>4. WordsFrom(a, bytes) = {a + 4 * i : i \in 0 .. (bytes \div 4) - 1} BY <1>1 DEF WordsFrom
  <2>5. \A x : Aligned(x) <=> x \in Nat /\ x % 4 = 0 BY <1>1 DEF Aligned
  <2>6. ASSUME NEW x \in WordsFrom(a, bytes)
        PROVE  x \in Nat /\ Aligned(x) /\ a <= x /\ x < a + bytes
    <3>1. PICK i \in 0 .. (bytes \div 4) - 1 : x = a + 4 * i BY <2>4, <2>6
    <3> QED BY <2>2, <2>5, <3>1
  <2>7. ASSUME NEW x \in Nat, Aligned(x), a <= x, x < a + bytes
        PROVE  x \in WordsFrom(a, bytes)
    BY <2>3, <2>4, <2>5, <2>7
  <2> QED BY <2>6, <2>7
<1>2. CASE W = 8
  <2>1. a \in Nat /\ bytes \in Nat /\ a % 8 = 0 /\ bytes % 8 = 0 BY <1>2 DEF Aligned
  <2>2. ASSUME NEW i \in 0 .. (bytes \div 8) - 1
        PROVE  a + 8 * i \in Nat /\ (a + 8 * i) % 8 = 0 /\ a <= a + 8 * i /\ a + 8 * i < a + bytes
    BY <2>1
  <2>3. ASSUME NEW x \in Nat, x % 8 = 0, a <= x, x < a + bytes
        PROVE  (x - a) \div 8 \in 0 .. (bytes \div 8) - 1 /\ x = a + 8 * ((x - a) \div 8)
    BY <2>1, <2>3
  <2>4. WordsFrom(a, bytes) = {a + 8 * i : i \in 0 .. (bytes \div 8) - 1} BY <1>2 DEF WordsFrom
  <2>5. \A x : Aligned(x) <=> x \in Nat /\ x % 8 = 0 BY <1>2 DEF Aligned
  <2>6. ASSUME NEW x \in WordsFrom(a, bytes)
        PROVE  x \in Nat /\ Aligned(x) /\ a <= x /\ x < a + bytes
    <3>1. PICK i \in 0 .. (bytes \div 8) - 1 : x = a + 8 * i BY <2>4, <2>6
    <3> QED BY <2>2, <2>5, <3>1
  <2>7. ASSUME NEW x \in Nat, Aligned(x), a <= x, x < a + bytes
        PROVE  x \in WordsFrom(a, bytes)
    BY <2>3, <2>4, <2>5, <2>7
  <2> QED BY <2>6, <2>7
<1> QED BY <1>1, <1>2, Layout

(* Where the memory is.                                                    *)
LEMMA Places ==
    /\ Aligned(ARENA) /\ ARENA > 0 /\ Aligned(Bytes) /\ Bytes >= 7 * W
    /\ Aligned(Extra.mem) /\ Aligned(Extra.bytes) /\ Extra.bytes >= 2 * W
    /\ Extra.mem >= ARENA + Bytes + W
    /\ block_size_max # Bytes - 7 * W /\ block_size_max # Extra.bytes - 2 * W
<1>1. /\ ARENA \in Nat \ {0} /\ Bytes \in Nat /\ Extra.mem \in Nat /\ Extra.bytes \in Nat
      /\ Bytes >= tlsf_size + 2 * W /\ Extra.mem - W >= ARENA + Bytes /\ Extra.bytes >= 2 * W
  BY TlsfMemory
<1>2. Aligned(ARENA) /\ Aligned(Bytes) /\ Aligned(Extra.mem) /\ Aligned(Extra.bytes)
  BY <1>1, TlsfMemory DEF Aligned
<1>3. ARENA > 0 /\ Bytes >= 7 * W /\ Extra.mem >= ARENA + Bytes + W BY <1>1, Layout
<1>4. Bytes - tlsf_size - 2 * W = Bytes - 7 * W BY <1>1, Layout
<1> QED BY <1>1, <1>2, <1>3, <1>4, TlsfMemory

LEMMA AddrIs ==
    \A a : a \in Addr <=> /\ Aligned(a)
                          /\ \/ ARENA <= a /\ a < ARENA + Bytes
                             \/ Extra.mem - W <= a /\ a < Extra.mem + Extra.bytes
<1>1. Aligned(Extra.mem - W) /\ Aligned(Extra.bytes + W)
  <2>1. W <= Extra.mem BY Places, Layout DEF Aligned
  <2> QED BY <2>1, Places, AlignedWords, AlignedSum, AlignedDiff
<1>2. (Extra.mem - W) + (Extra.bytes + W) = Extra.mem + Extra.bytes
  BY Places, Layout DEF Aligned
<1>3. WordsFrom(ARENA, Bytes) = {x \in Nat : Aligned(x) /\ ARENA <= x /\ x < ARENA + Bytes}
  BY Places, WordsFromIs
<1>4. WordsFrom(Extra.mem - W, Extra.bytes + W)
        = {x \in Nat : Aligned(x) /\ Extra.mem - W <= x /\ x < Extra.mem + Extra.bytes}
  BY <1>1, <1>2, WordsFromIs
<1> QED BY <1>3, <1>4 DEF Addr, Aligned

(* g is h with other words at the addresses of A.                          *)
Wrote(h, g, A) ==
    /\ g \in HeapType
    /\ g.fl_bitmap = h.fl_bitmap /\ g.sl_bitmap = h.sl_bitmap /\ g.blocks = h.blocks
    /\ \A x \in Addr : x \notin A => g.mem[x] = h.mem[x]

(* One word is written, or several one after the other.                    *)
LEMMA PutFacts ==
    ASSUME NEW h \in HeapType, NEW a \in Addr, NEW v \in Nat
    PROVE  Wrote(h, Put(h, a, v), {a}) /\ Put(h, a, v).mem[a] = v
<1> DEFINE g == Put(h, a, v)
<1>1. g = [h EXCEPT !.mem = [h.mem EXCEPT ![a] = v]] BY DEF Put, HeapType
<1>2. h.mem \in [Addr -> Nat] BY DEF HeapType
<1>3. [h.mem EXCEPT ![a] = v] \in [Addr -> Nat] BY <1>2
<1>4. g \in HeapType BY <1>1, <1>3 DEF HeapType
<1>5. g.mem = [h.mem EXCEPT ![a] = v] /\ g.fl_bitmap = h.fl_bitmap
      /\ g.sl_bitmap = h.sl_bitmap /\ g.blocks = h.blocks
  BY <1>1 DEF HeapType
<1> HIDE DEF g
<1>6. g.mem[a] = v /\ \A x \in Addr : x \notin {a} => g.mem[x] = h.mem[x] BY <1>2, <1>5
<1>7. Wrote(h, g, {a}) /\ g.mem[a] = v BY <1>4, <1>5, <1>6 DEF Wrote
<1> QED BY <1>7 DEF g

LEMMA WroteSame == ASSUME NEW h \in HeapType PROVE \A A : Wrote(h, h, A)
BY DEF Wrote

LEMMA WroteMore ==
    ASSUME NEW h, NEW g, NEW A, NEW B, Wrote(h, g, A), A \subseteq B
    PROVE  Wrote(h, g, B)
BY DEF Wrote

LEMMA WroteBoth ==
    ASSUME NEW h, NEW g, NEW k, NEW A, NEW B, Wrote(h, g, A), Wrote(g, k, B)
    PROVE  Wrote(h, k, A \cup B)
BY DEF Wrote

(* The size word of a header: a size and two flags.                        *)
LEMMA WordFacts ==
    ASSUME NEW w \in Nat
    PROVE  /\ w - (w % 4) \in Nat /\ (w - (w % 4)) % 4 = 0
           /\ w % 4 \in 0 .. 3
BY SMT

LEMMA HeadWord ==
    ASSUME NEW h \in HeapType, NEW b, b + W \in Addr
    PROVE  SizeWord(h, b) \in Nat /\ block_size(h, b) \in Nat /\ block_size(h, b) % 4 = 0
<1>1. h.mem \in [Addr -> Nat] BY DEF HeapType
<1>2. SizeWord(h, b) \in Nat BY <1>1 DEF SizeWord
<1> QED BY <1>2, WordFacts DEF block_size

LEMMA SameHead ==
    ASSUME NEW h, NEW g, NEW b, g.mem[b + W] = h.mem[b + W]
    PROVE  /\ SizeWord(g, b) = SizeWord(h, b) /\ block_size(g, b) = block_size(h, b)
           /\ block_is_free(g, b) = block_is_free(h, b)
           /\ block_is_prev_free(g, b) = block_is_prev_free(h, b)
           /\ block_next(g, b) = block_next(h, b)
BY DEF SizeWord, block_size, block_is_free, block_is_prev_free, block_next

(* Setting and clearing a flag.                                            *)
LEMMA FlagOnFacts ==
    ASSUME NEW h \in HeapType, NEW b, b + W \in Addr, NEW bit \in {1, 2}
    PROVE  /\ Wrote(h, FlagOn(h, b, bit), {b + W})
           /\ SizeWord(FlagOn(h, b, bit), b) =
                IF (SizeWord(h, b) \div bit) % 2 = 1 THEN SizeWord(h, b) ELSE SizeWord(h, b) + bit
<1>1. SizeWord(h, b) \in Nat BY HeadWord
<1>2. SizeWord(h, b) + bit \in Nat BY <1>1
<1>3. CASE (SizeWord(h, b) \div bit) % 2 = 1 BY <1>3, WroteSame DEF FlagOn
<1>4. CASE ~ ((SizeWord(h, b) \div bit) % 2 = 1)
  <2>1. FlagOn(h, b, bit) = Put(h, b + W, SizeWord(h, b) + bit) BY <1>4 DEF FlagOn
  <2>2. Wrote(h, FlagOn(h, b, bit), {b + W})
        /\ FlagOn(h, b, bit).mem[b + W] = SizeWord(h, b) + bit
    BY <1>2, <2>1, PutFacts
  <2>3. SizeWord(FlagOn(h, b, bit), b) = FlagOn(h, b, bit).mem[b + W] BY DEF SizeWord
  <2> QED BY <1>4, <2>2, <2>3
<1> QED BY <1>3, <1>4

LEMMA FlagOffFacts ==
    ASSUME NEW h \in HeapType, NEW b, b + W \in Addr, NEW bit \in {1, 2}
    PROVE  /\ Wrote(h, FlagOff(h, b, bit), {b + W})
           /\ SizeWord(FlagOff(h, b, bit), b) =
                IF (SizeWord(h, b) \div bit) % 2 = 0 THEN SizeWord(h, b) ELSE SizeWord(h, b) - bit
<1>1. SizeWord(h, b) \in Nat BY HeadWord
<1>3. CASE (SizeWord(h, b) \div bit) % 2 = 0 BY <1>3, WroteSame DEF FlagOff
<1>4. CASE ~ ((SizeWord(h, b) \div bit) % 2 = 0)
  <2>0. SizeWord(h, b) - bit \in Nat
    <3>1. CASE bit = 1 BY <1>1, <1>4, <3>1
    <3>2. CASE bit = 2 BY <1>1, <1>4, <3>2
    <3> QED BY <3>1, <3>2
  <2>1. FlagOff(h, b, bit) = Put(h, b + W, SizeWord(h, b) - bit) BY <1>4 DEF FlagOff
  <2>2. Wrote(h, FlagOff(h, b, bit), {b + W})
        /\ FlagOff(h, b, bit).mem[b + W] = SizeWord(h, b) - bit
    BY <2>0, <2>1, PutFacts
  <2>3. SizeWord(FlagOff(h, b, bit), b) = FlagOff(h, b, bit).mem[b + W] BY DEF SizeWord
  <2> QED BY <1>4, <2>2, <2>3
<1> QED BY <1>3, <1>4

(* A flag or the size is set: nothing else of the header changes.          *)
LEMMA SetFree ==
    ASSUME NEW h \in HeapType, NEW b, b + W \in Addr
    PROVE  LET g == block_set_free(h, b) IN
           /\ Wrote(h, g, {b + W}) /\ block_size(g, b) = block_size(h, b)
           /\ block_is_free(g, b)
           /\ block_is_prev_free(g, b) = block_is_prev_free(h, b)
<1> DEFINE g == block_set_free(h, b)
           w == SizeWord(h, b)
<1>1. Wrote(h, g, {b + W}) /\ SizeWord(g, b) = IF (w \div 1) % 2 = 1 THEN w ELSE w + 1
  BY FlagOnFacts DEF block_set_free
<1>2. w \in Nat BY HeadWord
<1> HIDE DEF g, w
<1>3. \A x \in Nat : LET y == IF (x \div 1) % 2 = 1 THEN x ELSE x + 1
                     IN  y - (y % 4) = x - (x % 4) /\ y % 2 = 1 /\ (y \div 2) % 2 = (x \div 2) % 2
  BY SMT
<1>4. block_size(g, b) = w - (w % 4) /\ SizeWord(g, b) % 2 = 1
      /\ (SizeWord(g, b) \div 2) % 2 = (w \div 2) % 2
  BY <1>1, <1>2, <1>3 DEF block_size
<1> QED BY <1>1, <1>4 DEF g, w, block_size, block_is_free, block_is_prev_free

LEMMA SetUsed ==
    ASSUME NEW h \in HeapType, NEW b, b + W \in Addr
    PROVE  LET g == block_set_used(h, b) IN
           /\ Wrote(h, g, {b + W}) /\ block_size(g, b) = block_size(h, b)
           /\ ~ block_is_free(g, b)
           /\ block_is_prev_free(g, b) = block_is_prev_free(h, b)
<1> DEFINE g == block_set_used(h, b)
           w == SizeWord(h, b)
<1>1. Wrote(h, g, {b + W}) /\ SizeWord(g, b) = IF (w \div 1) % 2 = 0 THEN w ELSE w - 1
  BY FlagOffFacts DEF block_set_used
<1>2. w \in Nat BY HeadWord
<1> HIDE DEF g, w
<1>3. \A x \in Nat : LET y == IF (x \div 1) % 2 = 0 THEN x ELSE x - 1
                     IN  y - (y % 4) = x - (x % 4) /\ y % 2 = 0 /\ (y \div 2) % 2 = (x \div 2) % 2
  BY SMT
<1>4. block_size(g, b) = w - (w % 4) /\ SizeWord(g, b) % 2 = 0
      /\ (SizeWord(g, b) \div 2) % 2 = (w \div 2) % 2
  BY <1>1, <1>2, <1>3 DEF block_size
<1>5. ~ (SizeWord(g, b) % 2 = 1) BY <1>4
<1> QED BY <1>1, <1>4, <1>5 DEF g, w, block_size, block_is_free, block_is_prev_free

LEMMA SetPrevFree ==
    ASSUME NEW h \in HeapType, NEW b, b + W \in Addr
    PROVE  LET g == block_set_prev_free(h, b) IN
           /\ Wrote(h, g, {b + W}) /\ block_size(g, b) = block_size(h, b)
           /\ block_is_free(g, b) = block_is_free(h, b)
           /\ block_is_prev_free(g, b)
<1> DEFINE g == block_set_prev_free(h, b)
           w == SizeWord(h, b)
<1>1. Wrote(h, g, {b + W}) /\ SizeWord(g, b) = IF (w \div 2) % 2 = 1 THEN w ELSE w + 2
  BY FlagOnFacts DEF block_set_prev_free
<1>2. w \in Nat BY HeadWord
<1> HIDE DEF g, w
<1>3. \A x \in Nat : LET y == IF (x \div 2) % 2 = 1 THEN x ELSE x + 2
                     IN  y - (y % 4) = x - (x % 4) /\ y % 2 = x % 2 /\ (y \div 2) % 2 = 1
  BY SMT
<1>4. block_size(g, b) = w - (w % 4) /\ SizeWord(g, b) % 2 = w % 2
      /\ (SizeWord(g, b) \div 2) % 2 = 1
  BY <1>1, <1>2, <1>3 DEF block_size
<1> QED BY <1>1, <1>4 DEF g, w, block_size, block_is_free, block_is_prev_free

LEMMA SetPrevUsed ==
    ASSUME NEW h \in HeapType, NEW b, b + W \in Addr
    PROVE  LET g == block_set_prev_used(h, b) IN
           /\ Wrote(h, g, {b + W}) /\ block_size(g, b) = block_size(h, b)
           /\ block_is_free(g, b) = block_is_free(h, b)
           /\ ~ block_is_prev_free(g, b)
<1> DEFINE g == block_set_prev_used(h, b)
           w == SizeWord(h, b)
<1>1. Wrote(h, g, {b + W}) /\ SizeWord(g, b) = IF (w \div 2) % 2 = 0 THEN w ELSE w - 2
  BY FlagOffFacts DEF block_set_prev_used
<1>2. w \in Nat BY HeadWord
<1> HIDE DEF g, w
<1>3. \A x \in Nat : LET y == IF (x \div 2) % 2 = 0 THEN x ELSE x - 2
                     IN  y - (y % 4) = x - (x % 4) /\ y % 2 = x % 2 /\ (y \div 2) % 2 = 0
  BY SMT
<1>4. block_size(g, b) = w - (w % 4) /\ SizeWord(g, b) % 2 = w % 2
      /\ (SizeWord(g, b) \div 2) % 2 = 0
  BY <1>1, <1>2, <1>3 DEF block_size
<1>5. ~ ((SizeWord(g, b) \div 2) % 2 = 1) BY <1>4
<1> QED BY <1>1, <1>4, <1>5 DEF g, w, block_size, block_is_free, block_is_prev_free

LEMMA SetSize ==
    ASSUME NEW h \in HeapType, NEW b, b + W \in Addr, NEW size, Aligned(size)
    PROVE  LET g == block_set_size(h, b, size) IN
           /\ Wrote(h, g, {b + W}) /\ block_size(g, b) = size
           /\ block_is_free(g, b) = block_is_free(h, b)
           /\ block_is_prev_free(g, b) = block_is_prev_free(h, b)
<1> DEFINE g == block_set_size(h, b, size)
           w == SizeWord(h, b)
<1>1. size \in Nat /\ size % 4 = 0 BY AlignedMod
<1>2. w \in Nat BY HeadWord
<1>3. size + (w % 4) \in Nat BY <1>1, <1>2
<1>4. Wrote(h, g, {b + W}) /\ g.mem[b + W] = size + (w % 4)
  BY <1>3, PutFacts DEF block_set_size
<1>5. SizeWord(g, b) = size + (w % 4) BY <1>4 DEF SizeWord
<1> HIDE DEF g, w
<1>6. \A x, y \in Nat : y % 4 = 0 =>
         LET z == y + (x % 4)
         IN  z - (z % 4) = y /\ z % 2 = x % 2 /\ (z \div 2) % 2 = (x \div 2) % 2
  BY SMT
<1>7. block_size(g, b) = size /\ SizeWord(g, b) % 2 = w % 2
      /\ (SizeWord(g, b) \div 2) % 2 = (w \div 2) % 2
  BY <1>1, <1>2, <1>5, <1>6 DEF block_size
<1> QED BY <1>4, <1>7 DEF g, w, block_size, block_is_free, block_is_prev_free

LEMMA PoolSizeIs ==
    ASSUME NEW bytes, Aligned(bytes), 2 * W <= bytes
    PROVE  PoolSize(bytes) = bytes - 2 * W /\ Aligned(bytes - 2 * W)
<1>1. Aligned(bytes - 2 * W) BY AlignedDiff, AlignedWords
<1>2. bytes - 2 * W \in Nat /\ (bytes - 2 * W) % W = 0 BY <1>1 DEF Aligned
<1> DEFINE y == bytes - 2 * W
<1>3. PoolSize(bytes) = y - (y % W) BY Layout DEF PoolSize, align_down
<1>4. y \in Nat /\ y % W = 0 BY <1>2
<1> HIDE DEF y
<1>5. y - (y % W) = y BY <1>4
<1> QED BY <1>1, <1>3, <1>5 DEF y

(* Where pools lie: inside the memory, apart, too small for the largest    *)
(* size class to overflow.                                                 *)
LEMMA Pools ==
    ASSUME NEW P, PoolsOK(P), NEW pool \in P
    PROVE  /\ Aligned(pool) /\ Aligned(Lo(pool)) /\ Aligned(Hi(pool))
           /\ ARENA + 4 * W <= Lo(pool) /\ Lo(pool) + 4 * W <= Hi(pool)
           /\ Hi(pool) - Lo(pool) - W < block_size_max
           /\ PoolSize(PoolBytes(pool)) = Hi(pool) - Lo(pool) - W
           /\ Aligned(PoolBytes(pool)) /\ 5 * W <= PoolBytes(pool)
           /\ \A x : Aligned(x) /\ Lo(pool) <= x /\ x <= Hi(pool) + W => x \in Addr
           /\ \A q \in P : q < pool => Hi(q) + W < Lo(pool)
<1> DEFINE n == PoolBytes(pool)
<1>1. pool \in {tlsf_get_pool, Extra.mem} /\ PoolFits(n) BY DEF PoolsOK
<1>2. Aligned(tlsf_get_pool) /\ Aligned(Bytes - tlsf_size) /\ Bytes - tlsf_size >= 2 * W
  <2>1. tlsf_size <= Bytes /\ Bytes - tlsf_size >= 2 * W BY Places, Layout DEF Aligned
  <2> QED BY <2>1, Places, Layout, AlignedWords, AlignedSum, AlignedDiff
<1>3. Aligned(pool) /\ Aligned(n) /\ n >= 2 * W BY <1>1, <1>2, Places DEF PoolBytes
<1>4. PoolSize(n) = n - 2 * W /\ 3 * W <= n - 2 * W /\ n - 2 * W <= block_size_max
  <2>1. PoolSize(n) = n - 2 * W /\ n - 2 * W \in Nat BY <1>3, PoolSizeIs DEF Aligned
  <2>2. n - 2 * W \in block_size_min .. block_size_max BY <1>1, <2>1 DEF PoolFits
  <2> QED BY <2>1, <2>2, Layout
<1>5. n - 2 * W # block_size_max
  <2>1. tlsf_size = 5 * W /\ Bytes \in Nat BY Layout, Places DEF Aligned
  <2>2. (Bytes - tlsf_size) - 2 * W = Bytes - 7 * W BY <2>1, Layout
  <2> QED BY <2>2, Places DEF PoolBytes
<1>6. block_size_max \in Nat BY Pow2Def, TlsfConstants DEF block_size_max
<1>7. /\ pool \in Nat /\ n \in Nat /\ Lo(pool) = pool - W /\ Hi(pool) = pool + n - 2 * W
      /\ ARENA \in Nat
  BY <1>3, Places DEF Lo, Hi, Aligned
<1>8. \/ pool = ARENA + 5 * W /\ n = Bytes - 5 * W
      \/ pool = Extra.mem /\ n = Extra.bytes
  BY <1>1, Layout DEF PoolBytes
<1>9. /\ Extra.mem \in Nat /\ Extra.bytes \in Nat /\ Bytes \in Nat /\ Bytes >= 7 * W
      /\ Extra.mem >= ARENA + Bytes + W
  BY Places DEF Aligned
<1> HIDE DEF n
<1>10. pool >= ARENA + 5 * W BY <1>7, <1>8, <1>9, Layout
<1>11. /\ ARENA + 4 * W <= Lo(pool) /\ Lo(pool) + 4 * W <= Hi(pool) /\ 5 * W <= n
       /\ Hi(pool) - Lo(pool) - W < block_size_max /\ n - 2 * W = Hi(pool) - Lo(pool) - W
  BY <1>4, <1>5, <1>6, <1>7, <1>10, Layout
<1>12. Aligned(Lo(pool)) /\ Aligned(Hi(pool))
  <2>1. W <= pool /\ 2 * W <= pool + n BY <1>3, <1>7, <1>10, Layout
  <2>2. Aligned(pool + n) BY <1>3, AlignedSum
  <2>3. Aligned(pool - W) BY <1>3, <2>1, AlignedWords, AlignedDiff
  <2>4. ASSUME NEW e, Aligned(e), 2 * W <= e PROVE Aligned(e - 2 * W)
    BY <2>4, AlignedWords, AlignedDiff
  <2>5. Aligned((pool + n) - 2 * W) BY <2>1, <2>2, <2>4
  <2>6. Hi(pool) = (pool + n) - 2 * W BY <1>7, Layout
  <2> QED BY <1>7, <2>3, <2>5, <2>6
<1>13. ASSUME NEW x, Aligned(x), Lo(pool) <= x, x <= Hi(pool) + W PROVE x \in Addr
  <2>1. x \in Nat BY <1>13 DEF Aligned
  <2>2. \/ ARENA <= x /\ x < ARENA + Bytes
        \/ Extra.mem - W <= x /\ x < Extra.mem + Extra.bytes
    BY <1>7, <1>8, <1>9, <1>13, <2>1, Layout
  <2> QED BY <1>13, <2>2, AddrIs
<1>14. ASSUME NEW q \in P, q < pool PROVE Hi(q) + W < Lo(pool)
  <2>1. q \in {tlsf_get_pool, Extra.mem} BY DEF PoolsOK
  <2>2. tlsf_get_pool < Extra.mem /\ tlsf_get_pool \in Nat BY <1>9, <1>7, Layout
  <2>3. q = tlsf_get_pool /\ pool = Extra.mem BY <1>1, <1>9, <1>14, <2>1, <2>2
  <2>4. Hi(q) = ARENA + 5 * W + (Bytes - 5 * W) - 2 * W BY <2>3, Layout DEF Hi, PoolBytes
  <2> QED BY <2>3, <2>4, <1>7, <1>9, Layout
<1> QED BY <1>3, <1>4, <1>11, <1>12, <1>13, <1>14 DEF n

-----------------------------------------------------------------------------
(* Where a block lies.                                                     *)
LEMMA BlockPlace ==
    ASSUME NEW P, PoolsOK(P), NEW S, NEW z, Chain(S, z, P), NEW b \in S
    PROVE  /\ Aligned(b) /\ Aligned(b + W) /\ Aligned(z[b]) /\ Aligned(Nx(z, b))
           /\ b \in Nat /\ z[b] \in Nat /\ Nx(z, b) \in Nat /\ Nx(z, b) = b + W + z[b]
           /\ ARENA + 4 * W <= b /\ b \in Addr /\ b + W \in Addr
           /\ b \notin Ends(P) =>
                 /\ 3 * W <= z[b] /\ z[b] < block_size_max /\ Nx(z, b) \in S /\ b + 4 * W <= Nx(z, b)
                 /\ Nx(z, b) \in Addr /\ Nx(z, b) + W \in Addr
                 /\ b + 2 * W \in Addr /\ b + 3 * W \in Addr
                 /\ \A x : Aligned(x) /\ b <= x /\ x <= Nx(z, b) + W => x \in Addr
           /\ b \in Ends(P) => z[b] = 0
<1>1. PICK pool \in P : Lo(pool) <= b /\ b <= Hi(pool) BY DEF Chain
<1>2. Aligned(b) /\ Aligned(z[b]) /\ b \in Nat /\ z[b] \in Nat BY DEF Chain, Aligned
<1>3. Aligned(b + W) /\ Aligned(Nx(z, b)) BY <1>2, AlignedWords, AlignedSum DEF Nx
<1>4. Nx(z, b) = b + W + z[b] BY DEF Nx
<1>5. /\ ARENA + 4 * W <= Lo(pool) /\ Lo(pool) \in Nat /\ Hi(pool) \in Nat /\ ARENA \in Nat
      /\ Hi(pool) - Lo(pool) - W < block_size_max
      /\ \A x : Aligned(x) /\ Lo(pool) <= x /\ x <= Hi(pool) + W => x \in Addr
  BY Pools, Places DEF Aligned
<1>6. Nx(z, b) \in Nat BY <1>3 DEF Aligned
<1>7. b \in Addr /\ b + W \in Addr
  <2>1. b <= Hi(pool) + W /\ Lo(pool) <= b + W /\ b + W <= Hi(pool) + W
    BY <1>1, <1>2, <1>5, Layout
  <2> QED BY <1>1, <1>2, <1>3, <1>5, <2>1
<1>8. ARENA + 4 * W <= b BY <1>1, <1>2, <1>5, Layout
<1>9. b \in Ends(P) => z[b] = 0 BY DEF Chain
<1>10. ASSUME b \notin Ends(P)
       PROVE  /\ 3 * W <= z[b] /\ z[b] < block_size_max /\ Nx(z, b) \in S /\ b + 4 * W <= Nx(z, b)
              /\ Nx(z, b) \in Addr /\ Nx(z, b) + W \in Addr
              /\ b + 2 * W \in Addr /\ b + 3 * W \in Addr
              /\ \A x : Aligned(x) /\ b <= x /\ x <= Nx(z, b) + W => x \in Addr
  <2>1. 3 * W <= z[b] /\ Nx(z, b) \in S BY <1>10 DEF Chain
  <2>2. Hi(pool) \in S /\ b # Hi(pool) BY <1>10 DEF Chain, Ends
  <2>3. b < Hi(pool) BY <1>1, <1>2, <1>5, <2>2
  <2>4. Nx(z, b) <= Hi(pool) BY <2>2, <2>3 DEF Chain
  <2>5. block_size_max \in Nat BY Pow2Def, TlsfConstants DEF block_size_max
  <2>6. z[b] < block_size_max /\ b + 4 * W <= Nx(z, b)
    BY <1>1, <1>2, <1>4, <1>5, <2>1, <2>4, <2>5, Layout
  <2>7. \A x : Aligned(x) /\ b <= x /\ x <= Nx(z, b) + W => x \in Addr
    <3> SUFFICES ASSUME NEW x, Aligned(x), b <= x, x <= Nx(z, b) + W PROVE x \in Addr
      OBVIOUS
    <3>1. x \in Nat BY DEF Aligned
    <3>2. Lo(pool) <= x /\ x <= Hi(pool) + W BY <1>1, <1>2, <1>5, <1>6, <2>4, <3>1, Layout
    <3> QED BY <1>5, <3>2
  <2>8. /\ Aligned(Nx(z, b) + W) /\ Aligned(b + 2 * W) /\ Aligned(b + 3 * W)
    BY <1>2, <1>3, AlignedWords, AlignedSum
  <2>9. /\ b <= Nx(z, b) /\ Nx(z, b) <= Nx(z, b) + W /\ b <= Nx(z, b) + W
        /\ b <= b + 2 * W /\ b + 2 * W <= Nx(z, b) + W
        /\ b <= b + 3 * W /\ b + 3 * W <= Nx(z, b) + W
        /\ Nx(z, b) + W <= Nx(z, b) + W
    BY <1>2, <1>6, <2>6, Layout
  <2> HIDE DEF Nx
  <2> QED BY <1>3, <2>1, <2>6, <2>7, <2>8, <2>9
<1> QED BY <1>2, <1>3, <1>4, <1>6, <1>7, <1>8, <1>9, <1>10

(* Blocks share no word.                                                   *)
LEMMA Apart ==
    ASSUME NEW P, PoolsOK(P), NEW S, NEW z, Chain(S, z, P), NEW a \in S, NEW b \in S, a # b,
           NEW x \in Nat, NEW y \in Nat, a < x, x <= Nx(z, a), b < y, y <= Nx(z, b)
    PROVE  x # y
<1>1. a \in Nat /\ b \in Nat /\ Nx(z, a) \in Nat /\ Nx(z, b) \in Nat BY BlockPlace
<1>2. CASE a < b
  <2>1. Nx(z, a) <= b BY <1>2 DEF Chain
  <2> QED BY <1>1, <2>1
<1>3. CASE b < a
  <2>1. Nx(z, b) <= a BY <1>3 DEF Chain
  <2> QED BY <1>1, <2>1
<1> QED BY <1>1, <1>2, <1>3

LEMMA NextDiffers ==
    ASSUME NEW P, PoolsOK(P), NEW S, NEW z, Chain(S, z, P), NEW a \in S, NEW b \in S, a # b
    PROVE  Nx(z, a) # Nx(z, b)
<1>1. /\ a \in Nat /\ b \in Nat /\ Nx(z, a) \in Nat /\ Nx(z, b) \in Nat
      /\ z[a] \in Nat /\ z[b] \in Nat
      /\ Nx(z, a) = a + W + z[a] /\ Nx(z, b) = b + W + z[b]
  BY BlockPlace
<1>2. a < Nx(z, a) /\ b < Nx(z, b) BY <1>1, Layout
<1>3. Nx(z, a) <= Nx(z, a) /\ Nx(z, b) <= Nx(z, b) BY <1>1
<1> QED BY <1>1, <1>2, <1>3, Apart

(* Blocks still tile the pools after block_split, block_absorb,            *)
(* tlsf_add_pool and tlsf_remove_pool.                                     *)
LEMMA ChainSplit ==
    ASSUME NEW P, PoolsOK(P), NEW S, NEW z, Chain(S, z, P), NEW b \in S, b \notin Ends(P),
           NEW size, Aligned(size), 3 * W <= size, size + 4 * W <= z[b]
    PROVE  SplitIs(S, z, b, size, P)
<1> DEFINE r == b + W + size
           T == S \cup {r}
           y == SplitSizes(S, z, b, size)
<1>1. /\ b \in Nat /\ z[b] \in Nat /\ Nx(z, b) = b + W + z[b] /\ Nx(z, b) \in S
      /\ Aligned(b) /\ Aligned(z[b]) /\ Nx(z, b) \in Nat
  BY BlockPlace
<1>2. size \in Nat BY DEF Aligned
<1>3. r \in Nat /\ b < r /\ r < Nx(z, b) /\ r + 4 * W <= Nx(z, b) /\ z[b] - size - W >= 3 * W
      /\ size <= z[b] /\ W <= z[b] - size
  BY <1>1, <1>2, Layout
<1>4. Aligned(r) /\ Aligned(z[b] - size - W)
  <2>1. Aligned(b + W) BY <1>1, AlignedWords, AlignedSum
  <2>2. Aligned(r) BY <2>1, AlignedSum
  <2>3. Aligned(z[b] - size) BY <1>1, <1>3, AlignedDiff
  <2>4. Aligned((z[b] - size) - W) BY <1>3, <2>3, AlignedWords, AlignedDiff
  <2> QED BY <2>2, <2>4
<1>5. r \notin S
  <2> SUFFICES ASSUME r \in S PROVE FALSE OBVIOUS
  <2>1. Nx(z, b) <= r BY <1>3 DEF Chain
  <2> QED BY <1>1, <1>3, <2>1
<1>6. r \notin Ends(P) BY <1>5 DEF Chain, Ends
<1>7. r # b BY <1>1, <1>3
<1>8. y[b] = size /\ y[r] = z[b] - size - W /\ \A c \in S : c # b => y[c] = z[c]
  BY <1>5, <1>7 DEF SplitSizes
<1>9. Nx(y, b) = r BY <1>8 DEF Nx
<1>10. Nx(y, r) = Nx(z, b) BY <1>1, <1>2, <1>8, Layout DEF Nx
<1>11. \A c \in S : c # b => Nx(y, c) = Nx(z, c) BY <1>8 DEF Nx
<1> HIDE DEF r, y
<1>12. Chain(T, y, P)
  <2>1. \A pool \in P : Lo(pool) \in T /\ Hi(pool) \in T BY DEF Chain
  <2>2. ASSUME NEW c \in T
        PROVE  /\ Aligned(c) /\ Aligned(y[c])
               /\ \E pool \in P : Lo(pool) <= c /\ c <= Hi(pool)
               /\ c \in Ends(P) => y[c] = 0
               /\ c \notin Ends(P) => 3 * W <= y[c] /\ Nx(y, c) \in T
               /\ c \in Starts(P) \/ \E a \in T \ Ends(P) : Nx(y, a) = c
    <3>1. CASE c = r
      <4>1. PICK pool \in P : Lo(pool) <= b /\ b <= Hi(pool) BY DEF Chain
      <4>2. Hi(pool) \in S /\ b # Hi(pool) /\ Lo(pool) \in Nat /\ Hi(pool) \in Nat
        BY Pools DEF Chain, Ends, Aligned
      <4>3. b < Hi(pool) BY <1>1, <4>1, <4>2
      <4>4. Nx(z, b) <= Hi(pool) BY <4>2, <4>3 DEF Chain
      <4>5. Lo(pool) <= r /\ r <= Hi(pool) BY <1>1, <1>3, <4>1, <4>2, <4>4
      <4>6. 3 * W <= y[r] BY <1>3, <1>8
      <4>7. b \in T \ Ends(P) /\ Nx(y, b) = r BY <1>9
      <4> QED BY <1>1, <1>4, <1>6, <1>8, <1>10, <3>1, <4>5, <4>6, <4>7
    <3>2. CASE c = b
      <4>1. /\ Aligned(b) /\ \E pool \in P : Lo(pool) <= b /\ b <= Hi(pool)
            /\ b \in Starts(P) \/ \E a \in S \ Ends(P) : Nx(z, a) = b
        BY DEF Chain
      <4>2. \A a \in S : Nx(z, a) = b => a # b BY <1>1, <1>3
      <4>3. b \in Starts(P) \/ \E a \in T \ Ends(P) : Nx(y, a) = b BY <1>11, <4>1, <4>2
      <4> QED BY <1>8, <1>9, <3>2, <4>1, <4>3
    <3>3. CASE c \in S /\ c # b
      <4>1. /\ Aligned(c) /\ Aligned(z[c]) /\ \E pool \in P : Lo(pool) <= c /\ c <= Hi(pool)
            /\ c \in Ends(P) => z[c] = 0
            /\ c \notin Ends(P) => 3 * W <= z[c] /\ Nx(z, c) \in S
            /\ c \in Starts(P) \/ \E a \in S \ Ends(P) : Nx(z, a) = c
        BY <3>3 DEF Chain
      <4>2. y[c] = z[c] /\ Nx(y, c) = Nx(z, c) BY <1>8, <1>11, <3>3
      <4>3. ASSUME NEW a \in S \ Ends(P), Nx(z, a) = c PROVE \E e \in T \ Ends(P) : Nx(y, e) = c
        <5>1. CASE a = b BY <1>6, <1>10, <4>3, <5>1
        <5>2. CASE a # b BY <1>11, <4>3, <5>2
        <5> QED BY <5>1, <5>2
      <4> QED BY <4>1, <4>2, <4>3
    <3> QED BY <3>1, <3>2, <3>3
  <2>3. ASSUME NEW a \in T, NEW c \in T, a < c PROVE Nx(y, a) <= c
    <3>0. \A e \in S : e \in Nat /\ Nx(z, e) \in Nat /\ e <= Nx(z, e)
      <4> SUFFICES ASSUME NEW e \in S PROVE e \in Nat /\ Nx(z, e) \in Nat /\ e <= Nx(z, e)
        OBVIOUS
      <4>1. e \in Nat /\ z[e] \in Nat /\ Nx(z, e) = e + W + z[e] /\ Nx(z, e) \in Nat BY BlockPlace
      <4> QED BY <4>1, Layout
    <3>1. CASE a = r
      <4>1. c \in S /\ c # b BY <1>1, <1>3, <2>3, <3>1
      <4>2. b < c BY <1>1, <1>3, <2>3, <3>0, <3>1, <4>1
      <4>3. Nx(z, b) <= c BY <4>1, <4>2 DEF Chain
      <4> QED BY <1>10, <3>1, <4>3
    <3>2. CASE a = b
      <4>1. CASE c = r BY <1>3, <1>9, <3>2, <4>1
      <4>2. CASE c # r
        <5>1. c \in S BY <4>2
        <5>2. Nx(z, b) <= c BY <2>3, <3>2, <5>1 DEF Chain
        <5>3. r <= c BY <1>3, <1>1, <3>0, <5>1, <5>2
        <5> QED BY <1>9, <3>2, <5>3
      <4> QED BY <4>1, <4>2
    <3>3. CASE a \in S /\ a # b
      <4>1. Nx(y, a) = Nx(z, a) BY <1>11, <3>3
      <4>2. CASE c = r
        <5>1. ~ (b < a)
          <6> SUFFICES ASSUME b < a PROVE FALSE OBVIOUS
          <6>1. Nx(z, b) <= a BY <3>3 DEF Chain
          <6> QED BY <1>1, <1>3, <2>3, <3>0, <3>3, <4>2, <6>1
        <5>2. a < b BY <1>1, <3>0, <3>3, <5>1
        <5>3. Nx(z, a) <= b BY <3>3, <5>2 DEF Chain
        <5> QED BY <1>1, <1>3, <3>0, <3>3, <4>1, <4>2, <5>3
      <4>3. CASE c \in S
        <5>1. Nx(z, a) <= c BY <2>3, <3>3, <4>3 DEF Chain
        <5> QED BY <4>1, <5>1
      <4> QED BY <4>2, <4>3
    <3> QED BY <3>1, <3>2, <3>3
  <2> HIDE DEF T
  <2> QED BY <2>1, <2>2, <2>3 DEF Chain
<1> QED BY <1>5, <1>6, <1>7, <1>8, <1>9, <1>10, <1>11, <1>12 DEF r, y, SplitIs

LEMMA ChainAbsorb ==
    ASSUME NEW P, PoolsOK(P), NEW S, NEW z, Chain(S, z, P),
           NEW a \in S, a \notin Ends(P), NEW b, b = Nx(z, a), b \notin Ends(P)
    PROVE  AbsorbIs(S, z, a, b, P)
<1> DEFINE T == S \ {b}
           y == AbsorbSizes(S, z, a, b)
<1>1. /\ a \in Nat /\ z[a] \in Nat /\ Nx(z, a) = a + W + z[a] /\ b \in S
      /\ Aligned(a) /\ Aligned(z[a])
  BY BlockPlace
<1>2. /\ b \in Nat /\ z[b] \in Nat /\ Nx(z, b) = b + W + z[b] /\ Nx(z, b) \in S
      /\ Aligned(z[b]) /\ Nx(z, b) \in Nat /\ 3 * W <= z[b]
  BY <1>1, BlockPlace
<1>3. a < b /\ b < Nx(z, b) BY <1>1, <1>2, Layout
<1>4. a # b /\ b # Nx(z, b) BY <1>1, <1>2, <1>3
<1>5. y[a] = z[a] + z[b] + W /\ \A c \in T : c # a => y[c] = z[c] BY <1>4 DEF AbsorbSizes
<1>6. Nx(y, a) = Nx(z, b) BY <1>1, <1>2, <1>5, Layout DEF Nx
<1>7. \A c \in T : c # a => Nx(y, c) = Nx(z, c) BY <1>5 DEF Nx
<1>8. Aligned(y[a]) /\ 3 * W <= y[a]
  <2>1. Aligned(z[a] + z[b]) BY <1>1, <1>2, AlignedSum
  <2>2. Aligned((z[a] + z[b]) + W) BY <2>1, AlignedWords, AlignedSum
  <2> QED BY <1>1, <1>2, <1>5, <2>2, Layout
<1> HIDE DEF y
<1>9. b \notin Starts(P)
  <2> SUFFICES ASSUME NEW pool \in P, b = Lo(pool) PROVE FALSE BY DEF Starts
  <2>1. PICK q \in P : Lo(q) <= a /\ a <= Hi(q) BY DEF Chain
  <2>2. /\ Lo(q) \in Nat /\ Hi(q) \in Nat /\ Lo(pool) \in Nat /\ Hi(pool) \in Nat
        /\ q \in Nat /\ pool \in Nat /\ Lo(pool) < Hi(pool) /\ Lo(q) < Hi(q)
    <3>1. /\ Aligned(Lo(q)) /\ Aligned(Hi(q)) /\ Aligned(Lo(pool)) /\ Aligned(Hi(pool))
          /\ Aligned(q) /\ Aligned(pool)
          /\ Lo(pool) + 4 * W <= Hi(pool) /\ Lo(q) + 4 * W <= Hi(q)
      BY Pools
    <3> QED BY <3>1, Layout DEF Aligned
  <2>3. Hi(q) \in S /\ a # Hi(q) BY DEF Chain, Ends
  <2>4. a < Hi(q) BY <1>1, <2>1, <2>2, <2>3
  <2>5. b <= Hi(q) BY <2>3, <2>4 DEF Chain
  <2>6. CASE q = pool BY <1>1, <1>2, <1>3, <2>1, <2>2, <2>6
  <2>7. CASE q < pool
    <3>1. Hi(q) + W < Lo(pool) BY <2>7, Pools
    <3> QED BY <1>2, <2>2, <2>5, <3>1, Layout
  <2>8. CASE pool < q
    <3>1. Hi(pool) + W < Lo(q) BY <2>8, Pools
    <3> QED BY <1>1, <1>2, <1>3, <2>1, <2>2, <3>1, Layout
  <2> QED BY <2>2, <2>6, <2>7, <2>8
<1>10. Chain(T, y, P)
  <2>1. \A pool \in P : Lo(pool) \in T /\ Hi(pool) \in T BY <1>9 DEF Chain, Starts, Ends
  <2>2. ASSUME NEW c \in T
        PROVE  /\ Aligned(c) /\ Aligned(y[c])
               /\ \E pool \in P : Lo(pool) <= c /\ c <= Hi(pool)
               /\ c \in Ends(P) => y[c] = 0
               /\ c \notin Ends(P) => 3 * W <= y[c] /\ Nx(y, c) \in T
               /\ c \in Starts(P) \/ \E e \in T \ Ends(P) : Nx(y, e) = c
    <3>1. /\ Aligned(c) /\ Aligned(z[c]) /\ \E pool \in P : Lo(pool) <= c /\ c <= Hi(pool)
          /\ c \in Ends(P) => z[c] = 0
          /\ c \notin Ends(P) => 3 * W <= z[c] /\ Nx(z, c) \in S
          /\ c \in Starts(P) \/ \E e \in S \ Ends(P) : Nx(z, e) = c
      BY DEF Chain
    <3>2. ASSUME NEW e \in S \ Ends(P), Nx(z, e) = c PROVE \E f \in T \ Ends(P) : Nx(y, f) = c
      <4>1. CASE e = b BY <1>4, <1>6, <3>2, <4>1
      <4>2. CASE e = a BY <3>2, <4>2
      <4>3. CASE e # a /\ e # b BY <1>7, <3>2, <4>3
      <4> QED BY <4>1, <4>2, <4>3
    <3>3. CASE c = a BY <1>2, <1>4, <1>6, <1>8, <3>1, <3>2, <3>3
    <3>4. CASE c # a
      <4>1. Nx(z, c) # b BY <3>4, NextDiffers
      <4> QED BY <1>5, <1>7, <3>1, <3>2, <3>4, <4>1
    <3> QED BY <3>3, <3>4
  <2>3. ASSUME NEW e \in T, NEW c \in T, e < c PROVE Nx(y, e) <= c
    <3>1. CASE e = a
      <4>0. c \in Nat BY BlockPlace
      <4>1. b <= c /\ c # b BY <2>3, <3>1 DEF Chain
      <4>2. b < c BY <1>2, <4>0, <4>1
      <4>3. Nx(z, b) <= c BY <1>1, <4>2 DEF Chain
      <4> QED BY <1>6, <3>1, <4>3
    <3>2. CASE e # a
      <4>1. Nx(z, e) <= c BY <2>3 DEF Chain
      <4> QED BY <1>7, <3>2, <4>1
    <3> QED BY <3>1, <3>2
  <2> HIDE DEF T
  <2> QED BY <2>1, <2>2, <2>3 DEF Chain
<1> QED BY <1>1, <1>2, <1>4, <1>5, <1>6, <1>7, <1>10 DEF y, AbsorbIs

(* The blocks of two pools are apart.                                      *)
LEMMA PoolsApart ==
    ASSUME NEW P, PoolsOK(P), NEW p \in P, NEW q \in P, p # q, NEW x \in Nat, NEW y \in Nat,
           Lo(p) <= x, x <= Hi(p) + W, Lo(q) <= y, y <= Hi(q) + W
    PROVE  x # y /\ (x < y => x <= Hi(p) + W /\ Hi(p) + W < Lo(q))
<1>1. /\ Lo(q) \in Nat /\ Hi(q) \in Nat /\ Lo(p) \in Nat /\ Hi(p) \in Nat
      /\ q \in Nat /\ p \in Nat
  <2>1. /\ Aligned(Lo(q)) /\ Aligned(Hi(q)) /\ Aligned(Lo(p)) /\ Aligned(Hi(p))
        /\ Aligned(q) /\ Aligned(p)
    BY Pools
  <2> QED BY <2>1 DEF Aligned
<1>2. CASE q < p
  <2>1. Hi(q) + W < Lo(p) BY <1>2, Pools
  <2> QED BY <1>1, <2>1, Layout
<1>3. CASE p < q
  <2>1. Hi(p) + W < Lo(q) BY <1>3, Pools
  <2> QED BY <1>1, <2>1, Layout
<1> QED BY <1>1, <1>2, <1>3

LEMMA ChainAddPool ==
    ASSUME NEW P, NEW pool, pool \notin P, PoolsOK(P \cup {pool}),
           NEW S, NEW z, Chain(S, z, P)
    PROVE  AddPoolIs(S, z, pool, P)
<1> DEFINE Q == P \cup {pool}
           l == Lo(pool)
           u == Hi(pool)
           T == S \cup {l, u}
           y == PoolSizes(S, z, pool)
<1>1. PoolsOK(P) BY DEF PoolsOK
<1>2. /\ l \in Nat /\ u \in Nat /\ Aligned(l) /\ Aligned(u) /\ l + 4 * W <= u
  <2>1. Aligned(l) /\ Aligned(u) /\ l + 4 * W <= u BY Pools
  <2> QED BY <2>1 DEF Aligned
<1>3. ASSUME NEW c \in S
      PROVE  /\ c \in Nat /\ Nx(z, c) \in Nat /\ c < Nx(z, c) /\ c # l /\ c # u
             /\ (l < c => u < c) /\ (u < c => l < c) /\ (c < l <=> c < u)
             /\ (c < l => Nx(z, c) <= l)
  <2>1. PICK q \in P : Lo(q) <= c /\ c <= Hi(q) BY DEF Chain
  <2>2. /\ c \in Nat /\ z[c] \in Nat /\ Nx(z, c) = c + W + z[c] /\ Nx(z, c) \in Nat
        /\ c \in Ends(P) => z[c] = 0
    BY <1>1, BlockPlace
  <2>3. /\ q # pool /\ q \in Q /\ pool \in Q /\ Hi(q) \in Nat /\ Lo(q) \in Nat
    <3>1. q # pool /\ q \in Q /\ pool \in Q OBVIOUS
    <3>2. Aligned(Hi(q)) /\ Aligned(Lo(q)) BY <1>1, Pools
    <3> QED BY <3>1, <3>2 DEF Aligned
  <2>4. /\ c <= Hi(q) + W /\ l <= u + W /\ u <= u + W /\ l <= u /\ l <= l
    BY <1>2, <2>1, <2>2, <2>3, Layout
  <2> HIDE DEF l, u, Q
  <2>5. c # l /\ (c < l => Hi(q) + W < l)
    BY <1>2, <2>1, <2>2, <2>3, <2>4, PoolsApart DEF l, u, Q
  <2>6. c # u /\ (c < u => Hi(q) + W < l)
    BY <1>2, <2>1, <2>2, <2>3, <2>4, PoolsApart DEF l, u, Q
  <2>7. (l < c => u + W < Lo(q)) /\ (u < c => u + W < Lo(q))
    BY <1>2, <2>1, <2>2, <2>3, <2>4, PoolsApart DEF l, u, Q
  <2>8. Nx(z, c) <= Hi(q) + W
    <3>1. CASE c = Hi(q)
      <4>1. z[c] = 0 BY <2>2, <3>1 DEF Ends
      <4> QED BY <2>2, <2>3, <3>1, <4>1, Layout
    <3>2. CASE c # Hi(q)
      <4>1. c < Hi(q) BY <2>1, <2>2, <2>3, <3>2
      <4>2. Nx(z, c) <= Hi(q) BY <4>1 DEF Chain
      <4> QED BY <2>2, <2>3, <4>2, Layout
    <3> QED BY <3>1, <3>2
  <2> QED BY <1>2, <2>1, <2>2, <2>3, <2>4, <2>5, <2>6, <2>7, <2>8, Layout
<1>4. l \notin S /\ u \notin S BY <1>3
<1>5. l # u BY <1>2, Layout
<1>6. y[l] = u - l - W /\ y[u] = 0 /\ \A c \in S : y[c] = z[c] BY <1>4, <1>5 DEF PoolSizes
<1>7. Nx(y, l) = u BY <1>2, <1>6, Layout DEF Nx
<1>8. \A c \in S : Nx(y, c) = Nx(z, c) BY <1>6 DEF Nx
<1>9. Ends(Q) = Ends(P) \cup {u} /\ Starts(Q) = Starts(P) \cup {l} BY DEF Ends, Starts
<1>10. \A c \in S : c \notin Ends(P) <=> c \notin Ends(Q) BY <1>3, <1>9
<1>11. l \notin Ends(P) BY <1>4 DEF Ends, Chain
<1>12. Aligned(u - l - W) /\ 3 * W <= u - l - W
  <2>1. l <= u /\ W <= u - l /\ 3 * W <= u - l - W BY <1>2, Layout
  <2>2. Aligned(u - l) BY <1>2, <2>1, AlignedDiff
  <2>3. Aligned((u - l) - W) BY <2>1, <2>2, AlignedWords, AlignedDiff
  <2> QED BY <2>1, <2>3
<1> DEFINE InQ(c) == \E p \in Q : Lo(p) <= c /\ c <= Hi(p)
<1>13. InQ(l) /\ InQ(u) /\ \A c \in S : InQ(c)
  <2>1. l <= l /\ l <= u /\ u <= u BY <1>2, Layout
  <2>2. InQ(l) BY <2>1
  <2>3. InQ(u) BY <2>1
  <2> QED BY <2>2, <2>3 DEF Chain
<1>14. \A p \in Q : Lo(p) \in T /\ Hi(p) \in T BY DEF Chain
<1> HIDE DEF l, u, y, InQ, Q
<1>15. Chain(T, y, Q)
  <2>2. ASSUME NEW c \in T
        PROVE  /\ Aligned(c) /\ Aligned(y[c])
               /\ InQ(c)
               /\ c \in Ends(Q) => y[c] = 0
               /\ c \notin Ends(Q) => 3 * W <= y[c] /\ Nx(y, c) \in T
               /\ c \in Starts(Q) \/ \E e \in T \ Ends(Q) : Nx(y, e) = c
    <3>1. CASE c = l BY <1>2, <1>5, <1>6, <1>7, <1>9, <1>11, <1>12, <1>13, <3>1
    <3>2. CASE c = u
      <4>1. l \in T \ Ends(Q) /\ Nx(y, l) = u BY <1>5, <1>7, <1>9, <1>11
      <4>2. u \in Ends(Q) BY <1>9
      <4> QED BY <1>2, <1>6, <1>13, <3>2, <4>1, <4>2, AlignedWords
    <3>3. CASE c \in S
      <4>1. /\ Aligned(c) /\ Aligned(z[c])
            /\ c \in Ends(P) => z[c] = 0
            /\ c \notin Ends(P) => 3 * W <= z[c] /\ Nx(z, c) \in S
            /\ c \in Starts(P) \/ \E e \in S \ Ends(P) : Nx(z, e) = c
        BY <3>3 DEF Chain
      <4>2. y[c] = z[c] /\ Nx(y, c) = Nx(z, c) BY <1>6, <1>8, <3>3
      <4>3. (\E e \in S \ Ends(P) : Nx(z, e) = c) => \E e \in T \ Ends(Q) : Nx(y, e) = c
        BY <1>8, <1>10
      <4> QED BY <1>9, <1>10, <1>13, <3>3, <4>1, <4>2, <4>3
    <3> QED BY <3>1, <3>2, <3>3
  <2>3. ASSUME NEW e \in T, NEW c \in T, e < c PROVE Nx(y, e) <= c
    <3>0. Nx(y, u) = u + W BY <1>2, <1>6, Layout DEF Nx
    <3>1. CASE e = l
      <4>1. CASE c = l BY <1>2, <2>3, <3>1, <4>1
      <4>2. CASE c = u BY <1>2, <1>7, <3>1, <4>2
      <4>3. CASE c \in S
        <5>1. u < c /\ c \in Nat BY <1>3, <2>3, <3>1, <4>3
        <5> QED BY <1>2, <1>7, <3>1, <5>1
      <4> QED BY <4>1, <4>2, <4>3
    <3>2. CASE e = u
      <4>1. c \in S BY <1>2, <2>3, <3>2, Layout
      <4>2. Aligned(c) /\ u < c BY <2>3, <3>2, <4>1 DEF Chain
      <4>3. u + W <= c BY <1>2, <4>2, AlignedGap
      <4> QED BY <3>0, <3>2, <4>3
    <3>3. CASE e \in S
      <4>1. Nx(y, e) = Nx(z, e) BY <1>8, <3>3
      <4>2. CASE c = l BY <1>3, <2>3, <3>3, <4>1, <4>2
      <4>3. CASE c = u
        <5>1. Nx(z, e) <= l /\ Nx(z, e) \in Nat BY <1>3, <2>3, <3>3, <4>3
        <5> QED BY <1>2, <4>1, <4>3, <5>1, Layout
      <4>4. CASE c \in S
        <5>1. Nx(z, e) <= c BY <2>3, <3>3, <4>4 DEF Chain
        <5> QED BY <4>1, <5>1
      <4> QED BY <4>2, <4>3, <4>4
    <3> QED BY <3>1, <3>2, <3>3
  <2> HIDE DEF T
  <2> QED BY <1>14, <2>2, <2>3 DEF Chain, InQ
<1>16. l \notin Ends(Q) BY <1>5, <1>9, <1>11
<1> QED BY <1>4, <1>5, <1>6, <1>7, <1>8, <1>10, <1>15, <1>16 DEF l, u, y, Q, AddPoolIs

LEMMA ChainRemovePool ==
    ASSUME NEW P, PoolsOK(P), NEW pool \in P, NEW S, NEW z, Chain(S, z, P),
           Nx(z, Lo(pool)) = Hi(pool)
    PROVE  Chain(S \ {Lo(pool), Hi(pool)}, z, P \ {pool})
<1> DEFINE Q == P \ {pool}
           T == S \ {Lo(pool), Hi(pool)}
<1>1. Lo(pool) \in S /\ Hi(pool) \in S BY DEF Chain
<1>2. /\ Lo(pool) \in Nat /\ Hi(pool) \in Nat /\ Lo(pool) + 4 * W <= Hi(pool)
  BY Pools DEF Aligned
<1>3. \A c \in S : c \in Nat BY BlockPlace
<1>4. ASSUME NEW q \in Q, NEW x \in Nat, Lo(q) <= x, x <= Hi(q)
      PROVE  x # Lo(pool) /\ x # Hi(pool)
  <2>1. q \in P /\ q # pool OBVIOUS
  <2>2. Lo(q) \in Nat /\ Hi(q) \in Nat BY <2>1, Pools DEF Aligned
  <2>3. /\ x <= Hi(q) + W /\ Lo(pool) <= Hi(pool) + W /\ Hi(pool) <= Hi(pool) + W
        /\ Lo(pool) <= Lo(pool) /\ Lo(pool) <= Hi(pool)
    BY <1>2, <1>4, <2>2, Layout
  <2> QED BY <1>2, <1>4, <2>1, <2>3, PoolsApart
<1>5. ASSUME NEW q \in Q PROVE Lo(q) \in T /\ Hi(q) \in T
  <2>1. Lo(q) \in S /\ Hi(q) \in S /\ Lo(q) \in Nat /\ Hi(q) \in Nat /\ Lo(q) + 4 * W <= Hi(q)
    BY Pools DEF Chain, Aligned
  <2>2. Lo(q) <= Lo(q) /\ Lo(q) <= Hi(q) /\ Hi(q) <= Hi(q) BY <2>1, Layout
  <2>3. Lo(q) # Lo(pool) /\ Lo(q) # Hi(pool) BY <1>4, <2>1, <2>2
  <2>4. Hi(q) # Lo(pool) /\ Hi(q) # Hi(pool) BY <1>4, <2>1, <2>2
  <2> QED BY <2>1, <2>3, <2>4
<1>6. ASSUME NEW c \in T PROVE \E q \in Q : Lo(q) <= c /\ c <= Hi(q)
  <2>1. PICK q \in P : Lo(q) <= c /\ c <= Hi(q) BY DEF Chain
  <2>2. CASE q = pool
    <3>1. Lo(pool) < c /\ c < Hi(pool) BY <1>2, <1>3, <2>1, <2>2
    <3>2. Hi(pool) <= c BY <1>1, <3>1 DEF Chain
    <3> QED BY <1>2, <1>3, <3>1, <3>2
  <2> QED BY <2>1, <2>2
<1>7. ASSUME NEW c \in T PROVE c \in Ends(P) <=> c \in Ends(Q) BY DEF Ends
<1>8. ASSUME NEW c \in T PROVE c \in Starts(P) <=> c \in Starts(Q) BY DEF Starts
<1>9. ASSUME NEW a \in S, a \notin Ends(P), Nx(z, a) \in T PROVE a \in T
  <2>1. a # Hi(pool) BY <1>9 DEF Ends
  <2>2. a # Lo(pool) BY <1>9
  <2> QED BY <2>1, <2>2
<1>10. ASSUME NEW a \in T, a \notin Ends(P) PROVE Nx(z, a) \in T
  <2>1. Nx(z, a) \in S /\ a # Lo(pool) BY <1>10 DEF Chain
  <2>2. Nx(z, a) # Hi(pool) BY <1>1, <2>1, NextDiffers
  <2>3. Nx(z, a) # Lo(pool)
    <3> SUFFICES ASSUME Nx(z, a) = Lo(pool) PROVE FALSE OBVIOUS
    <3>1. PICK q \in Q : Lo(q) <= a /\ a <= Hi(q) BY <1>6
    <3>2. /\ Hi(q) \in S /\ a # Hi(q) /\ Hi(q) \in Nat /\ a \in Nat /\ Lo(q) \in Nat
          /\ Nx(z, a) \in Nat /\ z[a] \in Nat /\ Nx(z, a) = a + W + z[a]
      <4>1. q \in P BY DEF Q
      <4>2. Hi(q) \in S /\ a # Hi(q) BY <1>10, <4>1 DEF Chain, Ends
      <4>3. Aligned(Hi(q)) /\ Aligned(Lo(q)) BY <4>1, Pools
      <4>4. a \in Nat /\ Nx(z, a) \in Nat /\ z[a] \in Nat /\ Nx(z, a) = a + W + z[a] BY BlockPlace
      <4> QED BY <4>2, <4>3, <4>4 DEF Aligned
    <3>3. a < Hi(q) BY <3>1, <3>2
    <3>4. Nx(z, a) <= Hi(q) BY <3>2, <3>3 DEF Chain
    <3>5. Lo(q) <= Nx(z, a) BY <3>1, <3>2, Layout
    <3> QED BY <1>4, <3>2, <3>4, <3>5
  <2> QED BY <2>1, <2>2, <2>3
<1>11. ASSUME NEW c \in T
       PROVE  /\ Aligned(c) /\ Aligned(z[c])
              /\ c \in Ends(Q) => z[c] = 0
              /\ c \notin Ends(Q) => 3 * W <= z[c] /\ Nx(z, c) \in T
              /\ c \in Starts(Q) \/ \E e \in T \ Ends(Q) : Nx(z, e) = c
  <2>1. /\ Aligned(c) /\ Aligned(z[c])
        /\ c \in Ends(P) => z[c] = 0
        /\ c \notin Ends(P) => 3 * W <= z[c]
        /\ c \in Starts(P) \/ \E e \in S \ Ends(P) : Nx(z, e) = c
    BY DEF Chain
  <2>2. ASSUME NEW e \in S \ Ends(P), Nx(z, e) = c PROVE e \in T \ Ends(Q)
    BY <1>7, <1>9, <2>2
  <2> QED BY <1>7, <1>8, <1>10, <2>1, <2>2
<1>12. \A a, b \in T : a < b => Nx(z, a) <= b BY DEF Chain
<1> HIDE DEF Q, T
<1>13. Chain(T, z, Q) BY <1>5, <1>6, <1>11, <1>12 DEF Chain
<1> QED BY <1>13 DEF Q, T

(* The words that are not the allocator's: those of used blocks, and the   *)
(* ones in front of pools.                                                 *)
Safe(S, z, Fr, P) ==
    {x \in Addr : x \in Starts(P) \/ \E q \in S \ Fr : q + W < x /\ x <= Nx(z, q)}

Changed(h, g, A) == g \in HeapType /\ \A x \in Addr : x \notin A => g.mem[x] = h.mem[x]

(* block_next is the next block.                                           *)
LEMMA NextIs ==
    ASSUME NEW P, PoolsOK(P), NEW S, NEW z, Chain(S, z, P), NEW Fr, NEW h, Rep(h, S, z, Fr),
           NEW b \in S
    PROVE  block_next(h, b) = Nx(z, b)
<1>1. b \in Nat /\ z[b] \in Nat BY BlockPlace
<1>2. block_size(h, b) = z[b] BY DEF Rep, HeadIs
<1>3. block_next(h, b) = (b + 2 * W) + (z[b] - W) BY <1>2, Layout DEF block_next, block_to_ptr
<1> QED BY <1>1, <1>3, Layout DEF Nx

LEMMA NextOfSize ==
    ASSUME NEW h, NEW b \in Nat, block_size(h, b) \in Nat
    PROVE  block_next(h, b) = b + W + block_size(h, b)
<1>3. block_next(h, b) = (b + 2 * W) + (block_size(h, b) - W) BY Layout DEF block_next, block_to_ptr
<1> QED BY <1>3, Layout

(* No block starts before a pool and goes on into it.                      *)
LEMMA StartApart ==
    ASSUME NEW P, PoolsOK(P), NEW S, NEW z, Chain(S, z, P), NEW c \in S,
           NEW x \in Nat, c < x, x <= Nx(z, c)
    PROVE  x \notin Starts(P)
<1> SUFFICES ASSUME NEW pool \in P, x = Lo(pool) PROVE FALSE BY DEF Starts
<1>1. PICK q \in P : Lo(q) <= c /\ c <= Hi(q) BY DEF Chain
<1>2. /\ c \in Nat /\ z[c] \in Nat /\ Nx(z, c) = c + W + z[c] /\ Nx(z, c) \in Nat
      /\ c \in Ends(P) => z[c] = 0
  BY BlockPlace
<1>3. /\ Aligned(Lo(q)) /\ Aligned(Hi(q)) /\ Aligned(Lo(pool)) /\ Aligned(Hi(pool))
      /\ Lo(pool) + 4 * W <= Hi(pool)
  BY Pools
<1>4. Lo(q) \in Nat /\ Hi(q) \in Nat /\ Lo(pool) \in Nat /\ Hi(pool) \in Nat BY <1>3 DEF Aligned
<1>5. Nx(z, c) <= Hi(q) + W
  <2>1. CASE c = Hi(q)
    <3>1. z[c] = 0 BY <1>2, <2>1 DEF Ends
    <3> QED BY <1>2, <1>4, <2>1, <3>1, Layout
  <2>2. CASE c # Hi(q)
    <3>1. c < Hi(q) BY <1>1, <1>2, <1>4, <2>2
    <3>2. Nx(z, c) <= Hi(q) BY <3>1 DEF Chain
    <3> QED BY <1>2, <1>4, <3>2, Layout
  <2> QED BY <2>1, <2>2
<1>6. CASE q = pool BY <1>1, <1>2, <1>4, <1>6
<1>7. CASE q # pool
  <2>1. Lo(pool) <= x /\ x <= Hi(pool) + W /\ Lo(q) <= x /\ x <= Hi(q) + W
    BY <1>1, <1>2, <1>3, <1>4, <1>5, Layout
  <2> QED BY <1>7, <2>1, PoolsApart
<1> QED BY <1>6, <1>7

(* Three kinds of words the allocator writes, and where they are not.      *)
LEMMA HeadApart ==
    ASSUME NEW P, PoolsOK(P), NEW S, NEW z, Chain(S, z, P), NEW Fr, Fr \subseteq S \ Ends(P),
           NEW b \in S
    PROVE  /\ b + W \notin Safe(S, z, Fr, P)
           /\ \A c \in S : c # b => c + W # b + W
           /\ \A a \in Fr : Nx(z, a) # b + W
<1>1. b \in Nat /\ z[b] \in Nat /\ Nx(z, b) = b + W + z[b] /\ Nx(z, b) \in Nat BY BlockPlace
<1>2. b < b + W /\ b + W <= Nx(z, b) /\ b + W \in Nat BY <1>1, Layout
<1>3. b + W \notin Starts(P) BY <1>2, StartApart
<1>4. ASSUME NEW q \in S, q + W < b + W, b + W <= Nx(z, q) PROVE FALSE
  <2>1. q \in Nat BY BlockPlace
  <2>2. q < b + W /\ q # b BY <1>1, <1>4, <2>1, Layout
  <2> QED BY <1>2, <1>4, <2>2, Apart
<1>5. ASSUME NEW c \in S, c # b PROVE c + W # b + W
  <2>1. c \in Nat BY BlockPlace
  <2> QED BY <1>1, <1>5, <2>1, Layout
<1>6. ASSUME NEW a \in Fr PROVE Nx(z, a) # b + W
  <2>1. a \in S /\ a \notin Ends(P) OBVIOUS
  <2>2. a \in Nat /\ Nx(z, a) \in Nat /\ a + 4 * W <= Nx(z, a) BY <2>1, BlockPlace
  <2>3. a < Nx(z, a) /\ Nx(z, a) <= Nx(z, a) /\ Nx(z, a) # a + W BY <2>2, Layout
  <2>4. CASE a = b BY <2>3, <2>4
  <2>5. CASE a # b BY <1>2, <2>1, <2>2, <2>3, <2>5, Apart
  <2> QED BY <2>4, <2>5
<1> QED BY <1>3, <1>4, <1>5, <1>6 DEF Safe

LEMMA TailApart ==
    ASSUME NEW P, PoolsOK(P), NEW S, NEW z, Chain(S, z, P), NEW Fr, Fr \subseteq S \ Ends(P),
           NEW b \in Fr
    PROVE  /\ Nx(z, b) \notin Safe(S, z, Fr, P)
           /\ \A c \in S : c + W # Nx(z, b)
           /\ \A a \in Fr : a # b => Nx(z, a) # Nx(z, b)
<1>1. b \in S /\ b \notin Ends(P) OBVIOUS
<1>2. b \in Nat /\ Nx(z, b) \in Nat /\ b + 4 * W <= Nx(z, b) BY <1>1, BlockPlace
<1>3. b < Nx(z, b) /\ Nx(z, b) <= Nx(z, b) BY <1>2, Layout
<1>4. Nx(z, b) \notin Starts(P) BY <1>1, <1>2, <1>3, StartApart
<1>5. ASSUME NEW q \in S \ Fr, q + W < Nx(z, b), Nx(z, b) <= Nx(z, q) PROVE FALSE
  <2>1. q \in Nat BY BlockPlace
  <2>2. q < Nx(z, b) /\ q # b BY <1>2, <1>5, <2>1, Layout
  <2> QED BY <1>1, <1>2, <1>3, <1>5, <2>2, Apart
<1>6. \A c \in S : c + W # Nx(z, b) BY HeadApart
<1>7. \A a \in Fr : a # b => Nx(z, a) # Nx(z, b) BY NextDiffers
<1> QED BY <1>4, <1>5, <1>6, <1>7 DEF Safe

LinkWords(F) == {b + 2 * W : b \in F} \cup {b + 3 * W : b \in F} \cup {ARENA + 2 * W, ARENA + 3 * W}

(* Links lie in free blocks only.                                          *)
LEMMA LinkApart ==
    ASSUME NEW P, PoolsOK(P), NEW S, NEW z, Chain(S, z, P), NEW Fr, Fr \subseteq S \ Ends(P),
           NEW x \in LinkWords(Fr)
    PROVE  /\ x \notin Safe(S, z, Fr, P) /\ x \in Addr /\ x \notin S \ Fr
           /\ \A c \in S : c + W # x
           /\ \A a \in Fr : Nx(z, a) # x
<1>1. CASE x \in {ARENA + 2 * W, ARENA + 3 * W}
  <2>1. ARENA \in Nat /\ Aligned(ARENA) /\ Bytes \in Nat /\ Bytes >= 7 * W BY Places DEF Aligned
  <2>2. x \in Nat /\ x < ARENA + 4 * W BY <1>1, <2>1, Layout
  <2>3. Aligned(x) BY <1>1, <2>1, AlignedSum, AlignedWords
  <2>4. ARENA <= x /\ x < ARENA + Bytes BY <1>1, <2>1, Layout
  <2>5. x \in Addr BY <2>3, <2>4, AddrIs
  <2>6. \A c \in S : c \in Nat /\ ARENA + 4 * W <= c /\ Nx(z, c) \in Nat /\ Nx(z, c) = c + W + z[c] /\ z[c] \in Nat
    BY BlockPlace
  <2>7. \A c \in S : c # x /\ c + W # x /\ Nx(z, c) # x /\ ~ (c + W < x)
    BY <2>1, <2>2, <2>6, Layout
  <2>8. x \notin Starts(P) BY <2>7 DEF Starts, Chain
  <2> QED BY <2>5, <2>7, <2>8 DEF Safe
<1>2. CASE \E b \in Fr : x \in {b + 2 * W, b + 3 * W}
  <2>1. PICK b \in Fr : x \in {b + 2 * W, b + 3 * W} BY <1>2
  <2>2. b \in S /\ b \notin Ends(P) OBVIOUS
  <2>3. /\ b \in Nat /\ Nx(z, b) \in Nat /\ b + 4 * W <= Nx(z, b) /\ Nx(z, b) \in S
        /\ b + 2 * W \in Addr /\ b + 3 * W \in Addr
    BY <2>2, BlockPlace
  <2>4. x \in Nat /\ b < x /\ x <= Nx(z, b) /\ x # b + W /\ x # Nx(z, b) /\ x \in Addr
        /\ x < Nx(z, b) /\ x # b
    BY <2>1, <2>3, Layout
  <2>5. x \notin Starts(P) BY <2>2, <2>4, StartApart
  <2>6. ASSUME NEW q \in S \ Fr, q + W < x, x <= Nx(z, q) PROVE FALSE
    <3>1. q \in Nat BY BlockPlace
    <3>2. q < x /\ q # b BY <2>4, <2>6, <3>1, Layout
    <3> QED BY <2>2, <2>4, <2>6, <3>2, Apart
  <2>7. ASSUME NEW c \in S PROVE c + W # x /\ c # x /\ (c \in Fr => Nx(z, c) # x)
    <3>1. CASE c = b BY <2>4, <3>1
    <3>2. CASE c # b
      <4>1. c \in Nat /\ z[c] \in Nat /\ Nx(z, c) = c + W + z[c] /\ Nx(z, c) \in Nat BY BlockPlace
      <4>2. c < c + W /\ c + W <= Nx(z, c) /\ c + W \in Nat /\ c < Nx(z, c) /\ Nx(z, c) <= Nx(z, c)
        BY <4>1, Layout
      <4>3. c + W # x BY <2>2, <2>4, <3>2, <4>2, Apart
      <4>4. Nx(z, c) # x BY <2>2, <2>4, <3>2, <4>1, <4>2, Apart
      <4>5. c # x
        <5> SUFFICES ASSUME c = x PROVE FALSE OBVIOUS
        <5>1. b < c BY <2>4
        <5>2. Nx(z, b) <= c BY <2>2, <5>1 DEF Chain
        <5> QED BY <2>3, <2>4, <4>1, <5>2
      <4> QED BY <4>3, <4>4, <4>5
    <3> QED BY <3>1, <3>2
  <2> QED BY <2>4, <2>5, <2>6, <2>7 DEF Safe
<1> QED BY <1>1, <1>2 DEF LinkWords

(* Headers nobody wrote to say what they said.                             *)
LEMMA RepKept ==
    ASSUME NEW S, NEW z, NEW Fr, NEW h, NEW g, Rep(h, S, z, Fr),
           \A b \in S : g.mem[b + W] = h.mem[b + W],
           \A a \in Fr : g.mem[Nx(z, a)] = h.mem[Nx(z, a)]
    PROVE  Rep(g, S, z, Fr)
<1>1. ASSUME NEW b \in S PROVE HeadIs(g, b, z, Fr)
  <2>1. HeadIs(h, b, z, Fr) /\ g.mem[b + W] = h.mem[b + W] BY DEF Rep
  <2>2. /\ block_size(g, b) = block_size(h, b)
        /\ block_is_free(g, b) = block_is_free(h, b)
        /\ block_is_prev_free(g, b) = block_is_prev_free(h, b)
    BY <2>1, SameHead
  <2> QED BY <2>1, <2>2 DEF HeadIs
<1> QED BY <1>1 DEF Rep

(* Writing the links of free blocks disturbs nothing else.                 *)
LEMMA LinkFrame ==
    ASSUME NEW P, PoolsOK(P), NEW S, NEW z, Chain(S, z, P), NEW Fr, Fr \subseteq S \ Ends(P),
           NEW h, NEW g, Rep(h, S, z, Fr), Changed(h, g, LinkWords(Fr))
    PROVE  Rep(g, S, z, Fr) /\ SameOn(h, g, Safe(S, z, Fr, P))
<1>1. ASSUME NEW b \in S PROVE g.mem[b + W] = h.mem[b + W]
  <2>1. b + W \in Addr BY BlockPlace
  <2>2. b + W \notin LinkWords(Fr) BY LinkApart
  <2> QED BY <2>1, <2>2 DEF Changed
<1>2. ASSUME NEW a \in Fr PROVE g.mem[Nx(z, a)] = h.mem[Nx(z, a)]
  <2>0. a \in S /\ a \notin Ends(P) OBVIOUS
  <2>1. Nx(z, a) \in Addr BY <2>0, BlockPlace
  <2>2. Nx(z, a) \notin LinkWords(Fr) BY LinkApart
  <2> QED BY <2>1, <2>2 DEF Changed
<1>3. ASSUME NEW x \in Safe(S, z, Fr, P) PROVE g.mem[x] = h.mem[x]
  <2>1. x \notin LinkWords(Fr) BY LinkApart
  <2>2. x \in Addr BY DEF Safe
  <2> QED BY <2>1, <2>2 DEF Changed
<1> QED BY <1>1, <1>2, <1>3, RepKept DEF SameOn

(* The words in which memory says where the blocks are.                    *)
Meta(S, z, Fr) == {c + W : c \in S} \cup {Nx(z, a) : a \in Fr}

(* g is h as far as the lists of the free blocks Fr and the words A go.    *)
Keeps(h, g, Fr, A) ==
    /\ g \in HeapType
    /\ g.fl_bitmap = h.fl_bitmap /\ g.sl_bitmap = h.sl_bitmap /\ g.blocks = h.blocks
    /\ SameOn(h, g, LinkWords(Fr)) /\ SameOn(h, g, A)

(* Writing headers disturbs neither lists nor what users own.              *)
LEMMA MetaFrame ==
    ASSUME NEW P, PoolsOK(P), NEW S, NEW z, Chain(S, z, P), NEW Fr, Fr \subseteq S \ Ends(P),
           NEW h, NEW g, NEW A, Wrote(h, g, A), A \subseteq Meta(S, z, Fr)
    PROVE  Keeps(h, g, Fr, Safe(S, z, Fr, P))
<1>1. ASSUME NEW x \in LinkWords(Fr) PROVE g.mem[x] = h.mem[x]
  <2>1. x \in Addr /\ x \notin Meta(S, z, Fr) BY LinkApart DEF Meta
  <2> QED BY <2>1 DEF Wrote
<1>2. ASSUME NEW x \in Safe(S, z, Fr, P) PROVE g.mem[x] = h.mem[x]
  <2>1. x \in Addr BY DEF Safe
  <2>2. x \notin Meta(S, z, Fr) BY HeadApart, TailApart DEF Meta
  <2> QED BY <2>1, <2>2 DEF Wrote
<1> QED BY <1>1, <1>2 DEF Keeps, SameOn, Wrote

(* A header that nobody wrote to.                                          *)
LEMMA SameHeadIs ==
    ASSUME NEW h, NEW g, NEW A, Wrote(h, g, A), NEW c, c + W \in Addr, c + W \notin A
    PROVE  /\ block_size(g, c) = block_size(h, c)
           /\ block_is_free(g, c) = block_is_free(h, c)
           /\ block_is_prev_free(g, c) = block_is_prev_free(h, c)
<1>1. g.mem[c + W] = h.mem[c + W] BY DEF Wrote
<1> QED BY <1>1, SameHead

LEMMA LinkNext ==
    ASSUME NEW h \in HeapType, NEW b \in Nat, NEW n \in Addr, block_next(h, b) = n
    PROVE  LET g == block_link_next(h, b)
           IN  Wrote(h, g, {n}) /\ g.mem[n] = b
BY PutFacts DEF block_link_next

LEMMA HeapTypeOfWrote == ASSUME NEW h, NEW g, NEW A, Wrote(h, g, A) PROVE g \in HeapType
BY DEF Wrote

(* A used block becomes free.                                              *)
LEMMA MarkFree ==
    ASSUME NEW P, PoolsOK(P), NEW S, NEW z, Chain(S, z, P), NEW Fr, Fr \subseteq S \ Ends(P),
           NEW h \in HeapType, Rep(h, S, z, Fr), NEW b \in S, b \notin Ends(P), b \notin Fr
    PROVE  LET g == block_mark_as_free(h, b)
               G == Fr \cup {b}
           IN  /\ Rep(g, S, z, G) /\ Wrote(h, g, {b + W, Nx(z, b), Nx(z, b) + W})
               /\ Keeps(h, g, G, Safe(S, z, G, P))
<1> DEFINE n == Nx(z, b)
           G == Fr \cup {b}
           h1 == block_link_next(h, b)
           h2 == block_set_prev_free(h1, n)
           g == block_set_free(h2, b)
<1>1. /\ b \in Nat /\ n \in S /\ n \in Addr /\ n + W \in Addr /\ b + W \in Addr
      /\ b + 4 * W <= n /\ n \in Nat
  BY BlockPlace
<1>2. block_next(h, b) = n BY NextIs
<1>3. g = block_mark_as_free(h, b) BY <1>2 DEF block_mark_as_free
<1>4. Wrote(h, h1, {n}) /\ h1.mem[n] = b BY <1>1, <1>2, LinkNext
<1>5. h1 \in HeapType BY <1>4, HeapTypeOfWrote
<1>6. /\ Wrote(h1, h2, {n + W}) /\ block_size(h2, n) = block_size(h1, n)
      /\ block_is_free(h2, n) = block_is_free(h1, n) /\ block_is_prev_free(h2, n)
  BY <1>1, <1>5, SetPrevFree
<1>7. h2 \in HeapType BY <1>6, HeapTypeOfWrote
<1>8. /\ Wrote(h2, g, {b + W}) /\ block_size(g, b) = block_size(h2, b)
      /\ block_is_prev_free(g, b) = block_is_prev_free(h2, b) /\ block_is_free(g, b)
  BY <1>1, <1>7, SetFree
<1> HIDE DEF h1, h2, g
<1>9. Wrote(h, h2, {n} \cup {n + W}) BY <1>4, <1>6, WroteBoth
<1>10. Wrote(h, g, ({n} \cup {n + W}) \cup {b + W}) BY <1>8, <1>9, WroteBoth
<1>11. n # b /\ n # n + W /\ n # b + W /\ n + W # b + W BY <1>1, Layout
<1>12. \A c \in S : c + W # n
  <2>1. G \subseteq S \ Ends(P) /\ b \in G OBVIOUS
  <2> HIDE DEF G, n
  <2> QED BY <2>1, TailApart DEF n
<1>13. g.mem[n] = b
  <2>1. h2.mem[n] = h1.mem[n] BY <1>1, <1>6, <1>11 DEF Wrote
  <2>2. g.mem[n] = h2.mem[n] BY <1>1, <1>8, <1>11 DEF Wrote
  <2> QED BY <1>4, <2>1, <2>2
<1>14. Behind(z, G) = Behind(z, Fr) \cup {n} BY DEF Behind
<1>15. ASSUME NEW c \in S PROVE HeadIs(g, c, z, G)
  <2>1. HeadIs(h, c, z, Fr) /\ c + W \in Addr /\ c \in Nat BY BlockPlace DEF Rep
  <2>2. CASE c = n
    <3>1. /\ block_size(h1, n) = block_size(h, n)
          /\ block_is_free(h1, n) = block_is_free(h, n)
      BY <1>1, <1>4, <1>11, SameHeadIs
    <3>2. /\ block_size(g, n) = block_size(h2, n)
          /\ block_is_free(g, n) = block_is_free(h2, n)
          /\ block_is_prev_free(g, n) = block_is_prev_free(h2, n)
      BY <1>1, <1>8, <1>11, SameHeadIs
    <3> QED BY <1>6, <1>11, <1>14, <2>1, <2>2, <3>1, <3>2 DEF HeadIs
  <2>3. CASE c = b
    <3>1. /\ block_size(h2, b) = block_size(h, b)
          /\ block_is_prev_free(h2, b) = block_is_prev_free(h, b)
      BY <1>1, <1>9, <1>11, SameHeadIs
    <3> QED BY <1>8, <1>11, <1>14, <2>1, <2>3, <3>1 DEF HeadIs
  <2>4. CASE c # b /\ c # n
    <3>1. c + W # b + W /\ c + W # n + W BY <1>1, <2>1, <2>4, Layout
    <3>2. /\ block_size(g, c) = block_size(h, c)
          /\ block_is_free(g, c) = block_is_free(h, c)
          /\ block_is_prev_free(g, c) = block_is_prev_free(h, c)
      BY <1>10, <1>12, <2>1, <3>1, SameHeadIs
    <3> QED BY <1>14, <2>1, <2>4, <3>2 DEF HeadIs
  <2> QED BY <2>2, <2>3, <2>4
<1>16. ASSUME NEW a \in G PROVE g.mem[Nx(z, a)] = a
  <2>1. CASE a = b BY <1>13, <2>1
  <2>2. CASE a # b
    <3>1. a \in Fr /\ a \in S /\ a \notin Ends(P) BY <2>2
    <3>2. h.mem[Nx(z, a)] = a /\ Nx(z, a) \in Addr BY <3>1, BlockPlace DEF Rep
    <3>3. Nx(z, a) # n BY <2>2, <3>1, NextDiffers
    <3>4. Nx(z, a) # n + W /\ Nx(z, a) # b + W BY <1>1, <3>1, HeadApart
    <3> QED BY <1>10, <3>2, <3>3, <3>4 DEF Wrote
  <2> QED BY <2>1, <2>2
<1>17. Rep(g, S, z, G) BY <1>15, <1>16 DEF Rep
<1>18. Wrote(h, g, {b + W, n, n + W}) BY <1>10, WroteMore
<1>19. Keeps(h, g, G, Safe(S, z, G, P))
  <2>1. {b + W, n, n + W} \subseteq Meta(S, z, G) BY <1>1 DEF Meta
  <2>2. G \subseteq S \ Ends(P) OBVIOUS
  <2> HIDE DEF G, n
  <2> QED BY <1>18, <2>1, <2>2, MetaFrame
<1> QED BY <1>3, <1>17, <1>18, <1>19

(* A free block becomes used.                                              *)
LEMMA MarkUsed ==
    ASSUME NEW P, PoolsOK(P), NEW S, NEW z, Chain(S, z, P), NEW Fr, Fr \subseteq S \ Ends(P),
           NEW h \in HeapType, Rep(h, S, z, Fr), NEW b \in Fr
    PROVE  LET g == block_mark_as_used(h, b)
           IN  /\ Rep(g, S, z, Fr \ {b}) /\ Wrote(h, g, {b + W, Nx(z, b) + W})
               /\ Keeps(h, g, Fr, Safe(S, z, Fr, P))
<1> DEFINE n == Nx(z, b)
           G == Fr \ {b}
           h1 == block_set_prev_used(h, n)
           g == block_set_used(h1, b)
<1>0. b \in S /\ b \notin Ends(P) OBVIOUS
<1>1. /\ b \in Nat /\ n \in S /\ n + W \in Addr /\ b + W \in Addr
      /\ b + 4 * W <= n /\ n \in Nat
  BY <1>0, BlockPlace
<1>2. block_next(h, b) = n BY <1>0, NextIs
<1>3. g = block_mark_as_used(h, b) BY <1>2 DEF block_mark_as_used
<1>4. /\ Wrote(h, h1, {n + W}) /\ block_size(h1, n) = block_size(h, n)
      /\ block_is_free(h1, n) = block_is_free(h, n) /\ ~ block_is_prev_free(h1, n)
  BY <1>1, SetPrevUsed
<1>5. h1 \in HeapType BY <1>4, HeapTypeOfWrote
<1>6. /\ Wrote(h1, g, {b + W}) /\ block_size(g, b) = block_size(h1, b)
      /\ block_is_prev_free(g, b) = block_is_prev_free(h1, b) /\ ~ block_is_free(g, b)
  BY <1>1, <1>5, SetUsed
<1> HIDE DEF h1, g
<1>7. Wrote(h, g, {n + W} \cup {b + W}) BY <1>4, <1>6, WroteBoth
<1>8. n # b /\ n + W # b + W BY <1>1, Layout
<1>9. Behind(z, G) = Behind(z, Fr) \ {n}
  <2>1. \A a \in G : Nx(z, a) # n BY <1>0, NextDiffers
  <2> QED BY <2>1 DEF Behind
<1>10. ASSUME NEW c \in S PROVE HeadIs(g, c, z, G)
  <2>1. HeadIs(h, c, z, Fr) /\ c + W \in Addr /\ c \in Nat BY BlockPlace DEF Rep
  <2>2. CASE c = n
    <3>1. /\ block_size(g, n) = block_size(h1, n)
          /\ block_is_free(g, n) = block_is_free(h1, n)
          /\ block_is_prev_free(g, n) = block_is_prev_free(h1, n)
      BY <1>1, <1>6, <1>8, SameHeadIs
    <3> QED BY <1>4, <1>8, <1>9, <2>1, <2>2, <3>1 DEF HeadIs
  <2>3. CASE c = b
    <3>1. /\ block_size(h1, b) = block_size(h, b)
          /\ block_is_prev_free(h1, b) = block_is_prev_free(h, b)
      BY <1>1, <1>4, <1>8, SameHeadIs
    <3> QED BY <1>6, <1>8, <1>9, <2>1, <2>3, <3>1 DEF HeadIs
  <2>4. CASE c # b /\ c # n
    <3>1. c + W # b + W /\ c + W # n + W BY <1>1, <2>1, <2>4, Layout
    <3>2. /\ block_size(g, c) = block_size(h, c)
          /\ block_is_free(g, c) = block_is_free(h, c)
          /\ block_is_prev_free(g, c) = block_is_prev_free(h, c)
      BY <1>7, <2>1, <3>1, SameHeadIs
    <3> QED BY <1>9, <2>1, <2>4, <3>2 DEF HeadIs
  <2> QED BY <2>2, <2>3, <2>4
<1>11. ASSUME NEW a \in G PROVE g.mem[Nx(z, a)] = a
  <2>1. a \in Fr /\ a \in S /\ a \notin Ends(P) OBVIOUS
  <2>2. h.mem[Nx(z, a)] = a /\ Nx(z, a) \in Addr BY <2>1, BlockPlace DEF Rep
  <2>3. Nx(z, a) # n + W /\ Nx(z, a) # b + W BY <1>0, <1>1, <2>1, HeadApart
  <2> QED BY <1>7, <2>2, <2>3 DEF Wrote
<1>12. Rep(g, S, z, G) BY <1>10, <1>11 DEF Rep
<1>13. Wrote(h, g, {b + W, n + W}) BY <1>7, WroteMore
<1>14. Keeps(h, g, Fr, Safe(S, z, Fr, P))
  <2>1. {b + W, n + W} \subseteq Meta(S, z, Fr) BY <1>0, <1>1 DEF Meta
  <2> HIDE DEF n
  <2> QED BY <1>13, <2>1, MetaFrame
<1> QED BY <1>3, <1>12, <1>13, <1>14

LEMMA AbsorbWord ==
    ASSUME NEW w \in Nat, NEW s \in Nat, s % 4 = 0
    PROVE  LET v == w + s IN
           /\ v - (v % 4) = (w - (w % 4)) + s /\ v % 2 = w % 2 /\ (v \div 2) % 2 = (w \div 2) % 2
BY SMT

(* What block_absorb does to the two headers.                              *)
LEMMA Absorb ==
    ASSUME NEW P, PoolsOK(P), NEW S, NEW z, Chain(S, z, P), NEW Fr, Fr \subseteq S \ Ends(P),
           NEW h \in HeapType, Rep(h, S, z, Fr), NEW a \in S, a \notin Ends(P),
           NEW b, b = Nx(z, a), b \notin Ends(P)
    PROVE  LET g == block_absorb(h, a, b) IN
           /\ Wrote(h, g, {a + W, Nx(z, b)}) /\ g.mem[Nx(z, b)] = a
           /\ block_size(g, a) = z[a] + z[b] + W
           /\ block_is_free(g, a) = block_is_free(h, a)
           /\ block_is_prev_free(g, a) = block_is_prev_free(h, a)
<1> DEFINE w == SizeWord(h, a)
           v == w + z[b] + W
           h1 == Put(h, a + W, v)
           g == block_link_next(h1, a)
           n == Nx(z, b)
<1>1. /\ a \in Nat /\ z[a] \in Nat /\ a + W \in Addr /\ b \in S /\ b = a + W + z[a]
      /\ a + 4 * W <= b
  BY BlockPlace
<1>2. /\ b \in Nat /\ z[b] \in Nat /\ Aligned(z[b]) /\ n \in Addr /\ n = b + W + z[b] /\ n \in Nat
      /\ b + 4 * W <= n
  BY <1>1, BlockPlace
<1>3. w \in Nat /\ block_size(h, a) = z[a] /\ block_size(h, b) = z[b] /\ z[a] = w - (w % 4)
  BY <1>1, HeadWord DEF Rep, HeadIs, block_size
<1>4. z[b] + W \in Nat /\ (z[b] + W) % 4 = 0 /\ v = w + (z[b] + W)
  <2>1. Aligned(z[b] + W) BY <1>2, AlignedWords, AlignedSum
  <2> QED BY <1>2, <1>3, <2>1, AlignedMod, Layout
<1>5. v \in Nat BY <1>3, <1>4
<1>6. g = block_absorb(h, a, b) BY <1>3, Layout DEF block_absorb
<1>7. Wrote(h, h1, {a + W}) /\ h1.mem[a + W] = v BY <1>1, <1>5, PutFacts
<1>8. SizeWord(h1, a) = v BY <1>7 DEF SizeWord
<1> HIDE DEF h1, w, v
<1>9. /\ v - (v % 4) = (w - (w % 4)) + (z[b] + W) /\ v % 2 = w % 2
      /\ (v \div 2) % 2 = (w \div 2) % 2
  BY <1>3, <1>4, AbsorbWord
<1>10. /\ block_size(h1, a) = z[a] + z[b] + W
       /\ block_is_free(h1, a) = block_is_free(h, a)
       /\ block_is_prev_free(h1, a) = block_is_prev_free(h, a)
  <2>1. block_size(h1, a) = z[a] + (z[b] + W) BY <1>3, <1>8, <1>9 DEF block_size
  <2>2. z[a] + (z[b] + W) = z[a] + z[b] + W BY <1>1, <1>2, Layout
  <2> QED BY <1>8, <1>9, <2>1, <2>2 DEF w, block_is_free, block_is_prev_free
<1>11. block_next(h1, a) = n
  <2>1. z[a] + z[b] + W \in Nat BY <1>1, <1>2, Layout
  <2>2. block_next(h1, a) = a + W + (z[a] + z[b] + W) BY <1>1, <1>10, <2>1, NextOfSize
  <2> QED BY <1>1, <1>2, <2>2, Layout
<1>12. h1 \in HeapType BY <1>7, HeapTypeOfWrote
<1>13. Wrote(h1, g, {n}) /\ g.mem[n] = a BY <1>1, <1>2, <1>11, <1>12, LinkNext
<1> HIDE DEF g
<1>14. a + W # n BY <1>1, <1>2, Layout
<1>15. /\ block_size(g, a) = block_size(h1, a)
       /\ block_is_free(g, a) = block_is_free(h1, a)
       /\ block_is_prev_free(g, a) = block_is_prev_free(h1, a)
  BY <1>1, <1>13, <1>14, SameHeadIs
<1>16. Wrote(h, g, {a + W} \cup {n}) BY <1>7, <1>13, WroteBoth
<1>17. Wrote(h, g, {a + W, n}) BY <1>16, WroteMore
<1> HIDE DEF n
<1>18. /\ Wrote(h, g, {a + W, n}) /\ g.mem[n] = a
       /\ block_size(g, a) = z[a] + z[b] + W
       /\ block_is_free(g, a) = block_is_free(h, a)
       /\ block_is_prev_free(g, a) = block_is_prev_free(h, a)
  BY <1>10, <1>13, <1>15, <1>17
<1> QED BY <1>6, <1>18 DEF n

(* Two free blocks become one.                                             *)
LEMMA AbsorbFree ==
    ASSUME NEW P, PoolsOK(P), NEW S, NEW z, Chain(S, z, P), NEW Fr, Fr \subseteq S \ Ends(P),
           NEW h \in HeapType, Rep(h, S, z, Fr), NEW a \in Fr, NEW b \in Fr, b = Nx(z, a)
    PROVE  LET g == block_absorb(h, a, b)
           IN  /\ Rep(g, S \ {b}, AbsorbSizes(S, z, a, b), Fr \ {b})
               /\ Keeps(h, g, Fr, Safe(S, z, Fr, P))
<1> DEFINE g == block_absorb(h, a, b)
           T == S \ {b}
           y == AbsorbSizes(S, z, a, b)
           G == Fr \ {b}
           n == Nx(z, b)
<1>1. a \in S /\ a \notin Ends(P) /\ b \in S /\ b \notin Ends(P) OBVIOUS
<1>2. /\ Wrote(h, g, {a + W, n}) /\ g.mem[n] = a
      /\ block_size(g, a) = z[a] + z[b] + W
      /\ block_is_free(g, a) = block_is_free(h, a)
      /\ block_is_prev_free(g, a) = block_is_prev_free(h, a)
  BY <1>1, Absorb
<1>3. /\ a \in T /\ a # b /\ y[a] = z[a] + z[b] + W /\ Nx(y, a) = n /\ n \in T
      /\ \A c \in T : c # a => y[c] = z[c] /\ Nx(y, c) = Nx(z, c)
  <2>1. AbsorbIs(S, z, a, b, P) BY <1>1, ChainAbsorb
  <2> QED BY <2>1 DEF AbsorbIs
<1> HIDE DEF g, y
<1>4. ASSUME NEW c \in T PROVE c \in Behind(y, G) <=> c \in Behind(z, Fr)
  <2>1. ASSUME NEW e \in G, c = Nx(y, e) PROVE c \in Behind(z, Fr)
    <3>1. CASE e = a BY <1>3, <2>1, <3>1 DEF Behind
    <3>2. CASE e # a BY <1>3, <2>1, <3>2 DEF Behind
    <3> QED BY <3>1, <3>2
  <2>2. ASSUME NEW e \in Fr, c = Nx(z, e) PROVE c \in Behind(y, G)
    <3>1. CASE e = b BY <1>3, <2>2, <3>1 DEF Behind
    <3>2. CASE e = a BY <2>2, <3>2
    <3>3. CASE e # a /\ e # b BY <1>3, <2>2, <3>3 DEF Behind
    <3> QED BY <3>1, <3>2, <3>3
  <2> QED BY <2>1, <2>2 DEF Behind
<1>5. ASSUME NEW c \in T PROVE HeadIs(g, c, y, G)
  <2>1. HeadIs(h, c, z, Fr) /\ c + W \in Addr BY BlockPlace DEF Rep
  <2>2. CASE c = a BY <1>2, <1>3, <1>4, <2>1, <2>2 DEF HeadIs
  <2>3. CASE c # a
    <3>1. c + W # a + W /\ c + W # n BY <1>1, <2>3, HeadApart, TailApart
    <3>2. /\ block_size(g, c) = block_size(h, c)
          /\ block_is_free(g, c) = block_is_free(h, c)
          /\ block_is_prev_free(g, c) = block_is_prev_free(h, c)
      BY <1>2, <2>1, <3>1, SameHeadIs
    <3> QED BY <1>3, <1>4, <2>1, <2>3, <3>2 DEF HeadIs
  <2> QED BY <2>2, <2>3
<1>6. ASSUME NEW e \in G PROVE g.mem[Nx(y, e)] = e
  <2>1. CASE e = a BY <1>2, <1>3, <2>1
  <2>2. CASE e # a
    <3>1. e \in Fr /\ e \in S /\ e \notin Ends(P) /\ e \in T /\ e # b OBVIOUS
    <3>2. h.mem[Nx(z, e)] = e /\ Nx(z, e) \in Addr BY <3>1, BlockPlace DEF Rep
    <3>3. Nx(z, e) # n BY <1>1, <3>1, NextDiffers
    <3>4. Nx(z, e) # a + W BY <1>1, <3>1, HeadApart
    <3>5. g.mem[Nx(z, e)] = h.mem[Nx(z, e)] BY <1>2, <3>2, <3>3, <3>4 DEF Wrote
    <3> QED BY <1>3, <2>2, <3>1, <3>2, <3>5
  <2> QED BY <2>1, <2>2
<1>7. Rep(g, T, y, G) BY <1>5, <1>6 DEF Rep
<1>8. Keeps(h, g, Fr, Safe(S, z, Fr, P))
  <2>1. {a + W, n} \subseteq Meta(S, z, Fr) BY <1>1 DEF Meta
  <2> HIDE DEF n
  <2> QED BY <1>2, <2>1, MetaFrame
<1> QED BY <1>7, <1>8 DEF g, y

(* A used block takes in the free block behind it.                         *)
LEMMA Grows ==
    ASSUME NEW P, PoolsOK(P), NEW S, NEW z, Chain(S, z, P), NEW Fr, Fr \subseteq S \ Ends(P),
           NEW h \in HeapType, Rep(h, S, z, Fr), NEW a \in S, a \notin Ends(P), a \notin Fr,
           NEW b \in Fr, b = Nx(z, a)
    PROVE  LET g == block_mark_as_used(block_absorb(h, a, b), a)
           IN  /\ Rep(g, S \ {b}, AbsorbSizes(S, z, a, b), Fr \ {b})
               /\ Keeps(h, g, Fr, Safe(S, z, Fr, P))
<1> DEFINE k == block_absorb(h, a, b)
           T == S \ {b}
           y == AbsorbSizes(S, z, a, b)
           G == Fr \ {b}
           n == Nx(z, b)
           k1 == block_set_prev_used(k, n)
           g == block_set_used(k1, a)
<1>1. b \in S /\ b \notin Ends(P) OBVIOUS
<1>2. /\ Wrote(h, k, {a + W, n}) /\ k.mem[n] = a
      /\ block_size(k, a) = z[a] + z[b] + W
      /\ block_is_free(k, a) = block_is_free(h, a)
      /\ block_is_prev_free(k, a) = block_is_prev_free(h, a)
  BY <1>1, Absorb
<1>3. /\ a \in T /\ a # b /\ y[a] = z[a] + z[b] + W /\ Nx(y, a) = n /\ n \in T
      /\ \A c \in T : c # a => y[c] = z[c] /\ Nx(y, c) = Nx(z, c)
  <2>1. AbsorbIs(S, z, a, b, P) BY <1>1, ChainAbsorb
  <2> QED BY <2>1 DEF AbsorbIs
<1>4. /\ a \in Nat /\ z[a] \in Nat /\ a + W \in Addr /\ z[b] \in Nat /\ n \in Nat
      /\ n + W \in Addr /\ n \in S /\ a + 4 * W <= b /\ b + 4 * W <= n /\ b \in Nat
  BY <1>1, BlockPlace
<1>5. block_next(k, a) = n
  <2>1. z[a] + z[b] + W \in Nat BY <1>4, Layout
  <2>2. block_next(k, a) = a + W + (z[a] + z[b] + W) BY <1>2, <1>4, <2>1, NextOfSize
  <2>3. n = a + W + (z[a] + z[b] + W) BY <1>3 DEF Nx
  <2> QED BY <2>2, <2>3
<1>6. g = block_mark_as_used(k, a) BY <1>5 DEF block_mark_as_used
<1>7. k \in HeapType BY <1>2, HeapTypeOfWrote
<1>8. /\ Wrote(k, k1, {n + W}) /\ block_size(k1, n) = block_size(k, n)
      /\ block_is_free(k1, n) = block_is_free(k, n) /\ ~ block_is_prev_free(k1, n)
  BY <1>4, <1>7, SetPrevUsed
<1>9. k1 \in HeapType BY <1>8, HeapTypeOfWrote
<1>10. /\ Wrote(k1, g, {a + W}) /\ block_size(g, a) = block_size(k1, a)
       /\ block_is_prev_free(g, a) = block_is_prev_free(k1, a) /\ ~ block_is_free(g, a)
  BY <1>4, <1>9, SetUsed
<1> HIDE DEF k, k1, g, y
<1>11. Wrote(h, k1, {a + W, n} \cup {n + W}) BY <1>2, <1>8, WroteBoth
<1>12. Wrote(h, g, ({a + W, n} \cup {n + W}) \cup {a + W}) BY <1>10, <1>11, WroteBoth
<1>13. a + W # n + W /\ a # n /\ n + W # n BY <1>4, Layout
<1>14. Behind(y, G) = Behind(z, Fr) \ {n}
  <2>1. ASSUME NEW e \in G PROVE Nx(y, e) = Nx(z, e) /\ Nx(z, e) # n
    <3>1. e \in T /\ e # a /\ e # b /\ e \in S OBVIOUS
    <3> QED BY <1>1, <1>3, <3>1, NextDiffers
  <2> QED BY <2>1 DEF Behind
<1>15. ASSUME NEW c \in T PROVE HeadIs(g, c, y, G)
  <2>1. HeadIs(h, c, z, Fr) /\ c + W \in Addr BY BlockPlace DEF Rep
  <2>2. CASE c = a
    <3>1. /\ block_size(k1, a) = block_size(k, a)
          /\ block_is_prev_free(k1, a) = block_is_prev_free(k, a)
      BY <1>4, <1>8, <1>13, SameHeadIs
    <3> QED BY <1>2, <1>3, <1>10, <1>13, <1>14, <2>1, <2>2, <3>1 DEF HeadIs
  <2>3. CASE c = n
    <3>0. n + W # n /\ n + W # a + W BY <1>13
    <3>1. /\ block_size(k, n) = block_size(h, n)
          /\ block_is_free(k, n) = block_is_free(h, n)
      BY <1>2, <1>4, <3>0, SameHeadIs
    <3>2. /\ block_size(g, n) = block_size(k1, n)
          /\ block_is_free(g, n) = block_is_free(k1, n)
          /\ block_is_prev_free(g, n) = block_is_prev_free(k1, n)
      BY <1>4, <1>10, <3>0, SameHeadIs
    <3>3. n # b BY <1>3
    <3> QED BY <1>3, <1>8, <1>13, <1>14, <2>1, <2>3, <3>1, <3>2, <3>3 DEF HeadIs
  <2>4. CASE c # a /\ c # n
    <3>1. c + W # a + W /\ c + W # n /\ c + W # n + W BY <1>1, <1>4, <2>4, HeadApart, TailApart
    <3>2. /\ block_size(g, c) = block_size(h, c)
          /\ block_is_free(g, c) = block_is_free(h, c)
          /\ block_is_prev_free(g, c) = block_is_prev_free(h, c)
      BY <1>12, <2>1, <3>1, SameHeadIs
    <3> QED BY <1>3, <1>14, <2>1, <2>4, <3>2 DEF HeadIs
  <2> QED BY <2>2, <2>3, <2>4
<1>16. ASSUME NEW e \in G PROVE g.mem[Nx(y, e)] = e
  <2>1. e \in Fr /\ e \in S /\ e \notin Ends(P) /\ e \in T /\ e # b /\ e # a OBVIOUS
  <2>2. h.mem[Nx(z, e)] = e /\ Nx(z, e) \in Addr BY <2>1, BlockPlace DEF Rep
  <2>3. Nx(z, e) # n BY <1>1, <2>1, NextDiffers
  <2>4. Nx(z, e) # a + W /\ Nx(z, e) # n + W BY <1>4, <2>1, HeadApart
  <2>5. g.mem[Nx(z, e)] = h.mem[Nx(z, e)] BY <1>12, <2>2, <2>3, <2>4 DEF Wrote
  <2> QED BY <1>3, <2>1, <2>2, <2>5
<1>17. Rep(g, T, y, G) BY <1>15, <1>16 DEF Rep
<1>18. Keeps(h, g, Fr, Safe(S, z, Fr, P))
  <2>1. ({a + W, n} \cup {n + W}) \cup {a + W} \subseteq Meta(S, z, Fr) BY <1>1, <1>4 DEF Meta
  <2> HIDE DEF n
  <2> QED BY <1>12, <2>1, MetaFrame
<1> QED BY <1>6, <1>17, <1>18 DEF k, y

(* What block_split leaves: the second part is free, and its flag for the  *)
(* block in front of it is not set yet.                                    *)
SplitOf(h, k, z, b, size) ==
    LET r == b + W + size
        n == Nx(z, b)
    IN  /\ Wrote(h, k, {r + W, b + W, n, n + W})
        /\ block_size(k, b) = size /\ block_size(k, r) = z[b] - size - W
        /\ block_is_free(k, b) = block_is_free(h, b)
        /\ block_is_prev_free(k, b) = block_is_prev_free(h, b)
        /\ block_is_free(k, r) /\ k.mem[n] = r
        /\ block_size(k, n) = block_size(h, n) /\ block_is_free(k, n) = block_is_free(h, n)
        /\ block_is_prev_free(k, n)

(* What block_split does to the headers.                                   *)
LEMMA Split ==
    ASSUME NEW P, PoolsOK(P), NEW S, NEW z, Chain(S, z, P), NEW Fr, Fr \subseteq S \ Ends(P),
           NEW h \in HeapType, Rep(h, S, z, Fr), NEW b \in S, b \notin Ends(P),
           NEW size, Aligned(size), 3 * W <= size, size + 4 * W <= z[b]
    PROVE  /\ block_split(h, b, size).block = b + W + size
           /\ SplitOf(h, block_split(h, b, size).heap, z, b, size)
<1> DEFINE r == b + W + size
           m == z[b] - size - W
           n == Nx(z, b)
           h1 == block_set_size(h, r, m)
           h2 == block_set_size(h1, b, size)
           h3 == block_link_next(h2, r)
           h4 == block_set_prev_free(h3, n)
           k == block_set_free(h4, r)
<1>1. /\ b \in Nat /\ z[b] \in Nat /\ n \in Addr /\ n \in S /\ n + W \in Addr /\ b + W \in Addr
      /\ n = b + W + z[b] /\ n \in Nat /\ Aligned(b) /\ Aligned(z[b])
      /\ \A x : Aligned(x) /\ b <= x /\ x <= n + W => x \in Addr
  BY BlockPlace
<1>2. size \in Nat BY DEF Aligned
<1>3. /\ r \in Nat /\ r = b + W + size /\ m \in Nat /\ m >= 3 * W /\ n = r + W + m
      /\ b <= r + W /\ r + W <= n + W /\ size <= z[b] /\ W <= z[b] - size
      /\ b + W # r + W /\ n # r + W /\ n # b + W /\ n + W # r + W /\ n + W # b + W /\ n # n + W
  BY <1>1, <1>2, Layout
<1>4. Aligned(r + W) /\ Aligned(m)
  <2>1. Aligned(b + W) BY <1>1, AlignedWords, AlignedSum
  <2>2. Aligned(r) BY <2>1, AlignedSum
  <2>3. Aligned(z[b] - size) BY <1>1, <1>3, AlignedDiff
  <2>4. Aligned((z[b] - size) - W) BY <1>3, <2>3, AlignedWords, AlignedDiff
  <2> QED BY <2>2, <2>4, AlignedWords, AlignedSum
<1>5. r + W \in Addr BY <1>1, <1>3, <1>4
<1>6. block_size(h, b) = z[b] /\ HeadIs(h, n, z, Fr) BY <1>1 DEF Rep, HeadIs
<1>7. block_split(h, b, size) = Result(block_mark_as_free(h2, r), r)
  <2>1. block_to_ptr(b) + size - block_header_overhead = (b + 2 * W) + (size - W)
    BY Layout DEF block_to_ptr
  <2>2. (b + 2 * W) + (size - W) = r BY <1>1, <1>2, Layout
  <2>3. block_size(h, b) - (size + block_header_overhead) = z[b] - (size + W) BY <1>6, Layout
  <2>4. z[b] - (size + W) = m BY <1>1, <1>2, Layout
  <2> HIDE DEF r, m
  <2> QED BY <2>1, <2>2, <2>3, <2>4, Zenon DEF block_split
<1> HIDE DEF r, m, n
<1>8. /\ Wrote(h, h1, {r + W}) /\ block_size(h1, r) = m BY <1>4, <1>5, SetSize
<1>9. h1 \in HeapType BY <1>8, HeapTypeOfWrote
<1>10. /\ Wrote(h1, h2, {b + W}) /\ block_size(h2, b) = size
       /\ block_is_free(h2, b) = block_is_free(h1, b)
       /\ block_is_prev_free(h2, b) = block_is_prev_free(h1, b)
  BY <1>1, <1>9, SetSize
<1>11. h2 \in HeapType BY <1>10, HeapTypeOfWrote
<1> HIDE DEF h1, h2
<1>12. /\ block_is_free(h1, b) = block_is_free(h, b)
       /\ block_is_prev_free(h1, b) = block_is_prev_free(h, b)
  BY <1>1, <1>3, <1>8, SameHeadIs
<1>13. block_size(h2, r) = m
  <2>1. block_size(h2, r) = block_size(h1, r) BY <1>3, <1>5, <1>10, SameHeadIs
  <2> QED BY <1>8, <2>1
<1>14. block_next(h2, r) = n
  <2>1. block_next(h2, r) = r + W + block_size(h2, r) BY <1>3, <1>13, NextOfSize
  <2> QED BY <1>3, <1>13, <2>1
<1>15. k = block_mark_as_free(h2, r) BY <1>14 DEF block_mark_as_free
<1>16. Wrote(h2, h3, {n}) /\ h3.mem[n] = r BY <1>1, <1>3, <1>11, <1>14, LinkNext
<1>17. h3 \in HeapType BY <1>16, HeapTypeOfWrote
<1>18. /\ Wrote(h3, h4, {n + W}) /\ block_size(h4, n) = block_size(h3, n)
       /\ block_is_free(h4, n) = block_is_free(h3, n) /\ block_is_prev_free(h4, n)
  BY <1>1, <1>17, SetPrevFree
<1>19. h4 \in HeapType BY <1>18, HeapTypeOfWrote
<1>20. /\ Wrote(h4, k, {r + W}) /\ block_size(k, r) = block_size(h4, r) /\ block_is_free(k, r)
  BY <1>5, <1>19, SetFree
<1> HIDE DEF h3, h4, k
<1>21. Wrote(h, h2, {r + W} \cup {b + W}) BY <1>8, <1>10, WroteBoth
<1>22. Wrote(h, h3, ({r + W} \cup {b + W}) \cup {n}) BY <1>16, <1>21, WroteBoth
<1>23. Wrote(h, h4, (({r + W} \cup {b + W}) \cup {n}) \cup {n + W}) BY <1>18, <1>22, WroteBoth
<1>24. Wrote(h, k, ((({r + W} \cup {b + W}) \cup {n}) \cup {n + W}) \cup {r + W})
  BY <1>20, <1>23, WroteBoth
<1>25. Wrote(h, k, {r + W, b + W, n, n + W}) BY <1>24, WroteMore
<1>26. Wrote(h2, h4, {n} \cup {n + W}) BY <1>16, <1>18, WroteBoth
<1>27. Wrote(h2, k, ({n} \cup {n + W}) \cup {r + W}) BY <1>20, <1>26, WroteBoth
<1>28. /\ block_size(k, b) = size
       /\ block_is_free(k, b) = block_is_free(h, b)
       /\ block_is_prev_free(k, b) = block_is_prev_free(h, b)
  <2>1. /\ block_size(k, b) = block_size(h2, b)
        /\ block_is_free(k, b) = block_is_free(h2, b)
        /\ block_is_prev_free(k, b) = block_is_prev_free(h2, b)
    BY <1>1, <1>3, <1>27, SameHeadIs
  <2> QED BY <1>10, <1>12, <2>1
<1>29. block_size(k, r) = m
  <2>1. block_size(h4, r) = block_size(h2, r) BY <1>3, <1>5, <1>26, SameHeadIs
  <2> QED BY <1>13, <1>20, <2>1
<1>30. k.mem[n] = r
  <2>1. h4.mem[n] = h3.mem[n] BY <1>1, <1>3, <1>18 DEF Wrote
  <2>2. k.mem[n] = h4.mem[n] BY <1>1, <1>3, <1>20 DEF Wrote
  <2> QED BY <1>16, <2>1, <2>2
<1>31. /\ block_size(k, n) = block_size(h, n) /\ block_is_free(k, n) = block_is_free(h, n)
       /\ block_is_prev_free(k, n)
  <2>1. /\ block_size(h3, n) = block_size(h, n) /\ block_is_free(h3, n) = block_is_free(h, n)
    BY <1>1, <1>3, <1>22, SameHeadIs
  <2>2. /\ block_size(k, n) = block_size(h4, n) /\ block_is_free(k, n) = block_is_free(h4, n)
        /\ block_is_prev_free(k, n) = block_is_prev_free(h4, n)
    BY <1>1, <1>3, <1>20, SameHeadIs
  <2> QED BY <1>18, <2>1, <2>2
<1>32. block_split(h, b, size).block = r /\ block_split(h, b, size).heap = k
  BY <1>7, <1>15 DEF Result
<1>33. SplitOf(h, k, z, b, size)
  BY <1>20, <1>25, <1>28, <1>29, <1>30, <1>31 DEF SplitOf, r, m, n
<1> QED BY <1>32, <1>33 DEF r

(* A split block when both flags of the second part are right.             *)
SplitDone(h, g, z, b, size, Fr) ==
    LET r == b + W + size
        n == Nx(z, b)
    IN  /\ Wrote(h, g, {r + W, b + W, n, n + W} \cup (IF b \in Fr THEN {r} ELSE {}))
        /\ block_size(g, b) = size /\ block_size(g, r) = z[b] - size - W
        /\ block_is_free(g, b) = block_is_free(h, b)
        /\ block_is_prev_free(g, b) = block_is_prev_free(h, b)
        /\ block_is_free(g, r) /\ g.mem[n] = r
        /\ block_is_prev_free(g, r) <=> b \in Fr
        /\ b \in Fr => g.mem[r] = b
        /\ block_size(g, n) = block_size(h, n) /\ block_is_free(g, n) = block_is_free(h, n)
        /\ block_is_prev_free(g, n)

(* After a split the headers describe the two parts.                       *)
LEMMA SplitRep ==
    ASSUME NEW P, PoolsOK(P), NEW S, NEW z, Chain(S, z, P), NEW Fr, Fr \subseteq S \ Ends(P),
           NEW h \in HeapType, Rep(h, S, z, Fr), NEW b \in S, b \notin Ends(P),
           NEW size, Aligned(size), 3 * W <= size, size + 4 * W <= z[b],
           NEW g, SplitDone(h, g, z, b, size, Fr)
    PROVE  LET r == b + W + size
               T == S \cup {r}
               y == SplitSizes(S, z, b, size)
               G == Fr \cup {r}
           IN  /\ Chain(T, y, P) /\ G \subseteq T \ Ends(P) /\ Rep(g, T, y, G)
               /\ Keeps(h, g, G, Safe(T, y, G, P))
<1> DEFINE r == b + W + size
           T == S \cup {r}
           y == SplitSizes(S, z, b, size)
           G == Fr \cup {r}
           n == Nx(z, b)
           A == {r + W, b + W, n, n + W} \cup (IF b \in Fr THEN {r} ELSE {})
<1>1. SplitIs(S, z, b, size, P) BY ChainSplit
<1>2. /\ Chain(T, y, P) /\ r \notin S /\ r \notin Ends(P) /\ r # b
      /\ y[b] = size /\ y[r] = z[b] - size - W
      /\ Nx(y, b) = r /\ Nx(y, r) = n
      /\ \A c \in S : c # b => y[c] = z[c] /\ Nx(y, c) = Nx(z, c)
  BY <1>1 DEF SplitIs
<1>3. G \subseteq T \ Ends(P) /\ b \in T /\ r \in T /\ r \in G BY <1>2
<1>4. n \in S BY BlockPlace
<1>5. /\ Wrote(h, g, A)
      /\ block_size(g, b) = size /\ block_size(g, r) = z[b] - size - W
      /\ block_is_free(g, b) = block_is_free(h, b)
      /\ block_is_prev_free(g, b) = block_is_prev_free(h, b)
      /\ block_is_free(g, r) /\ g.mem[n] = r
      /\ block_is_prev_free(g, r) <=> b \in Fr
      /\ b \in Fr => g.mem[r] = b
      /\ block_size(g, n) = block_size(h, n) /\ block_is_free(g, n) = block_is_free(h, n)
      /\ block_is_prev_free(g, n)
  BY DEF SplitDone
<1> HIDE DEF r, T, y, G, n, A
<1>6. A \subseteq Meta(T, y, G)
  <2>1. n + W \in {c + W : c \in T} /\ r + W \in {c + W : c \in T} /\ b + W \in {c + W : c \in T}
    BY <1>3, <1>4 DEF T
  <2>2. n \in {Nx(y, a) : a \in G} BY <1>2, <1>3
  <2>3. b \in Fr => r \in {Nx(y, a) : a \in G} BY <1>2 DEF G
  <2> QED BY <2>1, <2>2, <2>3 DEF A, Meta
<1>7. Keeps(h, g, G, Safe(T, y, G, P)) BY <1>2, <1>3, <1>5, <1>6, MetaFrame
<1>8. Behind(y, G) = Behind(z, Fr) \cup {n} \cup (IF b \in Fr THEN {r} ELSE {})
  <2>1. ASSUME NEW e \in G PROVE Nx(y, e) \in Behind(z, Fr) \cup {n} \cup (IF b \in Fr THEN {r} ELSE {})
    <3>1. CASE e = r BY <1>2, <3>1
    <3>2. CASE e = b /\ e # r BY <1>2, <2>1, <3>2 DEF G
    <3>3. CASE e # b /\ e # r
      <4>1. e \in Fr /\ e \in S BY <3>3 DEF G
      <4> QED BY <1>2, <3>3, <4>1 DEF Behind
    <3> QED BY <3>1, <3>2, <3>3
  <2>2. ASSUME NEW e \in Fr PROVE Nx(z, e) \in Behind(y, G)
    <3>1. CASE e = b BY <1>2, <1>3, <3>1 DEF Behind, n
    <3>2. CASE e # b
      <4>1. e \in S /\ e \in G BY DEF G
      <4> QED BY <1>2, <3>2, <4>1 DEF Behind
    <3> QED BY <3>1, <3>2
  <2>3. n \in Behind(y, G) BY <1>2, <1>3 DEF Behind
  <2>4. b \in Fr => r \in Behind(y, G) BY <1>2 DEF Behind, G
  <2> QED BY <2>1, <2>2, <2>3, <2>4 DEF Behind
<1>9. b \notin {n, r} /\ n # r
  <2>1. b \in Nat /\ n \in Nat /\ b + 4 * W <= n BY BlockPlace DEF n
  <2>2. b # n BY <2>1, Layout
  <2> QED BY <1>2, <1>4, <2>2
<1>10. ASSUME NEW c \in T PROVE HeadIs(g, c, y, G)
  <2>1. CASE c = r
    <3>1. r \in Behind(y, G) <=> b \in Fr
      <4>1. r \notin Behind(z, Fr)
        <5>1. \A a \in Fr : Nx(z, a) \in S
          <6> SUFFICES ASSUME NEW a \in Fr PROVE Nx(z, a) \in S OBVIOUS
          <6>1. a \in S /\ a \notin Ends(P) OBVIOUS
          <6> QED BY <6>1, BlockPlace
        <5> QED BY <1>2, <5>1 DEF Behind
      <4> QED BY <1>8, <1>9, <4>1
    <3> QED BY <1>2, <1>3, <1>5, <2>1, <3>1 DEF HeadIs
  <2>2. CASE c \in S
    <3>1. HeadIs(h, c, z, Fr) /\ c + W \in Addr /\ c # r BY <1>2, <2>2, BlockPlace DEF Rep
    <3>2. CASE c = b
      <4>1. b \in Behind(y, G) <=> b \in Behind(z, Fr) BY <1>8, <1>9
      <4>2. b \in G <=> b \in Fr BY <1>9 DEF G
      <4> QED BY <1>2, <1>5, <3>1, <3>2, <4>1, <4>2 DEF HeadIs
    <3>3. CASE c = n
      <4>1. n \in Behind(y, G) BY <1>8
      <4>2. n \in G <=> n \in Fr BY <1>9 DEF G
      <4>3. y[n] = z[n] BY <1>2, <1>4, <1>9
      <4> QED BY <1>5, <3>1, <3>3, <4>1, <4>2, <4>3 DEF HeadIs
    <3>4. CASE c # b /\ c # n
      <4>1. c \in T /\ n \in T BY <1>4, <2>2 DEF T
      <4>2. c + W # r + W /\ c + W # b + W /\ c + W # n + W BY <1>2, <1>3, <3>1, <3>4, <4>1, HeadApart
      <4>3. c + W # n BY <1>2, <1>3, <4>1, TailApart
      <4>4. b \in Fr => c + W # r
        <5> SUFFICES ASSUME b \in Fr PROVE c + W # r OBVIOUS
        <5>1. b \in G BY DEF G
        <5> QED BY <1>2, <1>3, <4>1, <5>1, TailApart
      <4>5. c + W \notin A BY <4>2, <4>3, <4>4 DEF A
      <4>6. /\ block_size(g, c) = block_size(h, c)
            /\ block_is_free(g, c) = block_is_free(h, c)
            /\ block_is_prev_free(g, c) = block_is_prev_free(h, c)
        BY <1>5, <3>1, <4>5, SameHeadIs
      <4>7. c \in Behind(y, G) <=> c \in Behind(z, Fr) BY <1>8, <3>1, <3>4
      <4>8. c \in G <=> c \in Fr BY <3>1 DEF G
      <4> QED BY <1>2, <2>2, <3>1, <3>4, <4>6, <4>7, <4>8 DEF HeadIs
    <3> QED BY <3>2, <3>3, <3>4
  <2> QED BY <2>1, <2>2 DEF T
<1>11. ASSUME NEW e \in G PROVE g.mem[Nx(y, e)] = e
  <2>1. CASE e = r BY <1>2, <1>5, <2>1
  <2>2. CASE e = b
    <3>1. b \in Fr BY <1>9, <2>2 DEF G
    <3> QED BY <1>2, <1>5, <2>2, <3>1
  <2>3. CASE e # r /\ e # b
    <3>1. e \in Fr /\ e \in S /\ e \notin Ends(P) BY <2>3 DEF G
    <3>2. h.mem[Nx(z, e)] = e /\ Nx(z, e) \in Addr /\ Nx(z, e) \in S BY <3>1, BlockPlace DEF Rep
    <3>3. Nx(y, e) = Nx(z, e) BY <1>2, <2>3, <3>1
    <3>4. Nx(z, e) # r /\ Nx(z, e) # n BY <1>2, <2>3, <3>1, <3>2, NextDiffers DEF n
    <3>5. n \in T BY <1>4 DEF T
    <3>6. Nx(y, e) # r + W /\ Nx(y, e) # b + W /\ Nx(y, e) # n + W
      BY <1>2, <1>3, <3>5, HeadApart
    <3>7. Nx(z, e) \notin A BY <3>3, <3>4, <3>6 DEF A
    <3>8. g.mem[Nx(z, e)] = h.mem[Nx(z, e)] BY <1>5, <3>2, <3>7 DEF Wrote
    <3> QED BY <3>2, <3>3, <3>8
  <2> QED BY <2>1, <2>2, <2>3
<1>12. Rep(g, T, y, G) BY <1>10, <1>11 DEF Rep
<1> QED BY <1>2, <1>3, <1>7, <1>12 DEF r, T, y, G

(* The second part of a used block.                                        *)
LEMMA SplitUsed ==
    ASSUME NEW P, PoolsOK(P), NEW S, NEW z, Chain(S, z, P), NEW Fr, Fr \subseteq S \ Ends(P),
           NEW h \in HeapType, Rep(h, S, z, Fr), NEW b \in S, b \notin Ends(P), b \notin Fr,
           NEW size, Aligned(size), 3 * W <= size, size + 4 * W <= z[b]
    PROVE  LET s == block_split(h, b, size)
           IN  SplitDone(h, block_set_prev_used(s.heap, s.block), z, b, size, Fr)
<1> DEFINE r == b + W + size
           n == Nx(z, b)
           k == block_split(h, b, size).heap
           g == block_set_prev_used(k, r)
<1>1. block_split(h, b, size).block = r /\ SplitOf(h, k, z, b, size) BY Split
<1>2. /\ Wrote(h, k, {r + W, b + W, n, n + W})
      /\ block_size(k, b) = size /\ block_size(k, r) = z[b] - size - W
      /\ block_is_free(k, b) = block_is_free(h, b)
      /\ block_is_prev_free(k, b) = block_is_prev_free(h, b)
      /\ block_is_free(k, r) /\ k.mem[n] = r
      /\ block_size(k, n) = block_size(h, n) /\ block_is_free(k, n) = block_is_free(h, n)
      /\ block_is_prev_free(k, n)
  BY <1>1 DEF SplitOf
<1>3. SplitIs(S, z, b, size, P) BY ChainSplit
<1> DEFINE T == S \cup {r}
           y == SplitSizes(S, z, b, size)
           G == Fr \cup {r}
<1>4. /\ Chain(T, y, P) /\ r # b /\ Nx(y, r) = n /\ r \notin S /\ r \notin Ends(P) BY <1>3 DEF SplitIs
<1>5. n \in S /\ n \in Addr /\ b + W \in Addr /\ n + W \in Addr BY BlockPlace
<1> HIDE DEF r, n, k, y
<1>6. r \in T /\ b \in T /\ n \in T /\ G \subseteq T \ Ends(P) /\ r \in G BY <1>4, <1>5
<1> HIDE DEF T, G
<1>7. r + W \in Addr BY <1>4, <1>6, BlockPlace
<1>8. n # r BY <1>4, <1>5
<1>9. b + W # r + W /\ n + W # r + W /\ n # r + W BY <1>4, <1>6, <1>8, HeadApart, TailApart
<1>10. k \in HeapType BY <1>2, HeapTypeOfWrote
<1>11. /\ Wrote(k, g, {r + W}) /\ block_size(g, r) = block_size(k, r)
       /\ block_is_free(g, r) = block_is_free(k, r) /\ ~ block_is_prev_free(g, r)
  BY <1>7, <1>10, SetPrevUsed
<1> HIDE DEF g
<1>12. Wrote(h, g, {r + W, b + W, n, n + W} \cup {r + W}) BY <1>2, <1>11, WroteBoth
<1>13. Wrote(h, g, {r + W, b + W, n, n + W} \cup (IF b \in Fr THEN {r} ELSE {}))
  BY <1>12, WroteMore
<1>14. /\ block_size(g, b) = block_size(k, b) /\ block_is_free(g, b) = block_is_free(k, b)
       /\ block_is_prev_free(g, b) = block_is_prev_free(k, b)
  BY <1>5, <1>9, <1>11, SameHeadIs
<1>15. /\ block_size(g, n) = block_size(k, n) /\ block_is_free(g, n) = block_is_free(k, n)
       /\ block_is_prev_free(g, n) = block_is_prev_free(k, n)
  BY <1>5, <1>9, <1>11, SameHeadIs
<1>16. g.mem[n] = k.mem[n] BY <1>5, <1>9, <1>11 DEF Wrote
<1>17. SplitDone(h, g, z, b, size, Fr)
  BY <1>2, <1>11, <1>13, <1>14, <1>15, <1>16 DEF SplitDone, r, n
<1> QED BY <1>1, <1>17 DEF g, k

(* The second part of a free block; its two neighbourly words are written  *)
(* in either order.                                                        *)
LEMMA SplitFree ==
    ASSUME NEW P, PoolsOK(P), NEW S, NEW z, Chain(S, z, P), NEW Fr, Fr \subseteq S \ Ends(P),
           NEW h \in HeapType, Rep(h, S, z, Fr), NEW b \in Fr,
           NEW size, Aligned(size), 3 * W <= size, size + 4 * W <= z[b]
    PROVE  LET s == block_split(h, b, size)
           IN  /\ SplitDone(h, block_set_prev_free(block_link_next(s.heap, b), s.block),
                            z, b, size, Fr)
               /\ SplitDone(h, block_link_next(block_set_prev_free(s.heap, s.block), b),
                            z, b, size, Fr)
<1> DEFINE r == b + W + size
           n == Nx(z, b)
           k == block_split(h, b, size).heap
           k1 == block_link_next(k, b)
           g == block_set_prev_free(k1, r)
           k2 == block_set_prev_free(k, r)
           f == block_link_next(k2, b)
<1>0. b \in S /\ b \notin Ends(P) OBVIOUS
<1>1. block_split(h, b, size).block = r /\ SplitOf(h, k, z, b, size) BY <1>0, Split
<1>2. /\ Wrote(h, k, {r + W, b + W, n, n + W})
      /\ block_size(k, b) = size /\ block_size(k, r) = z[b] - size - W
      /\ block_is_free(k, b) = block_is_free(h, b)
      /\ block_is_prev_free(k, b) = block_is_prev_free(h, b)
      /\ block_is_free(k, r) /\ k.mem[n] = r
      /\ block_size(k, n) = block_size(h, n) /\ block_is_free(k, n) = block_is_free(h, n)
      /\ block_is_prev_free(k, n)
  BY <1>1 DEF SplitOf
<1>3. SplitIs(S, z, b, size, P) BY <1>0, ChainSplit
<1> DEFINE T == S \cup {r}
           y == SplitSizes(S, z, b, size)
           G == Fr \cup {r}
<1>4. /\ Chain(T, y, P) /\ r # b /\ Nx(y, r) = n /\ Nx(y, b) = r /\ r \notin S /\ r \notin Ends(P)
  BY <1>3 DEF SplitIs
<1>5. n \in S /\ n \in Addr /\ b + W \in Addr /\ n + W \in Addr /\ b \in Nat BY <1>0, BlockPlace
<1>5a. size \in Nat BY DEF Aligned
<1>5b. block_next(k, b) = r BY <1>2, <1>5, <1>5a, NextOfSize
<1> HIDE DEF r, n, k, y
<1>6. r \in T /\ b \in T /\ n \in T /\ G \subseteq T \ Ends(P) /\ r \in G /\ b \in G BY <1>0, <1>4, <1>5
<1> HIDE DEF T, G
<1>7. r + W \in Addr /\ r \in Addr BY <1>4, <1>6, BlockPlace
<1>8. n # r BY <1>4, <1>5
<1>9. b + W # r + W /\ n + W # r + W /\ n # r + W /\ b + W # r /\ n + W # r /\ r + W # r
  BY <1>4, <1>6, <1>8, HeadApart, TailApart
<1>10. k \in HeapType BY <1>2, HeapTypeOfWrote
<1>11. Wrote(k, k1, {r}) /\ k1.mem[r] = b BY <1>5, <1>5b, <1>7, <1>10, LinkNext
<1>12. k1 \in HeapType BY <1>11, HeapTypeOfWrote
<1>13. /\ Wrote(k1, g, {r + W}) /\ block_size(g, r) = block_size(k1, r)
       /\ block_is_free(g, r) = block_is_free(k1, r) /\ block_is_prev_free(g, r)
  BY <1>7, <1>12, SetPrevFree
<1>14. /\ Wrote(k, k2, {r + W}) /\ block_size(k2, r) = block_size(k, r)
       /\ block_is_free(k2, r) = block_is_free(k, r) /\ block_is_prev_free(k2, r)
  BY <1>7, <1>10, SetPrevFree
<1>15. k2 \in HeapType BY <1>14, HeapTypeOfWrote
<1>16. block_size(k2, b) = size
  <2>1. block_size(k2, b) = block_size(k, b) BY <1>5, <1>9, <1>14, SameHeadIs
  <2> QED BY <1>2, <2>1
<1>17. block_next(k2, b) = r
  <2>1. block_next(k2, b) = b + W + size BY <1>5, <1>5a, <1>16, NextOfSize
  <2> QED BY <2>1 DEF r
<1>18. Wrote(k2, f, {r}) /\ f.mem[r] = b BY <1>5, <1>7, <1>15, <1>17, LinkNext
<1> HIDE DEF k1, k2, f, g
<1>19. Wrote(k, g, {r} \cup {r + W}) BY <1>11, <1>13, WroteBoth
<1>20. Wrote(k, f, {r + W} \cup {r}) BY <1>14, <1>18, WroteBoth
<1>21. ASSUME NEW e, Wrote(k, e, {r, r + W}), e.mem[r] = b, block_is_prev_free(e, r),
              block_size(e, r) = block_size(k, r), block_is_free(e, r) = block_is_free(k, r)
       PROVE  SplitDone(h, e, z, b, size, Fr)
  <2>1. Wrote(h, e, {r + W, b + W, n, n + W} \cup {r, r + W}) BY <1>2, <1>21, WroteBoth
  <2>2. Wrote(h, e, {r + W, b + W, n, n + W} \cup (IF b \in Fr THEN {r} ELSE {}))
    BY <2>1, WroteMore
  <2>3. /\ block_size(e, b) = block_size(k, b) /\ block_is_free(e, b) = block_is_free(k, b)
        /\ block_is_prev_free(e, b) = block_is_prev_free(k, b)
    BY <1>5, <1>9, <1>21, SameHeadIs
  <2>4. /\ block_size(e, n) = block_size(k, n) /\ block_is_free(e, n) = block_is_free(k, n)
        /\ block_is_prev_free(e, n) = block_is_prev_free(k, n)
    BY <1>5, <1>9, <1>21, SameHeadIs
  <2>5. e.mem[n] = k.mem[n] BY <1>5, <1>8, <1>9, <1>21 DEF Wrote
  <2> QED BY <1>2, <1>21, <2>2, <2>3, <2>4, <2>5 DEF SplitDone, r, n
<1>22. SplitDone(h, g, z, b, size, Fr)
  <2>1. Wrote(k, g, {r, r + W}) BY <1>19, WroteMore
  <2>2. g.mem[r] = b
    <3>1. g.mem[r] = k1.mem[r] BY <1>7, <1>9, <1>13 DEF Wrote
    <3> QED BY <1>11, <3>1
  <2>3. block_size(k1, r) = block_size(k, r) /\ block_is_free(k1, r) = block_is_free(k, r)
    BY <1>7, <1>9, <1>11, SameHeadIs
  <2> QED BY <1>13, <1>21, <2>1, <2>2, <2>3
<1>23. SplitDone(h, f, z, b, size, Fr)
  <2>1. Wrote(k, f, {r, r + W}) BY <1>20, WroteMore
  <2>3. /\ block_size(f, r) = block_size(k2, r) /\ block_is_free(f, r) = block_is_free(k2, r)
        /\ block_is_prev_free(f, r) = block_is_prev_free(k2, r)
    BY <1>7, <1>9, <1>18, SameHeadIs
  <2> QED BY <1>14, <1>18, <1>21, <2>1, <2>3
<1> QED BY <1>1, <1>22, <1>23 DEF g, f, k, k1, k2

ClassIds == [fl : FL, sl : SL]

(* Sizes of blocks have a list.                                            *)
LEMMA ClassExists ==
    ASSUME NEW s \in Nat, s < block_size_max
    PROVE  mapping_insert(s) \in ClassIds
<1> DEFINE c == mapping_insert(s)
<1>1. FL_INDEX_SHIFT \in Nat \ {0} /\ FL_INDEX_MAX \in Nat /\ FL_INDEX_MAX > FL_INDEX_SHIFT
  BY TlsfConstants DEF FL_INDEX_SHIFT
<1>2. FL_INDEX_COUNT = FL_INDEX_MAX - FL_INDEX_SHIFT + 1 BY DEF FL_INDEX_COUNT
<1>3. c \in Classes BY InsertType
<1>4. CASE s < SMALL_BLOCK_SIZE
  <2>1. c = [fl |-> 0, sl |-> s \div ALIGN_SIZE] /\ s \div ALIGN_SIZE \in SL BY <1>4, SmallClass
  <2>2. 0 \in FL BY <1>1, <1>2 DEF FL
  <2> QED BY <2>1, <2>2 DEF ClassIds
<1>5. CASE s >= SMALL_BLOCK_SIZE
  <2> DEFINE k == tlsf_fls_sizet(s)
  <2>1. s # 0 /\ ~ (s < SMALL_BLOCK_SIZE) BY <1>5, ClassSizes
  <2>2. k \in Nat /\ Pow2[k] <= s BY <2>1, Fls
  <2>3. k >= FL_INDEX_SHIFT BY <1>5, LargeClass
  <2>4. c.fl = k - (FL_INDEX_SHIFT - 1) BY <2>1 DEF mapping_insert
  <2> HIDE DEF k
  <2>5. k < FL_INDEX_MAX
    <3> SUFFICES ASSUME FL_INDEX_MAX <= k PROVE FALSE BY <1>1, <2>2
    <3>1. Pow2[FL_INDEX_MAX] <= Pow2[k] BY <1>1, <2>2, Pow2Mono
    <3>2. Pow2[FL_INDEX_MAX] \in Nat /\ Pow2[k] \in Nat BY <1>1, <2>2, Pow2Def
    <3> QED BY <2>2, <3>1, <3>2 DEF block_size_max
  <2>6. c.fl \in FL BY <1>1, <1>2, <2>2, <2>3, <2>4, <2>5 DEF FL
  <2> QED BY <1>3, <2>6 DEF Classes, ClassIds
<1>6. SMALL_BLOCK_SIZE \in Nat BY ClassSizes
<1> QED BY <1>4, <1>5, <1>6

(* The heads, the bits and the links are the same.                        *)
SameLists(h, g, F) ==
    /\ g.fl_bitmap = h.fl_bitmap /\ g.sl_bitmap = h.sl_bitmap /\ g.blocks = h.blocks
    /\ \A b \in F : g.mem[b + 2 * W] = h.mem[b + 2 * W] /\ g.mem[b + 3 * W] = h.mem[b + 3 * W]

(* Lists whose words did not change.                                       *)
LEMMA ListsSame ==
    ASSUME NEW F, NEW z, NEW y, NEW h, NEW g, Lists(h, F, z), SameLists(h, g, F),
           \A b \in F : y[b] = z[b]
    PROVE  Lists(g, F, y)
<1>1. ASSUME NEW b \in F PROVE NextFree(g, b) = NextFree(h, b) /\ PrevFree(g, b) = PrevFree(h, b)
  BY DEF SameLists, NextFree, PrevFree
<1>2. \A b \in F : Class(y, b) = Class(z, b) BY DEF Class
<1>3. g.fl_bitmap = h.fl_bitmap /\ g.sl_bitmap = h.sl_bitmap /\ g.blocks = h.blocks
  BY DEF SameLists
<1>4. ASSUME NEW i \in FL, NEW j \in SL PROVE HeadOK(g, F, y, i, j)
  <2>1. HeadOK(h, F, z, i, j) BY DEF Lists
  <2> QED BY <1>1, <1>2, <1>3, <2>1 DEF HeadOK
<1>5. PICK rho : Linked(h, F, z, rho) BY DEF Lists
<1>6. ASSUME NEW b \in F PROVE NextOK(g, F, y, rho, b) /\ PrevOK(g, F, y, b)
  <2>1. NextOK(h, F, z, rho, b) /\ PrevOK(h, F, z, b) BY <1>5 DEF Linked
  <2>2. NextOK(g, F, y, rho, b) BY <1>1, <1>2, <2>1 DEF NextOK
  <2>3. PrevOK(g, F, y, b) BY <1>1, <1>2, <1>3, <2>1 DEF PrevOK
  <2> QED BY <2>2, <2>3
<1>7. Linked(g, F, y, rho) BY <1>5, <1>6 DEF Linked
<1> QED BY <1>3, <1>4, <1>7 DEF Lists

LEMMA ListsKept ==
    ASSUME NEW P, PoolsOK(P), NEW F, NEW G, F \subseteq G, NEW z, NEW y, NEW h, NEW g, NEW A,
           Lists(h, F, z), Keeps(h, g, G, A), \A b \in F : y[b] = z[b]
    PROVE  Lists(g, F, y)
<1>1. ASSUME NEW b \in F
      PROVE  g.mem[b + 2 * W] = h.mem[b + 2 * W] /\ g.mem[b + 3 * W] = h.mem[b + 3 * W]
  <2>1. b + 2 * W \in LinkWords(G) /\ b + 3 * W \in LinkWords(G) BY DEF LinkWords
  <2> QED BY <2>1 DEF Keeps, SameOn
<1>2. SameLists(h, g, F) BY <1>1 DEF SameLists, Keeps
<1> QED BY <1>2, ListsSame

(* The links of two blocks are in different words.                         *)
LEMMA LinkPlaces ==
    ASSUME NEW P, PoolsOK(P), NEW S, NEW z, Chain(S, z, P), NEW Fr, Fr \subseteq S \ Ends(P),
           NEW d \in Fr \cup {block_null}, NEW e \in Fr \cup {block_null}
    PROVE  /\ d \in Nat /\ d \in Addr /\ d + 2 * W \in Addr /\ d + 3 * W \in Addr
           /\ d + 2 * W \in LinkWords(Fr) /\ d + 3 * W \in LinkWords(Fr)
           /\ d + 2 * W # e + 3 * W
           /\ d # e => d + 2 * W # e + 2 * W /\ d + 3 * W # e + 3 * W
           /\ d \in Fr => d # block_null
<1>0. block_null = ARENA /\ ARENA \in Nat BY Layout, Places DEF Aligned
<1>1. ASSUME NEW c \in Fr \cup {block_null}
      PROVE  /\ c \in Nat /\ c + 2 * W \in LinkWords(Fr) /\ c + 3 * W \in LinkWords(Fr)
             /\ c \in Fr => ARENA + 4 * W <= c /\ c \in S /\ c + 4 * W <= Nx(z, c)
                            /\ Nx(z, c) \in Nat /\ c \in Addr
             /\ c \notin Fr => c = ARENA
  <2>1. CASE c \in Fr
    <3>1. c \in S /\ c \notin Ends(P) BY <2>1
    <3>2. /\ c \in Nat /\ ARENA + 4 * W <= c /\ c + 4 * W <= Nx(z, c) /\ Nx(z, c) \in Nat /\ c \in Addr
      BY <3>1, BlockPlace
    <3> QED BY <2>1, <3>1, <3>2 DEF LinkWords
  <2>2. CASE c \notin Fr BY <1>0, <2>2 DEF LinkWords
  <2> QED BY <2>1, <2>2
<1>2. d + 2 * W \in Addr /\ d + 3 * W \in Addr BY <1>1, LinkApart
<1>3. d \in Addr
  <2>1. Bytes \in Nat /\ Bytes >= 7 * W /\ Aligned(ARENA) BY Places DEF Aligned
  <2>2. ARENA <= ARENA /\ ARENA < ARENA + Bytes BY <1>0, <2>1, Layout
  <2>3. ARENA \in Addr BY <2>1, <2>2, AddrIs
  <2> QED BY <1>1, <2>3
<1>4. d # e => d + 4 * W <= e \/ e + 4 * W <= d
  <2> SUFFICES ASSUME d # e PROVE d + 4 * W <= e \/ e + 4 * W <= d OBVIOUS
  <2>1. CASE d \in Fr /\ e \in Fr
    <3>1. d \in S /\ e \in S /\ d \in Nat /\ e \in Nat BY <1>1, <2>1
    <3>2. CASE d < e
      <4>1. Nx(z, d) <= e BY <3>1, <3>2 DEF Chain
      <4> QED BY <1>1, <2>1, <3>1, <4>1, Layout
    <3>3. CASE e < d
      <4>1. Nx(z, e) <= d BY <3>1, <3>3 DEF Chain
      <4> QED BY <1>1, <2>1, <3>1, <4>1, Layout
    <3> QED BY <3>1, <3>2, <3>3
  <2>2. CASE d \notin Fr \/ e \notin Fr BY <1>0, <1>1, <2>2
  <2> QED BY <2>1, <2>2
<1>5. d \in Nat /\ e \in Nat BY <1>1
<1>6. /\ d + 2 * W # e + 3 * W
      /\ d # e => d + 2 * W # e + 2 * W /\ d + 3 * W # e + 3 * W
  BY <1>4, <1>5, Layout
<1>7. d \in Fr => d # block_null BY <1>0, <1>1, Layout
<1> QED BY <1>1, <1>2, <1>3, <1>6, <1>7

(* g is h with a new head e of list c.                                     *)
HeadSet(h, g, c, e) ==
    /\ g \in HeapType /\ g.mem = h.mem
    /\ \A i \in FL, j \in SL :
          g.blocks[i][j] = IF i = c.fl /\ j = c.sl THEN e ELSE h.blocks[i][j]
    /\ \A i \in FL : g.sl_bitmap[i] = IF e = block_null /\ i = c.fl
                                      THEN h.sl_bitmap[i] \ {c.sl} ELSE h.sl_bitmap[i]
    /\ g.fl_bitmap = IF e = block_null /\ h.sl_bitmap[c.fl] \ {c.sl} = {}
                     THEN h.fl_bitmap \ {c.fl} ELSE h.fl_bitmap

LEMMA NewHeadFacts ==
    ASSUME NEW h \in HeapType, NEW c \in ClassIds, NEW e \in Addr
    PROVE  HeadSet(h, NewHead(h, c, e), c, e)
<1> DEFINE sl == h.sl_bitmap[c.fl] \ {c.sl}
           k == [h EXCEPT !.blocks = [h.blocks EXCEPT ![c.fl] = [h.blocks[c.fl] EXCEPT ![c.sl] = e]]]
           g == NewHead(h, c, e)
<1>0. c.fl \in FL /\ c.sl \in SL BY DEF ClassIds
<1>1. [h EXCEPT !.blocks[c.fl][c.sl] = e] = k BY DEF HeapType
<1>2. k \in HeapType BY <1>0 DEF HeapType
<1>3. /\ k.mem = h.mem /\ k.sl_bitmap = h.sl_bitmap /\ k.fl_bitmap = h.fl_bitmap
      /\ k.blocks = [h.blocks EXCEPT ![c.fl] = [h.blocks[c.fl] EXCEPT ![c.sl] = e]]
  BY DEF HeapType
<1>4. \A i \in FL, j \in SL : k.blocks[i][j] = IF i = c.fl /\ j = c.sl THEN e ELSE h.blocks[i][j]
  BY <1>0, <1>3 DEF HeapType
<1> HIDE DEF k
<1>5. CASE e # block_null
  <2>1. g = k BY <1>1, <1>5 DEF NewHead
  <2> HIDE DEF g
  <2>2. \A i \in FL : g.sl_bitmap[i] = h.sl_bitmap[i] BY <1>3, <2>1
  <2> QED BY <1>2, <1>3, <1>4, <1>5, <2>1, <2>2 DEF g, HeadSet
<1>6. CASE e = block_null
  <2> DEFINE f == [k EXCEPT !.sl_bitmap = [k.sl_bitmap EXCEPT ![c.fl] = sl],
                            !.fl_bitmap = IF sl = {} THEN k.fl_bitmap \ {c.fl} ELSE k.fl_bitmap]
  <2>1. g = [k EXCEPT !.sl_bitmap[c.fl] = sl, !.fl_bitmap = IF sl = {} THEN @ \ {c.fl} ELSE @]
    BY <1>1, <1>6 DEF NewHead
  <2>2. g = f BY <1>2, <2>1 DEF HeapType
  <2>3. f \in HeapType BY <1>0, <1>2, <1>3 DEF HeapType
  <2>4. /\ f.mem = h.mem /\ f.blocks = k.blocks
        /\ f.sl_bitmap = [h.sl_bitmap EXCEPT ![c.fl] = sl]
        /\ f.fl_bitmap = IF sl = {} THEN h.fl_bitmap \ {c.fl} ELSE h.fl_bitmap
    BY <1>2, <1>3 DEF HeapType
  <2> HIDE DEF f, g
  <2>5. \A i \in FL : f.sl_bitmap[i] = IF i = c.fl THEN h.sl_bitmap[i] \ {c.sl} ELSE h.sl_bitmap[i]
    BY <1>0, <2>4 DEF HeapType
  <2>6. /\ \A i \in FL, j \in SL : g.blocks[i][j] = IF i = c.fl /\ j = c.sl THEN e ELSE h.blocks[i][j]
    BY <1>4, <2>2, <2>4
  <2>7. /\ \A i \in FL : g.sl_bitmap[i] = IF e = block_null /\ i = c.fl
                                          THEN h.sl_bitmap[i] \ {c.sl} ELSE h.sl_bitmap[i]
    BY <1>6, <2>2, <2>5
  <2>8. g.fl_bitmap = IF e = block_null /\ h.sl_bitmap[c.fl] \ {c.sl} = {}
                      THEN h.fl_bitmap \ {c.fl} ELSE h.fl_bitmap
    BY <1>6, <2>2, <2>4
  <2> QED BY <2>2, <2>3, <2>4, <2>6, <2>7, <2>8 DEF g, HeadSet
<1> QED BY <1>5, <1>6

LEMMA ListFacts ==
    ASSUME NEW P, NEW S, NEW z, NEW Fr, NEW F, NEW h, ListState(h, S, z, Fr, F, P), NEW b \in Fr
    PROVE  /\ Class(z, b) \in ClassIds /\ Class(z, b).fl \in FL /\ Class(z, b).sl \in SL
           /\ b \in S /\ b \notin Ends(P) /\ b # block_null /\ b \in Addr /\ b \in Nat
           /\ block_size(h, b) = z[b] /\ mapping_insert(block_size(h, b)) = Class(z, b)
<1>1. /\ PoolsOK(P) /\ Chain(S, z, P) /\ Fr \subseteq S \ Ends(P) /\ Rep(h, S, z, Fr)
  BY DEF ListState
<1>2. b \in S /\ b \notin Ends(P) BY <1>1
<1>3. z[b] \in Nat /\ z[b] < block_size_max /\ b \in Addr /\ b \in Nat BY <1>1, <1>2, BlockPlace
<1>4. Class(z, b) \in ClassIds BY <1>3, ClassExists DEF Class
<1>5. b # block_null BY <1>1, LinkPlaces
<1>6. block_size(h, b) = z[b] BY <1>1, <1>2 DEF Rep, HeadIs
<1> QED BY <1>2, <1>3, <1>4, <1>5, <1>6 DEF ClassIds, Class

(* The words a removal writes.                                             *)
LEMMA RemoveWords ==
    ASSUME NEW P, NEW S, NEW z, NEW Fr, NEW F, NEW h, ListState(h, S, z, Fr, F, P), NEW b \in F
    PROVE  LET n == NextFree(h, b)
               p == PrevFree(h, b)
               g == Put(Put(h, n + 3 * W, p), p + 2 * W, n)
           IN  /\ n \in F \cup {block_null} /\ p \in F \cup {block_null}
               /\ Wrote(h, g, LinkWords(Fr))
               /\ \A e \in F : /\ NextFree(g, e) = IF e = p THEN n ELSE NextFree(h, e)
                               /\ PrevFree(g, e) = IF e = n THEN p ELSE PrevFree(h, e)
<1> DEFINE n == NextFree(h, b)
           p == PrevFree(h, b)
           k == Put(h, n + 3 * W, p)
           g == Put(k, p + 2 * W, n)
<1>1. /\ PoolsOK(P) /\ Chain(S, z, P) /\ Fr \subseteq S \ Ends(P) /\ h \in HeapType
      /\ F \subseteq Fr /\ Lists(h, F, z)
  BY DEF ListState
<1>2. PICK rho : Linked(h, F, z, rho) BY <1>1 DEF Lists
<1>3. n \in F \cup {block_null} /\ p \in F \cup {block_null}
  BY <1>2 DEF Linked, NextOK, PrevOK
<1>4. n \in Fr \cup {block_null} /\ p \in Fr \cup {block_null} BY <1>1, <1>3
<1> HIDE DEF n, p
<1>5. /\ n \in Nat /\ n + 3 * W \in Addr /\ n + 3 * W \in LinkWords(Fr)
  BY <1>1, <1>4, LinkPlaces
<1>6. /\ p \in Nat /\ p + 2 * W \in Addr /\ p + 2 * W \in LinkWords(Fr)
  BY <1>1, <1>4, LinkPlaces
<1>7. Wrote(h, k, {n + 3 * W}) /\ k.mem[n + 3 * W] = p BY <1>1, <1>5, <1>6, PutFacts
<1>8. k \in HeapType BY <1>7, HeapTypeOfWrote
<1>9. Wrote(k, g, {p + 2 * W}) /\ g.mem[p + 2 * W] = n BY <1>5, <1>6, <1>8, PutFacts
<1> HIDE DEF k, g
<1>10. Wrote(h, g, {n + 3 * W} \cup {p + 2 * W}) BY <1>7, <1>9, WroteBoth
<1>11. Wrote(h, g, LinkWords(Fr)) BY <1>5, <1>6, <1>10, WroteMore
<1>12. ASSUME NEW e \in F
       PROVE  /\ NextFree(g, e) = IF e = p THEN n ELSE NextFree(h, e)
              /\ PrevFree(g, e) = IF e = n THEN p ELSE PrevFree(h, e)
  <2>0. e \in Fr \cup {block_null} BY <1>1
  <2>1. /\ e + 2 * W \in Addr /\ e + 3 * W \in Addr /\ e + 2 * W # n + 3 * W
        /\ e # n => e + 3 * W # n + 3 * W
    BY <1>1, <1>4, <2>0, LinkPlaces
  <2>2. e # p => e + 2 * W # p + 2 * W BY <1>1, <1>4, <2>0, LinkPlaces
  <2>3. p + 2 * W # e + 3 * W BY <1>1, <1>4, <2>0, LinkPlaces
  <2>4. p + 2 * W # n + 3 * W BY <1>1, <1>4, LinkPlaces
  <2>5. NextFree(g, e) = IF e = p THEN n ELSE NextFree(h, e)
    <3>1. CASE e = p BY <1>9, <3>1 DEF NextFree
    <3>2. CASE e # p
      <4>1. g.mem[e + 2 * W] = h.mem[e + 2 * W] BY <1>10, <2>1, <2>2, <3>2 DEF Wrote
      <4> QED BY <3>2, <4>1 DEF NextFree
    <3> QED BY <3>1, <3>2
  <2>6. PrevFree(g, e) = IF e = n THEN p ELSE PrevFree(h, e)
    <3>1. CASE e = n
      <4>1. g.mem[n + 3 * W] = k.mem[n + 3 * W] BY <1>5, <1>9, <2>4 DEF Wrote
      <4> QED BY <1>7, <3>1, <4>1 DEF PrevFree
    <3>2. CASE e # n
      <4>1. g.mem[e + 3 * W] = h.mem[e + 3 * W] BY <1>10, <2>1, <2>3, <3>2 DEF Wrote
      <4> QED BY <3>2, <4>1 DEF PrevFree
    <3> QED BY <3>1, <3>2
  <2> QED BY <2>5, <2>6
<1> QED BY <1>3, <1>11, <1>12 DEF n, p, k, g

(* remove_free_block takes b out of its list and disturbs nothing else:    *)
(* first, middle, last or only block of the list.                          *)
LEMMA Remove ==
    ASSUME NEW P, NEW S, NEW z, NEW Fr, NEW F, NEW h, ListState(h, S, z, Fr, F, P), NEW b \in F
    PROVE  LET g == remove_free_block(h, b, Class(z, b))
           IN  ListState(g, S, z, Fr, F \ {b}, P) /\ SameOn(h, g, Safe(S, z, Fr, P))
<1> DEFINE n == NextFree(h, b)
           p == PrevFree(h, b)
           k == Put(Put(h, n + 3 * W, p), p + 2 * W, n)
           c == Class(z, b)
           g == remove_free_block(h, b, c)
           G == F \ {b}
<1>1. /\ PoolsOK(P) /\ Chain(S, z, P) /\ Fr \subseteq S \ Ends(P) /\ h \in HeapType
      /\ F \subseteq Fr /\ Lists(h, F, z) /\ Rep(h, S, z, Fr)
  BY DEF ListState
<1>2. PICK rho : Linked(h, F, z, rho) BY <1>1 DEF Lists
<1>3. /\ n \in F \cup {block_null} /\ p \in F \cup {block_null}
      /\ Wrote(h, k, LinkWords(Fr))
      /\ \A e \in F : /\ NextFree(k, e) = IF e = p THEN n ELSE NextFree(h, e)
                      /\ PrevFree(k, e) = IF e = n THEN p ELSE PrevFree(h, e)
  BY RemoveWords
<1>4. c \in ClassIds /\ c.fl \in FL /\ c.sl \in SL BY <1>1, ListFacts
<1>5. \A e \in F : e # block_null BY <1>1, ListFacts
<1>6. g = IF h.blocks[c.fl][c.sl] = b THEN NewHead(k, c, n) ELSE k
  <2>1. k.blocks = h.blocks BY <1>3 DEF Wrote
  <2> QED BY DEF remove_free_block
<1>7. k \in HeapType /\ n \in Addr
  <2>1. n \in Fr \cup {block_null} BY <1>1, <1>3
  <2>2. n \in Addr BY <1>1, <2>1, LinkPlaces
  <2> QED BY <1>3, <2>2, HeapTypeOfWrote
<1>8. NextOK(h, F, z, rho, b) /\ PrevOK(h, F, z, b) BY <1>2 DEF Linked
<1>9. /\ n # block_null => n \in G /\ Class(z, n) = c /\ PrevFree(h, n) = b /\ rho[b] < rho[n]
      /\ p # block_null => /\ p \in G /\ Class(z, p) = c /\ NextFree(h, p) = b /\ rho[p] < rho[b]
                           /\ h.blocks[c.fl][c.sl] # b
      /\ p = block_null => h.blocks[c.fl][c.sl] = b
  <2>0. \A e \in F : rho[e] \in Nat BY <1>2 DEF Linked
  <2>1. ASSUME n # block_null
        PROVE  n \in G /\ Class(z, n) = c /\ PrevFree(h, n) = b /\ rho[b] < rho[n]
    <3>1. n \in F /\ Class(z, n) = c /\ PrevFree(h, n) = b /\ rho[b] < rho[n]
      BY <1>8, <2>1 DEF NextOK
    <3>2. n # b BY <2>0, <3>1
    <3> QED BY <3>1, <3>2
  <2>2. ASSUME p # block_null
        PROVE  /\ p \in G /\ Class(z, p) = c /\ NextFree(h, p) = b /\ rho[p] < rho[b]
               /\ h.blocks[c.fl][c.sl] # b
    <3>1. p \in F /\ Class(z, p) = c /\ NextFree(h, p) = b BY <1>8, <2>2 DEF PrevOK
    <3>2. NextOK(h, F, z, rho, p) BY <1>2, <3>1 DEF Linked
    <3>3. rho[p] < rho[b] BY <1>5, <3>1, <3>2 DEF NextOK
    <3>4. p # b BY <2>0, <3>1, <3>3
    <3>5. HeadOK(h, F, z, c.fl, c.sl) BY <1>1, <1>4 DEF Lists
    <3>6. h.blocks[c.fl][c.sl] # b BY <1>5, <2>2, <3>5 DEF HeadOK
    <3> QED BY <3>1, <3>3, <3>4, <3>6
  <2>3. p = block_null => h.blocks[c.fl][c.sl] = b BY <1>5, <1>8 DEF PrevOK
  <2> QED BY <2>1, <2>2, <2>3
<1> HIDE DEF n, p, k, c, g
<1>10. /\ g \in HeapType /\ g.mem = k.mem
       /\ \A i \in FL, j \in SL : g.blocks[i][j] = IF p = block_null /\ i = c.fl /\ j = c.sl
                                                   THEN n ELSE h.blocks[i][j]
       /\ \A i \in FL : g.sl_bitmap[i] = IF p = block_null /\ n = block_null /\ i = c.fl
                                         THEN h.sl_bitmap[i] \ {c.sl} ELSE h.sl_bitmap[i]
       /\ g.fl_bitmap = IF p = block_null /\ n = block_null /\ h.sl_bitmap[c.fl] \ {c.sl} = {}
                        THEN h.fl_bitmap \ {c.fl} ELSE h.fl_bitmap
  <2>1. k.blocks = h.blocks /\ k.sl_bitmap = h.sl_bitmap /\ k.fl_bitmap = h.fl_bitmap
    BY <1>3 DEF Wrote
  <2>2. CASE p = block_null
    <3>1. g = NewHead(k, c, n) BY <1>6, <1>9, <2>2
    <3>2. /\ g \in HeapType /\ g.mem = k.mem
          /\ \A i \in FL, j \in SL :
                g.blocks[i][j] = IF i = c.fl /\ j = c.sl THEN n ELSE k.blocks[i][j]
          /\ \A i \in FL : g.sl_bitmap[i] = IF n = block_null /\ i = c.fl
                                            THEN k.sl_bitmap[i] \ {c.sl} ELSE k.sl_bitmap[i]
          /\ g.fl_bitmap = IF n = block_null /\ k.sl_bitmap[c.fl] \ {c.sl} = {}
                           THEN k.fl_bitmap \ {c.fl} ELSE k.fl_bitmap
      <4>1. HeadSet(k, g, c, n) BY <1>4, <1>7, <3>1, NewHeadFacts
      <4> QED BY <4>1 DEF HeadSet
    <3> QED BY <2>1, <2>2, <3>2
  <2>3. CASE p # block_null
    <3>1. g = k BY <1>6, <1>9, <2>3
    <3> QED BY <1>7, <2>1, <2>3, <3>1
  <2> QED BY <2>2, <2>3
<1>11. \A e \in F : /\ NextFree(g, e) = IF e = p THEN n ELSE NextFree(h, e)
                    /\ PrevFree(g, e) = IF e = n THEN p ELSE PrevFree(h, e)
  BY <1>3, <1>10 DEF NextFree, PrevFree
<1>12. Changed(h, g, LinkWords(Fr)) BY <1>3, <1>10 DEF Wrote, Changed
<1>13. Rep(g, S, z, Fr) /\ SameOn(h, g, Safe(S, z, Fr, P)) BY <1>1, <1>12, LinkFrame
<1>14. ASSUME NEW i \in FL, NEW j \in SL PROVE HeadOK(g, G, z, i, j)
  <2>1. HeadOK(h, F, z, i, j) BY <1>1 DEF Lists
  <2>2. CASE i = c.fl /\ j = c.sl
    <3>0. c = [fl |-> i, sl |-> j] BY <1>4, <2>2 DEF ClassIds
    <3>1. CASE p = block_null
      <4>1. g.blocks[i][j] = n /\ h.blocks[i][j] = b BY <1>9, <1>10, <2>2, <3>1
      <4>2. j \in h.sl_bitmap[i] BY <1>5, <2>1, <4>1 DEF HeadOK
      <4>3. CASE n = block_null
        <5>1. g.sl_bitmap[i] = h.sl_bitmap[i] \ {c.sl} BY <1>10, <2>2, <3>1, <4>3
        <5> QED BY <2>2, <4>1, <4>3, <5>1 DEF HeadOK
      <4>4. CASE n # block_null
        <5>1. g.sl_bitmap[i] = h.sl_bitmap[i] BY <1>10, <4>4
        <5>2. n \in G /\ Class(z, n) = c /\ PrevFree(g, n) = block_null
          BY <1>9, <1>11, <3>1, <4>4
        <5> QED BY <3>0, <4>1, <4>2, <4>4, <5>1, <5>2 DEF HeadOK
      <4> QED BY <4>3, <4>4
    <3>2. CASE p # block_null
      <4>1. g.blocks[i][j] = h.blocks[i][j] /\ g.sl_bitmap[i] = h.sl_bitmap[i] BY <1>10, <3>2
      <4>2. h.blocks[i][j] # b BY <1>9, <2>2, <3>2
      <4>3. ASSUME h.blocks[i][j] # block_null
            PROVE  h.blocks[i][j] \in G /\ PrevFree(g, h.blocks[i][j]) = block_null
        <5>1. h.blocks[i][j] \in F /\ PrevFree(h, h.blocks[i][j]) = block_null
          BY <2>1, <4>3 DEF HeadOK
        <5>2. h.blocks[i][j] # n BY <1>5, <1>9, <4>3, <5>1
        <5> QED BY <1>11, <4>2, <5>1, <5>2
      <4> QED BY <2>1, <4>1, <4>3 DEF HeadOK
    <3> QED BY <3>1, <3>2
  <2>3. CASE ~ (i = c.fl /\ j = c.sl)
    <3>0. c # [fl |-> i, sl |-> j] BY <2>3
    <3>1. g.blocks[i][j] = h.blocks[i][j] BY <1>10, <2>3
    <3>2. j \in g.sl_bitmap[i] <=> j \in h.sl_bitmap[i] BY <1>10, <2>3
    <3>3. ASSUME h.blocks[i][j] # block_null
          PROVE  h.blocks[i][j] \in G /\ PrevFree(g, h.blocks[i][j]) = block_null
      <4>1. /\ h.blocks[i][j] \in F /\ PrevFree(h, h.blocks[i][j]) = block_null
            /\ Class(z, h.blocks[i][j]) = [fl |-> i, sl |-> j]
        BY <2>1, <3>3 DEF HeadOK
      <4>2. h.blocks[i][j] # b /\ h.blocks[i][j] # n BY <1>9, <3>0, <3>3, <4>1 DEF c
      <4> QED BY <1>11, <4>1, <4>2
    <3> QED BY <2>1, <3>1, <3>2, <3>3 DEF HeadOK
  <2> QED BY <2>2, <2>3
<1>15. ASSUME NEW i \in FL PROVE i \in g.fl_bitmap <=> g.sl_bitmap[i] # {}
  <2>1. i \in h.fl_bitmap <=> h.sl_bitmap[i] # {} BY <1>1 DEF Lists
  <2>2. CASE p = block_null /\ n = block_null /\ i = c.fl
    <3>1. g.sl_bitmap[i] = h.sl_bitmap[i] \ {c.sl} BY <1>10, <2>2
    <3>2. CASE h.sl_bitmap[c.fl] \ {c.sl} = {} BY <1>10, <2>2, <3>1, <3>2
    <3>3. CASE h.sl_bitmap[c.fl] \ {c.sl} # {}
      <4>1. g.fl_bitmap = h.fl_bitmap BY <1>10, <3>3
      <4> QED BY <2>1, <2>2, <3>1, <3>3, <4>1
    <3> QED BY <3>2, <3>3
  <2>3. CASE ~ (p = block_null /\ n = block_null /\ i = c.fl)
    <3>1. g.sl_bitmap[i] = h.sl_bitmap[i] /\ (i \in g.fl_bitmap <=> i \in h.fl_bitmap)
      BY <1>10, <2>3
    <3> QED BY <2>1, <3>1
  <2> QED BY <2>2, <2>3
<1>16. ASSUME NEW e \in G PROVE PrevOK(g, G, z, e)
  <2>1. e \in F /\ e # b /\ NextOK(h, F, z, rho, e) /\ PrevOK(h, F, z, e) BY <1>2 DEF Linked
  <2>2. Class(z, e).fl \in FL /\ Class(z, e).sl \in SL /\ Class(z, e) \in ClassIds
    BY <1>1, <2>1, ListFacts
  <2>3. CASE e = n
    <3>1. PrevFree(g, e) = p /\ Class(z, e) = c BY <1>5, <1>9, <1>11, <2>1, <2>3
    <3>2. CASE p = block_null
      <4>1. g.blocks[c.fl][c.sl] = n BY <1>4, <1>10, <3>2
      <4> QED BY <2>3, <3>1, <3>2, <4>1 DEF PrevOK
    <3>3. CASE p # block_null
      <4>1. p \in G /\ Class(z, p) = c /\ NextFree(g, p) = n BY <1>9, <1>11, <3>3
      <4> QED BY <2>3, <3>1, <4>1 DEF PrevOK
    <3> QED BY <3>2, <3>3
  <2>4. CASE e # n
    <3>1. PrevFree(g, e) = PrevFree(h, e) BY <1>11, <2>1, <2>4
    <3>2. CASE PrevFree(h, e) = block_null
      <4>1. h.blocks[Class(z, e).fl][Class(z, e).sl] = e BY <1>5, <2>1, <3>2 DEF PrevOK
      <4>2. g.blocks[Class(z, e).fl][Class(z, e).sl] = e BY <1>9, <1>10, <2>1, <2>2, <4>1
      <4> QED BY <3>1, <3>2, <4>2 DEF PrevOK
    <3>3. CASE PrevFree(h, e) # block_null
      <4> DEFINE q == PrevFree(h, e)
      <4>1. q \in F /\ Class(z, q) = Class(z, e) /\ NextFree(h, q) = e
        BY <2>1, <3>3 DEF PrevOK
      <4>2. q # b BY <2>4, <4>1 DEF n
      <4>3. q # p BY <1>5, <1>9, <2>1, <4>1
      <4>4. NextFree(g, q) = e BY <1>11, <4>1, <4>3
      <4> QED BY <3>1, <4>1, <4>2, <4>4 DEF PrevOK
    <3> QED BY <3>2, <3>3
  <2> QED BY <2>3, <2>4
<1> DEFINE ro == [e \in G |-> rho[e]]
<1>17. ASSUME NEW e \in G PROVE NextOK(g, G, z, ro, e)
  <2>1. e \in F /\ e # b /\ NextOK(h, F, z, rho, e) /\ PrevOK(h, F, z, e) BY <1>2 DEF Linked
  <2>2. \A f \in F : rho[f] \in Nat BY <1>2 DEF Linked
  <2>3. CASE e = p
    <3>1. NextFree(g, e) = n /\ Class(z, e) = c /\ rho[e] < rho[b] BY <1>5, <1>9, <1>11, <2>1, <2>3
    <3>2. CASE n = block_null BY <3>1, <3>2 DEF NextOK
    <3>3. CASE n # block_null
      <4>1. n \in G /\ Class(z, n) = c /\ rho[b] < rho[n] /\ PrevFree(g, n) = p
        BY <1>9, <1>11, <3>3
      <4>2. rho[e] < rho[n] BY <2>1, <2>2, <3>1, <4>1
      <4> QED BY <2>3, <3>1, <4>1, <4>2 DEF NextOK
    <3> QED BY <3>2, <3>3
  <2>4. CASE e # p
    <3> DEFINE m == NextFree(h, e)
    <3>1. NextFree(g, e) = m BY <1>11, <2>1, <2>4
    <3>2. CASE m = block_null BY <3>1, <3>2 DEF NextOK
    <3>3. CASE m # block_null
      <4>1. m \in F /\ Class(z, m) = Class(z, e) /\ PrevFree(h, m) = e /\ rho[e] < rho[m]
        BY <2>1, <3>3 DEF NextOK
      <4>2. m # b BY <2>4, <4>1 DEF p
      <4>3. m # n BY <1>5, <1>9, <2>1, <4>1
      <4>4. PrevFree(g, m) = e BY <1>11, <4>1, <4>3
      <4> QED BY <3>1, <4>1, <4>2, <4>4 DEF NextOK
    <3> QED BY <3>2, <3>3
  <2> QED BY <2>3, <2>4
<1>18. ro \in [G -> Nat] BY <1>2 DEF Linked
<1> HIDE DEF ro, G
<1>19. Linked(g, G, z, ro) BY <1>16, <1>17, <1>18 DEF Linked
<1>20. Lists(g, G, z) BY <1>14, <1>15, <1>19 DEF Lists
<1>21. G \subseteq Fr BY <1>1 DEF G
<1>22. ListState(g, S, z, Fr, G, P) BY <1>1, <1>10, <1>13, <1>20, <1>21 DEF ListState
<1> QED BY <1>13, <1>22 DEF g, c, G

(* g is h with b as the new head of list c, in front of the old one.       *)
HeadAdded(h, g, c, b) ==
    /\ g \in HeapType /\ g.mem = h.mem
    /\ \A i \in FL, j \in SL :
          g.blocks[i][j] = IF i = c.fl /\ j = c.sl THEN b ELSE h.blocks[i][j]
    /\ \A i \in FL : g.sl_bitmap[i] = IF i = c.fl THEN h.sl_bitmap[i] \cup {c.sl}
                                      ELSE h.sl_bitmap[i]
    /\ g.fl_bitmap = h.fl_bitmap \cup {c.fl}

WithHead(h, c, b) == [h EXCEPT !.blocks[c.fl][c.sl] = b,
                               !.fl_bitmap = @ \cup {c.fl},
                               !.sl_bitmap[c.fl] = @ \cup {c.sl}]

LEMMA InsertHeads ==
    ASSUME NEW h \in HeapType, NEW c \in ClassIds, NEW b \in Addr
    PROVE  HeadAdded(h, WithHead(h, c, b), c, b)
<1> DEFINE g == WithHead(h, c, b)
           k == [h EXCEPT !.blocks = [h.blocks EXCEPT ![c.fl] = [h.blocks[c.fl] EXCEPT ![c.sl] = b]],
                          !.fl_bitmap = h.fl_bitmap \cup {c.fl},
                          !.sl_bitmap = [h.sl_bitmap EXCEPT ![c.fl] = h.sl_bitmap[c.fl] \cup {c.sl}]]
<1>0. c.fl \in FL /\ c.sl \in SL BY DEF ClassIds
<1>1. g = k BY DEF HeapType, WithHead
<1>2. k \in HeapType BY <1>0 DEF HeapType
<1>3. /\ k.mem = h.mem /\ k.fl_bitmap = h.fl_bitmap \cup {c.fl}
      /\ k.sl_bitmap = [h.sl_bitmap EXCEPT ![c.fl] = h.sl_bitmap[c.fl] \cup {c.sl}]
      /\ k.blocks = [h.blocks EXCEPT ![c.fl] = [h.blocks[c.fl] EXCEPT ![c.sl] = b]]
  BY DEF HeapType
<1> HIDE DEF k, g
<1>4. \A i \in FL, j \in SL : k.blocks[i][j] = IF i = c.fl /\ j = c.sl THEN b ELSE h.blocks[i][j]
  BY <1>0, <1>3 DEF HeapType
<1>5. \A i \in FL : k.sl_bitmap[i] = IF i = c.fl THEN h.sl_bitmap[i] \cup {c.sl}
                                     ELSE h.sl_bitmap[i]
  BY <1>0, <1>3 DEF HeapType
<1>6. /\ g \in HeapType /\ g.mem = h.mem
      /\ \A i \in FL, j \in SL :
            g.blocks[i][j] = IF i = c.fl /\ j = c.sl THEN b ELSE h.blocks[i][j]
      /\ \A i \in FL : g.sl_bitmap[i] = IF i = c.fl THEN h.sl_bitmap[i] \cup {c.sl}
                                        ELSE h.sl_bitmap[i]
      /\ g.fl_bitmap = h.fl_bitmap \cup {c.fl}
  BY <1>1, <1>2, <1>3, <1>4, <1>5
<1> QED BY <1>6 DEF g, HeadAdded

(* insert_free_block puts b in front of its list.                          *)
LEMMA Insert ==
    ASSUME NEW P, NEW S, NEW z, NEW Fr, NEW F, NEW h, ListState(h, S, z, Fr, F, P),
           NEW b \in Fr, b \notin F
    PROVE  LET g == insert_free_block(h, b, Class(z, b))
           IN  /\ ListState(g, S, z, Fr, F \cup {b}, P) /\ SameOn(h, g, Safe(S, z, Fr, P))
               /\ Changed(h, g, LinkWords(Fr))
<1> DEFINE c == Class(z, b)
           n == h.blocks[c.fl][c.sl]
           k1 == Put(h, b + 2 * W, n)
           k2 == Put(k1, b + 3 * W, block_null)
           k == Put(k2, n + 3 * W, b)
           g == insert_free_block(h, b, c)
           G == F \cup {b}
<1>1. /\ PoolsOK(P) /\ Chain(S, z, P) /\ Fr \subseteq S \ Ends(P) /\ h \in HeapType
      /\ F \subseteq Fr /\ Lists(h, F, z) /\ Rep(h, S, z, Fr)
  BY DEF ListState
<1>2. PICK rho : Linked(h, F, z, rho) BY <1>1 DEF Lists
<1>4. c \in ClassIds /\ c.fl \in FL /\ c.sl \in SL BY <1>1, ListFacts
<1>5. \A e \in G : e # block_null BY <1>1, ListFacts
<1>6. HeadOK(h, F, z, c.fl, c.sl) BY <1>1, <1>4 DEF Lists
<1>7. n \in F \cup {block_null} BY <1>6 DEF HeadOK
<1>8. n \in Fr \cup {block_null} /\ b \in Fr \cup {block_null} /\ b # n BY <1>1, <1>5, <1>7
<1>9. g = WithHead(k, c, b) BY DEF insert_free_block, SetLinks, WithHead
<1> HIDE DEF n, c
<1>10. /\ n \in Nat /\ n \in Addr /\ n + 3 * W \in Addr /\ n + 3 * W \in LinkWords(Fr)
       /\ n + 2 * W # b + 3 * W
  BY <1>1, <1>8, LinkPlaces
<1>11. /\ b \in Nat /\ b \in Addr /\ b + 2 * W \in Addr /\ b + 3 * W \in Addr
       /\ b + 2 * W \in LinkWords(Fr) /\ b + 3 * W \in LinkWords(Fr)
       /\ b + 2 * W # n + 3 * W /\ b + 3 * W # n + 3 * W
  BY <1>1, <1>8, LinkPlaces
<1>11a. b + 2 * W # b + 3 * W BY <1>1, <1>8, LinkPlaces
<1>11b. block_null \in Nat BY <1>1, LinkPlaces
<1>12. Wrote(h, k1, {b + 2 * W}) /\ k1.mem[b + 2 * W] = n BY <1>1, <1>10, <1>11, PutFacts, Zenon
<1>13. k1 \in HeapType BY <1>12, HeapTypeOfWrote
<1>14. Wrote(k1, k2, {b + 3 * W}) /\ k2.mem[b + 3 * W] = block_null
  BY <1>11, <1>11b, <1>13, PutFacts, Zenon
<1>15. k2 \in HeapType BY <1>14, HeapTypeOfWrote
<1>16. Wrote(k2, k, {n + 3 * W}) /\ k.mem[n + 3 * W] = b BY <1>10, <1>11, <1>15, PutFacts, Zenon
<1>17. k \in HeapType BY <1>16, HeapTypeOfWrote
<1> HIDE DEF k1, k2, k
<1>18. Wrote(h, k2, {b + 2 * W} \cup {b + 3 * W}) BY <1>12, <1>14, WroteBoth
<1>19. Wrote(h, k, ({b + 2 * W} \cup {b + 3 * W}) \cup {n + 3 * W}) BY <1>16, <1>18, WroteBoth
<1>20. Wrote(h, k, LinkWords(Fr)) BY <1>10, <1>11, <1>19, WroteMore
<1>21. /\ g \in HeapType /\ g.mem = k.mem
       /\ \A i \in FL, j \in SL :
             g.blocks[i][j] = IF i = c.fl /\ j = c.sl THEN b ELSE h.blocks[i][j]
       /\ \A i \in FL : g.sl_bitmap[i] = IF i = c.fl THEN h.sl_bitmap[i] \cup {c.sl}
                                         ELSE h.sl_bitmap[i]
       /\ g.fl_bitmap = h.fl_bitmap \cup {c.fl}
  <2>1. k.blocks = h.blocks /\ k.sl_bitmap = h.sl_bitmap /\ k.fl_bitmap = h.fl_bitmap
    BY <1>20 DEF Wrote
  <2>1a. HeadAdded(k, WithHead(k, c, b), c, b) BY <1>4, <1>11, <1>17, InsertHeads
  <2>2. /\ g \in HeapType /\ g.mem = k.mem
        /\ \A i \in FL, j \in SL :
              g.blocks[i][j] = IF i = c.fl /\ j = c.sl THEN b ELSE k.blocks[i][j]
        /\ \A i \in FL : g.sl_bitmap[i] = IF i = c.fl THEN k.sl_bitmap[i] \cup {c.sl}
                                          ELSE k.sl_bitmap[i]
        /\ g.fl_bitmap = k.fl_bitmap \cup {c.fl}
    BY <1>9, <2>1a DEF HeadAdded
  <2> QED BY <2>1, <2>2
<1> HIDE DEF g
<1>22. NextFree(g, b) = n /\ PrevFree(g, b) = block_null
  <2>1. k2.mem[b + 2 * W] = k1.mem[b + 2 * W] BY <1>11, <1>11a, <1>14 DEF Wrote
  <2>2. k.mem[b + 2 * W] = k2.mem[b + 2 * W] /\ k.mem[b + 3 * W] = k2.mem[b + 3 * W]
    BY <1>11, <1>16 DEF Wrote
  <2> QED BY <1>12, <1>14, <1>21, <2>1, <2>2 DEF NextFree, PrevFree
<1>23. ASSUME NEW e \in F
       PROVE  /\ NextFree(g, e) = NextFree(h, e)
              /\ PrevFree(g, e) = IF e = n THEN b ELSE PrevFree(h, e)
  <2>0. e \in Fr \cup {block_null} /\ e # b BY <1>1
  <2>1. /\ e + 2 * W \in Addr /\ e + 3 * W \in Addr
        /\ e + 2 * W # n + 3 * W
        /\ e # n => e + 3 * W # n + 3 * W
    BY <1>1, <1>8, <2>0, LinkPlaces
  <2>2. e + 2 * W # b + 2 * W /\ e + 2 * W # b + 3 * W /\ e + 3 * W # b + 3 * W
    BY <1>1, <1>8, <2>0, LinkPlaces
  <2>3. b + 2 * W # e + 3 * W BY <1>1, <1>8, <2>0, LinkPlaces
  <2>4. k.mem[e + 2 * W] = h.mem[e + 2 * W] BY <1>19, <2>1, <2>2 DEF Wrote
  <2>5. CASE e = n BY <1>16, <1>21, <2>4, <2>5 DEF NextFree, PrevFree
  <2>6. CASE e # n
    <3>1. k.mem[e + 3 * W] = h.mem[e + 3 * W] BY <1>19, <2>1, <2>2, <2>3, <2>6 DEF Wrote
    <3> QED BY <1>21, <2>4, <2>6, <3>1 DEF NextFree, PrevFree
  <2> QED BY <2>5, <2>6
<1>24. Changed(h, g, LinkWords(Fr)) BY <1>20, <1>21 DEF Wrote, Changed
<1>25. Rep(g, S, z, Fr) /\ SameOn(h, g, Safe(S, z, Fr, P)) BY <1>1, <1>24, LinkFrame
<1>26. n # block_null => n \in F /\ Class(z, n) = c /\ PrevFree(h, n) = block_null
  <2>1. c = [fl |-> c.fl, sl |-> c.sl] BY <1>4 DEF ClassIds
  <2>2. n = block_null \/ /\ n \in F /\ Class(z, n) = [fl |-> c.fl, sl |-> c.sl]
                          /\ PrevFree(h, n) = block_null
    BY <1>6 DEF HeadOK, n
  <2> QED BY <2>1, <2>2
<1>27. ASSUME NEW i \in FL, NEW j \in SL PROVE HeadOK(g, G, z, i, j)
  <2>1. HeadOK(h, F, z, i, j) BY <1>1 DEF Lists
  <2>2. CASE i = c.fl /\ j = c.sl
    <3>1. c = [fl |-> i, sl |-> j] BY <1>4, <2>2 DEF ClassIds
    <3>2. g.blocks[i][j] = b /\ j \in g.sl_bitmap[i] BY <1>21, <2>2
    <3> QED BY <1>5, <1>22, <3>1, <3>2 DEF HeadOK, c
  <2>3. CASE ~ (i = c.fl /\ j = c.sl)
    <3>0. c # [fl |-> i, sl |-> j] BY <2>3
    <3>1. g.blocks[i][j] = h.blocks[i][j] BY <1>21, <2>3
    <3>2. j \in g.sl_bitmap[i] <=> j \in h.sl_bitmap[i]
      <4>1. CASE i = c.fl
        <5>1. j # c.sl /\ g.sl_bitmap[i] = h.sl_bitmap[i] \cup {c.sl} BY <1>21, <2>3, <4>1
        <5> QED BY <5>1
      <4>2. CASE i # c.fl
        <5>1. g.sl_bitmap[i] = h.sl_bitmap[i] BY <1>21, <4>2
        <5> QED BY <5>1
      <4> QED BY <4>1, <4>2
    <3>3. ASSUME h.blocks[i][j] # block_null
          PROVE  h.blocks[i][j] \in G /\ PrevFree(g, h.blocks[i][j]) = block_null
      <4>1. /\ h.blocks[i][j] \in F /\ PrevFree(h, h.blocks[i][j]) = block_null
            /\ Class(z, h.blocks[i][j]) = [fl |-> i, sl |-> j]
        BY <2>1, <3>3 DEF HeadOK
      <4>2. h.blocks[i][j] # n BY <1>26, <3>0, <3>3, <4>1
      <4> QED BY <1>23, <4>1, <4>2
    <3> QED BY <2>1, <3>1, <3>2, <3>3 DEF HeadOK
  <2> QED BY <2>2, <2>3
<1>28. ASSUME NEW i \in FL PROVE i \in g.fl_bitmap <=> g.sl_bitmap[i] # {}
  <2>1. i \in h.fl_bitmap <=> h.sl_bitmap[i] # {} BY <1>1 DEF Lists
  <2>2. CASE i = c.fl BY <1>21, <2>2
  <2>3. CASE i # c.fl BY <1>21, <2>1, <2>3
  <2> QED BY <2>2, <2>3
<1>29. ASSUME NEW e \in G PROVE PrevOK(g, G, z, e)
  <2>1. CASE e = b
    <3>1. g.blocks[c.fl][c.sl] = b BY <1>4, <1>21
    <3> QED BY <1>22, <2>1, <3>1 DEF PrevOK, c
  <2>2. CASE e \in F
    <3>0. PrevOK(h, F, z, e) /\ e # b BY <1>2, <2>2 DEF Linked
    <3>1. Class(z, e).fl \in FL /\ Class(z, e).sl \in SL /\ Class(z, e) \in ClassIds
      BY <1>1, <2>2, ListFacts
    <3>2. CASE e = n
      <4>1. PrevFree(g, e) = b /\ Class(z, e) = c BY <1>5, <1>23, <1>26, <2>2, <3>2
      <4> QED BY <1>22, <3>2, <4>1 DEF PrevOK, c
    <3>3. CASE e # n
      <4>1. PrevFree(g, e) = PrevFree(h, e) BY <1>23, <2>2, <3>3
      <4>2. CASE PrevFree(h, e) = block_null
        <5>1. h.blocks[Class(z, e).fl][Class(z, e).sl] = e BY <1>5, <2>2, <3>0, <4>2 DEF PrevOK
        <5>2. ~ (Class(z, e).fl = c.fl /\ Class(z, e).sl = c.sl) BY <3>3, <5>1 DEF n
        <5>3. g.blocks[Class(z, e).fl][Class(z, e).sl] = e BY <1>21, <3>1, <5>1, <5>2
        <5> QED BY <4>1, <4>2, <5>3 DEF PrevOK
      <4>3. CASE PrevFree(h, e) # block_null
        <5> DEFINE q == PrevFree(h, e)
        <5>1. q \in F /\ Class(z, q) = Class(z, e) /\ NextFree(h, q) = e
          BY <3>0, <4>3 DEF PrevOK
        <5>2. NextFree(g, q) = e BY <1>23, <5>1
        <5> QED BY <4>1, <5>1, <5>2 DEF PrevOK
      <4> QED BY <4>2, <4>3
    <3> QED BY <3>2, <3>3
  <2> QED BY <2>1, <2>2
<1> DEFINE ro == [e \in G |-> IF e = b THEN 0 ELSE rho[e] + 1]
<1>30. ro \in [G -> Nat]
  <2>1. \A e \in F : rho[e] + 1 \in Nat BY <1>2 DEF Linked
  <2> QED BY <2>1
<1>31. ASSUME NEW e \in G PROVE NextOK(g, G, z, ro, e)
  <2>0. \A f \in F : rho[f] \in Nat /\ ro[f] = rho[f] + 1 /\ 0 < ro[f] BY <1>2 DEF Linked
  <2>1. CASE e = b
    <3>1. CASE n = block_null BY <1>22, <2>1, <3>1 DEF NextOK
    <3>2. CASE n # block_null
      <4>1. n \in F /\ Class(z, n) = c /\ PrevFree(g, n) = b BY <1>23, <1>26, <3>2
      <4>2. ro[b] = 0 /\ ro[b] < ro[n] BY <2>0, <4>1
      <4> QED BY <1>22, <2>1, <4>1, <4>2 DEF NextOK, c
    <3> QED BY <3>1, <3>2
  <2>2. CASE e \in F
    <3> DEFINE m == NextFree(h, e)
    <3>0. NextOK(h, F, z, rho, e) BY <1>2, <2>2 DEF Linked
    <3>1. NextFree(g, e) = m BY <1>23, <2>2
    <3>2. CASE m = block_null BY <3>1, <3>2 DEF NextOK
    <3>3. CASE m # block_null
      <4>1. m \in F /\ Class(z, m) = Class(z, e) /\ PrevFree(h, m) = e /\ rho[e] < rho[m]
        BY <3>0, <3>3 DEF NextOK
      <4>2. m # n BY <1>5, <1>26, <2>2, <4>1
      <4>3. PrevFree(g, m) = e BY <1>23, <4>1, <4>2
      <4>4. ro[e] < ro[m]
        <5>1. ro[e] = rho[e] + 1 /\ ro[m] = rho[m] + 1 /\ rho[e] \in Nat /\ rho[m] \in Nat
          BY <2>0, <2>2, <4>1
        <5> QED BY <4>1, <5>1
      <4> QED BY <3>1, <4>1, <4>3, <4>4 DEF NextOK
    <3> QED BY <3>2, <3>3
  <2> QED BY <2>1, <2>2
<1> HIDE DEF ro, G
<1>32. Linked(g, G, z, ro) BY <1>29, <1>30, <1>31 DEF Linked
<1>33. Lists(g, G, z) BY <1>27, <1>28, <1>32 DEF Lists
<1>34. G \subseteq Fr BY <1>1 DEF G
<1>35. ListState(g, S, z, Fr, G, P) BY <1>1, <1>21, <1>25, <1>33, <1>34 DEF ListState
<1> QED BY <1>24, <1>25, <1>35 DEF g, c, G

Closed(step, T) == \A b \in T \cap DOMAIN step : step[b] \subseteq T

(* A walk that stays in a set of MaxBlocks elements ends before its last   *)
(* step: what it has reached is closed.                                    *)
LEMMA WalkEnds ==
    ASSUME NEW first, NEW step, NEW X, IsFiniteSet(X), Cardinality(X) <= MaxBlocks,
           first \in X, Closed(step, X)
    PROVE  /\ first \in Reached(first, step) /\ Reached(first, step) \subseteq X
           /\ Closed(step, Reached(first, step))
<1>0. PICK r : Walk(r, first, step) BY ReachedRuns
<1>1. /\ r[0] = {first}
      /\ \A n \in 1 .. MaxBlocks : r[n] = Grow(step, r[n - 1])
      /\ Reached(first, step) = r[MaxBlocks]
  BY <1>0 DEF Walk
<1>m. MaxBlocks \in Nat BY MaxBlocksType
<1> DEFINE Good(n) == r[n] \subseteq X /\ (n + 1 <= Cardinality(r[n]) \/ Closed(step, r[n]))
           T == {n \in Nat : n <= MaxBlocks => Good(n)}
<1>2. 0 \in T
  <2>1. Cardinality({first}) = 1 BY FS_Singleton
  <2>2. 0 + 1 <= Cardinality(r[0]) BY <1>1, <2>1
  <2> QED BY <1>1, <2>2
<1>3. ASSUME NEW n \in Nat, n \in T PROVE n + 1 \in T
  <2>1. n + 1 \in Nat BY SMT
  <2> SUFFICES ASSUME n + 1 <= MaxBlocks PROVE Good(n + 1) BY <2>1
  <2>2. n <= MaxBlocks /\ n + 1 \in 1 .. MaxBlocks /\ (n + 1) - 1 = n BY <1>m
  <2>3. r[n + 1] = Grow(step, r[n]) BY <1>1, <2>2
  <2>4. Good(n) BY <1>3, <2>2
  <2> DEFINE A == r[n]
             B == r[n + 1]
  <2>5. A \subseteq X BY <2>4
  <2>6. B \subseteq X
    <3> SUFFICES ASSUME NEW x \in B, x \notin A PROVE x \in X BY <2>5
    <3>1. PICK b \in A \cap DOMAIN step : x \in step[b] BY <2>3 DEF Grow
    <3>2. b \in X \cap DOMAIN step BY <2>5
    <3> QED BY <3>1, <3>2 DEF Closed
  <2>7. CASE Closed(step, A)
    <3>1. B = A
      <4>1. \A b \in A \cap DOMAIN step : step[b] \subseteq A BY <2>7 DEF Closed
      <4>2. UNION {step[b] : b \in A \cap DOMAIN step} \subseteq A BY <4>1
      <4> QED BY <2>3, <4>2 DEF Grow
    <3> QED BY <2>6, <2>7, <3>1
  <2>8. CASE ~ Closed(step, A)
    <3>1. n + 1 <= Cardinality(A) BY <2>4, <2>8
    <3>2. PICK b \in A \cap DOMAIN step : ~ (step[b] \subseteq A) BY <2>8 DEF Closed
    <3>3. A \subseteq B /\ A # B
      <4>1. step[b] \subseteq B BY <2>3, <3>2 DEF Grow
      <4>2. A \subseteq B BY <2>3 DEF Grow
      <4> QED BY <3>2, <4>1, <4>2
    <3>4. IsFiniteSet(B) BY <2>6, FS_Subset
    <3>5. IsFiniteSet(A) /\ Cardinality(A) <= Cardinality(B) /\ Cardinality(A) # Cardinality(B)
      BY <3>3, <3>4, FS_Subset
    <3>6. Cardinality(A) \in Nat /\ Cardinality(B) \in Nat BY <3>4, <3>5, FS_CardinalityType
    <3> HIDE DEF A, B
    <3>7. (n + 1) + 1 <= Cardinality(B) BY <3>1, <3>5, <3>6
    <3> QED BY <2>6, <3>7 DEF B
  <2> QED BY <2>7, <2>8
<1> HIDE DEF T
<1>4. Nat \subseteq T BY <1>2, <1>3, SetInduction
<1>5. Good(MaxBlocks)
  <2>1. MaxBlocks \in T /\ MaxBlocks <= MaxBlocks BY <1>m, <1>4
  <2> QED BY <2>1 DEF T
<1> DEFINE R == r[MaxBlocks]
<1>6. R \subseteq X BY <1>5
<1>7. Cardinality(R) <= Cardinality(X) /\ Cardinality(R) \in Nat /\ Cardinality(X) \in Nat
  BY <1>6, FS_Subset, FS_CardinalityType
<1>8. ~ (MaxBlocks + 1 <= Cardinality(R))
  <2> HIDE DEF R
  <2> QED BY <1>m, <1>7
<1>9. Closed(step, R) BY <1>5, <1>8
<1> QED BY <1>1, <1>6, <1>9, ReachedFrom

(* The place of a block among all the places a header may take.            *)
Place(b) ==
    IF b < ARENA + Bytes THEN (b - ARENA) \div (4 * W)
    ELSE Bytes \div (4 * W) + 1 + (b - (Extra.mem - W)) \div (4 * W)

LEMMA DivStep ==
    ASSUME NEW x \in Nat, NEW y \in Nat, NEW k \in {16, 32}
    PROVE  /\ x \div k \in Nat /\ (x + k <= y => x \div k < y \div k)
           /\ (x <= y => x \div k <= y \div k)
<1>1. CASE k = 16 BY <1>1
<1>2. CASE k = 32 BY <1>2
<1> QED BY <1>1, <1>2

LEMMA FourWords == 4 * W \in {16, 32} /\ block_header_size = 4 * W
<1>1. W = 4 \/ W = 8 BY Layout
<1> QED BY <1>1, Layout

(* Two blocks have different places, all below MaxBlocks.                  *)
LEMMA PlaceMono ==
    ASSUME NEW b \in Addr, NEW c \in Addr,
           b + 4 * W <= c \/ (b < ARENA + Bytes /\ Extra.mem - W <= c)
    PROVE  Place(b) < Place(c)
<1> DEFINE k == 4 * W
           e == Extra.mem - W
<1>1. k \in {16, 32} BY FourWords
<1>2. /\ b \in Nat /\ c \in Nat /\ ARENA \in Nat /\ Bytes \in Nat /\ e \in Nat
      /\ ARENA + Bytes <= e /\ W \in Nat
      /\ ARENA <= b /\ ARENA <= c
      /\ (b < ARENA + Bytes \/ e <= b) /\ (c < ARENA + Bytes \/ e <= c)
  BY AddrIs, Places, Layout DEF Aligned
<1> HIDE DEF k, e
<1>3. b + k <= c \/ (b < ARENA + Bytes /\ e <= c) BY DEF k, e
<1>p. \A x : Place(x) = IF x < ARENA + Bytes THEN (x - ARENA) \div k
                        ELSE Bytes \div k + 1 + (x - e) \div k
  BY DEF Place, k, e
<1>4. CASE c < ARENA + Bytes
  <2>1. b < ARENA + Bytes /\ b - ARENA \in Nat /\ c - ARENA \in Nat /\ (b - ARENA) + k <= c - ARENA
    BY <1>1, <1>2, <1>3, <1>4
  <2>2. (b - ARENA) \div k < (c - ARENA) \div k BY <1>1, <2>1, DivStep
  <2> QED BY <1>4, <1>p, <2>1, <2>2
<1>5. CASE ~ (c < ARENA + Bytes) /\ b < ARENA + Bytes
  <2>1. b - ARENA \in Nat /\ b - ARENA <= Bytes /\ c - e \in Nat BY <1>2, <1>5
  <2>2. /\ (b - ARENA) \div k <= Bytes \div k /\ (b - ARENA) \div k \in Nat
        /\ Bytes \div k \in Nat /\ (c - e) \div k \in Nat
    BY <1>1, <1>2, <2>1, DivStep
  <2>3. (b - ARENA) \div k < Bytes \div k + 1 + (c - e) \div k BY <2>2
  <2> QED BY <1>5, <1>p, <2>3
<1>6. CASE ~ (b < ARENA + Bytes)
  <2>1. ~ (c < ARENA + Bytes) /\ b - e \in Nat /\ c - e \in Nat /\ (b - e) + k <= c - e
    BY <1>1, <1>2, <1>3, <1>6
  <2>2. (b - e) \div k < (c - e) \div k /\ (b - e) \div k \in Nat /\ (c - e) \div k \in Nat
    BY <1>1, <2>1, DivStep
  <2>3. Bytes \div k \in Nat BY <1>1, <1>2, DivStep
  <2>4. Bytes \div k + 1 + (b - e) \div k < Bytes \div k + 1 + (c - e) \div k BY <2>2, <2>3
  <2> QED BY <1>6, <1>p, <2>1, <2>4
<1> QED BY <1>2, <1>4, <1>5, <1>6

LEMMA PlaceBound ==
    ASSUME NEW b \in Addr, b + W < Extra.mem + Extra.bytes
    PROVE  Place(b) \in 0 .. MaxBlocks - 1
<1> DEFINE k == 4 * W
           e == Extra.mem - W
           n == Extra.bytes
<1>1. k \in {16, 32} BY FourWords
<1>2. /\ b \in Nat /\ ARENA \in Nat /\ Bytes \in Nat /\ e \in Nat /\ n \in Nat
      /\ ARENA <= b /\ W \in Nat
      /\ b < ARENA + Bytes \/ (e <= b /\ b - e <= n)
  BY AddrIs, Places, Layout DEF Aligned
<1>3. MaxBlocks = Bytes \div k + n \div k + 2 BY FourWords DEF MaxBlocks
<1>p. Place(b) = IF b < ARENA + Bytes THEN (b - ARENA) \div k
                 ELSE Bytes \div k + 1 + (b - e) \div k
  BY DEF Place
<1> HIDE DEF k, e, n
<1>4. Bytes \div k \in Nat /\ n \div k \in Nat BY <1>1, <1>2, DivStep
<1>5. CASE b < ARENA + Bytes
  <2>1. b - ARENA \in Nat /\ b - ARENA <= Bytes BY <1>2, <1>5
  <2>2. (b - ARENA) \div k <= Bytes \div k /\ (b - ARENA) \div k \in Nat BY <1>1, <1>2, <2>1, DivStep
  <2> QED BY <1>3, <1>4, <1>5, <1>p, <2>2
<1>6. CASE ~ (b < ARENA + Bytes)
  <2>1. b - e \in Nat /\ b - e <= n BY <1>2, <1>6
  <2>2. (b - e) \div k <= n \div k /\ (b - e) \div k \in Nat BY <1>1, <1>2, <2>1, DivStep
  <2> QED BY <1>3, <1>4, <1>6, <1>p, <2>2
<1> QED BY <1>5, <1>6

(* There are not more blocks than places.                                  *)
LEMMA BlocksBound ==
    ASSUME NEW P, PoolsOK(P), NEW S, NEW z, Chain(S, z, P)
    PROVE  /\ IsFiniteSet(S \cup {block_null}) /\ Cardinality(S \cup {block_null}) <= MaxBlocks
<1> DEFINE X == S \cup {block_null}
           f == [b \in X |-> Place(b)]
           Y == 0 .. MaxBlocks - 1
<1>0. /\ block_null = ARENA /\ ARENA \in Nat /\ W \in Nat /\ ARENA \in Addr /\ Extra.mem \in Nat
      /\ Extra.bytes \in Nat /\ ARENA + 7 * W <= Extra.mem
  <2>1. block_null = ARENA /\ W \in Nat \ {0} BY Layout
  <2>2. /\ Aligned(ARENA) /\ ARENA \in Nat /\ Bytes \in Nat /\ Bytes >= 7 * W /\ Extra.mem \in Nat
        /\ Extra.bytes \in Nat /\ Extra.mem >= ARENA + Bytes + W
    BY Places DEF Aligned
  <2>3. ARENA <= ARENA /\ ARENA < ARENA + Bytes /\ ARENA + 7 * W <= Extra.mem BY <2>1, <2>2
  <2> QED BY <2>1, <2>2, <2>3, AddrIs
<1>1. ASSUME NEW b \in X PROVE b \in Addr /\ b \in Nat /\ b + W < Extra.mem + Extra.bytes
  <2>1. CASE b \in S
    <3>1. b \in Addr /\ b + W \in Addr /\ b \in Nat BY <2>1, BlockPlace
    <3>2. b + W < Extra.mem + Extra.bytes
      <4>1. \/ ARENA <= b + W /\ b + W < ARENA + Bytes
            \/ Extra.mem - W <= b + W /\ b + W < Extra.mem + Extra.bytes
        BY <3>1, AddrIs
      <4>2. ARENA + Bytes <= Extra.mem /\ Bytes \in Nat BY <1>0, Places DEF Aligned
      <4> QED BY <1>0, <3>1, <4>1, <4>2
    <3> QED BY <3>1, <3>2
  <2>2. CASE b = ARENA
    <3>1. W \in Nat \ {0} BY Layout
    <3>2. ARENA + W < Extra.mem + Extra.bytes BY <1>0, <3>1
    <3> QED BY <1>0, <2>2, <3>2
  <2> QED BY <1>0, <2>1, <2>2
<1>2. ASSUME NEW b \in X, NEW c \in X, b < c
      PROVE  b + 4 * W <= c \/ (b < ARENA + Bytes /\ Extra.mem - W <= c)
  <2>1. c \in S
    <3>1. CASE b \in S
      <4>1. ARENA + 4 * W <= b BY <3>1, BlockPlace
      <4> QED BY <1>0, <1>1, <1>2, <4>1
    <3>2. CASE b = ARENA BY <1>0, <1>1, <1>2, <3>2
    <3> QED BY <1>0, <3>1, <3>2
  <2>2. CASE b = ARENA BY <2>1, <2>2, BlockPlace
  <2>3. CASE b \in S /\ b \notin Ends(P)
    <3>1. Nx(z, b) <= c BY <1>2, <2>1, <2>3 DEF Chain
    <3>2. b + 4 * W <= Nx(z, b) /\ Nx(z, b) \in Nat BY <2>3, BlockPlace
    <3> QED BY <1>0, <1>1, <3>1, <3>2
  <2>4. CASE b \in S /\ b \in Ends(P)
    <3>1. PICK pool \in P : b = Hi(pool) BY <2>4 DEF Ends
    <3>2. PICK q \in P : Lo(q) <= c /\ c <= Hi(q) BY <2>1 DEF Chain
    <3>3. pool # q
      <4>1. Hi(q) \in Nat BY <3>2, Pools DEF Aligned
      <4> QED BY <1>1, <1>2, <3>1, <3>2, <4>1
    <3>4. pool \in {tlsf_get_pool, Extra.mem} /\ q \in {tlsf_get_pool, Extra.mem}
      BY DEF PoolsOK
    <3>5. CASE pool = tlsf_get_pool /\ q = Extra.mem
      <4>1. b = tlsf_get_pool + (Bytes - tlsf_size) - 2 * W /\ Extra.mem - W <= c
        BY <3>1, <3>2, <3>5 DEF Hi, Lo, PoolBytes
      <4>2. /\ tlsf_get_pool = ARENA + 5 * W /\ tlsf_size = 5 * W /\ W \in Nat \ {0} /\ Bytes \in Nat
        BY Layout, Places DEF Aligned
      <4>3. b < ARENA + Bytes BY <1>0, <4>1, <4>2
      <4> QED BY <4>1, <4>3
    <3>6. CASE pool = Extra.mem /\ q = tlsf_get_pool
      <4>1. tlsf_get_pool < Extra.mem
        <5>1. /\ tlsf_get_pool = ARENA + 5 * W /\ W \in Nat \ {0} BY Layout
        <5> QED BY <1>0, <5>1
      <4>2. Hi(q) + W < Lo(pool) BY <3>1, <3>2, <3>6, <4>1, Pools
      <4>3. Hi(q) \in Nat /\ Lo(pool) \in Nat /\ Hi(pool) \in Nat /\ Lo(pool) + 4 * W <= Hi(pool)
        BY <3>1, <3>2, Pools DEF Aligned
      <4> QED BY <1>0, <1>1, <1>2, <3>1, <3>2, <4>2, <4>3
    <3> QED BY <3>3, <3>4, <3>5, <3>6
  <2> QED BY <1>0, <2>2, <2>3, <2>4
<1>3. \A b \in X : Place(b) \in Y BY <1>1, PlaceBound
<1>4. ASSUME NEW b \in X, NEW c \in X, b # c PROVE Place(b) # Place(c)
  <2>0. \A n \in Y : n \in Nat BY SMT
  <2>1. b \in Nat /\ c \in Nat /\ b \in Addr /\ c \in Addr
        /\ Place(b) \in Nat /\ Place(c) \in Nat BY <1>1, <1>3, <2>0
  <2>2. CASE b < c
    <3>1. Place(b) < Place(c) BY <1>2, <2>1, <2>2, PlaceMono
    <3> QED BY <2>1, <3>1
  <2>3. CASE c < b
    <3>1. Place(c) < Place(b) BY <1>2, <2>1, <2>3, PlaceMono
    <3> QED BY <2>1, <3>1
  <2> QED BY <1>4, <2>1, <2>2, <2>3
<1>5. f \in Injection(X, Y)
  <2>1. f \in [X -> Y] BY <1>3
  <2>2. \A b, c \in X : f[b] = f[c] => b = c BY <1>4
  <2> HIDE DEF f
  <2> QED BY <2>1, <2>2 DEF Injection, IsInjective
<1>6. IsFiniteSet(Y) /\ Cardinality(Y) = MaxBlocks
  <2>1. MaxBlocks \in Nat BY MaxBlocksType
  <2>2. 0 \in Int /\ MaxBlocks - 1 \in Int BY <2>1
  <2>3. /\ IsFiniteSet(Y)
        /\ Cardinality(Y) = IF 0 > MaxBlocks - 1 THEN 0 ELSE (MaxBlocks - 1) - 0 + 1
    BY <2>2, FS_Interval
  <2>4. MaxBlocks = IF 0 > MaxBlocks - 1 THEN 0 ELSE (MaxBlocks - 1) - 0 + 1 BY <2>1
  <2> QED BY <2>3, <2>4
<1> HIDE DEF X, Y, f
<1>7. IsFiniteSet(X) /\ Cardinality(X) <= Cardinality(Y) BY <1>5, <1>6, FS_Injection
<1> QED BY <1>6, <1>7 DEF X

(* The blocks of one pool.                                                 *)
InPool(S, pool) == {b \in S : Lo(pool) <= b /\ b <= Hi(pool)}

(* The blocks of a pool are followed by blocks of the same pool.           *)
LEMMA LastInPool ==
    ASSUME NEW P, PoolsOK(P), NEW S, NEW z, Chain(S, z, P), NEW pool \in P,
           NEW b \in InPool(S, pool)
    PROVE  /\ b \in Ends(P) <=> b = Hi(pool)
           /\ b \notin Ends(P) => Nx(z, b) \in InPool(S, pool)
           /\ \A q \in P : b \in InPool(S, q) => q = pool
<1>1. b \in S /\ Lo(pool) <= b /\ b <= Hi(pool) BY DEF InPool
<1>2. b \in Nat /\ W \in Nat BY <1>1, BlockPlace, Layout
<1>3. /\ Lo(pool) \in Nat /\ Hi(pool) \in Nat /\ Lo(pool) + 4 * W <= Hi(pool)
  BY Pools DEF Aligned
<1>4. ASSUME NEW q \in P, q # pool PROVE ~ (Lo(q) <= b /\ b <= Hi(q))
  <2>1. Hi(q) \in Nat /\ Lo(q) \in Nat BY Pools DEF Aligned
  <2> SUFFICES ASSUME Lo(q) <= b, b <= Hi(q) PROVE FALSE OBVIOUS
  <2>2. b <= Hi(q) + W /\ b <= Hi(pool) + W BY <1>1, <1>2, <1>3, <2>1
  <2> QED BY <1>1, <1>2, <1>4, <2>2, PoolsApart
<1>5. ASSUME b \in Ends(P) PROVE b = Hi(pool)
  <2>1. PICK q \in P : b = Hi(q) BY <1>5 DEF Ends
  <2>2. /\ Lo(q) \in Nat /\ Hi(q) \in Nat /\ Lo(q) + 4 * W <= Hi(q) BY Pools DEF Aligned
  <2>3. Lo(q) <= b /\ b <= Hi(q) BY <1>2, <2>1, <2>2
  <2> QED BY <1>4, <2>1, <2>3
<1>6. ASSUME b \notin Ends(P) PROVE Nx(z, b) \in InPool(S, pool)
  <2>1. Nx(z, b) \in S /\ b + 4 * W <= Nx(z, b) /\ Nx(z, b) \in Nat BY <1>1, <1>6, BlockPlace
  <2>2. b # Hi(pool) /\ Hi(pool) \in S BY <1>6 DEF Ends, Chain
  <2>3. b < Hi(pool) BY <1>1, <1>2, <1>3, <2>2
  <2>4. Nx(z, b) <= Hi(pool) BY <1>1, <2>2, <2>3 DEF Chain
  <2>5. Lo(pool) <= Nx(z, b) BY <1>1, <1>2, <1>3, <2>1
  <2> QED BY <2>1, <2>4, <2>5 DEF InPool
<1>7. b = Hi(pool) => b \in Ends(P) BY DEF Ends
<1> QED BY <1>4, <1>5, <1>6, <1>7 DEF InPool

(* The walk through a pool meets exactly its blocks.                       *)
LEMMA WalkIs ==
    ASSUME NEW P, PoolsOK(P), NEW S, NEW z, Chain(S, z, P), NEW Fr, NEW h \in HeapType,
           Rep(h, S, z, Fr), NEW pool \in P
    PROVE  tlsf_walk_pool(h, pool) = InPool(S, pool)
<1> DEFINE step == [b \in HeaderAddr |-> IF block_is_last(h, b) THEN {} ELSE {block_next(h, b)}]
           first == Lo(pool)
           X == InPool(S, pool)
           R == Reached(first, step)
<1>0. tlsf_walk_pool(h, pool) = R BY Layout DEF tlsf_walk_pool, Lo
<1>1. X \subseteq S BY DEF InPool
<1>2. /\ Lo(pool) \in Nat /\ Hi(pool) \in Nat /\ Lo(pool) + 4 * W <= Hi(pool) /\ W \in Nat
  BY Pools, Layout DEF Aligned
<1>3. first \in X
  <2>1. Lo(pool) \in S BY DEF Chain
  <2>2. Lo(pool) <= Lo(pool) /\ Lo(pool) <= Hi(pool) BY <1>2
  <2> QED BY <2>1, <2>2 DEF InPool
<1>4. ASSUME NEW b \in X
      PROVE  /\ b \in DOMAIN step
             /\ b \in Ends(P) => step[b] = {}
             /\ b \notin Ends(P) => step[b] = {Nx(z, b)}
  <2>1. /\ b \in S /\ b \in Addr /\ b + W \in Addr /\ z[b] \in Nat /\ (b \in Ends(P) => z[b] = 0)
        /\ (b \notin Ends(P) => 3 * W <= z[b])
    BY <1>1, BlockPlace
  <2>2. b \in HeaderAddr BY <2>1 DEF HeaderAddr, InMemory
  <2>3a. block_next(h, b) = Nx(z, b) BY <2>1, NextIs
  <2>3b. block_size(h, b) = z[b] BY <2>1 DEF Rep, HeadIs
  <2>3. block_size(h, b) = z[b] /\ block_next(h, b) = Nx(z, b) BY <2>3a, <2>3b
  <2>4. W # 0 BY Layout
  <2>5. b \notin Ends(P) => z[b] # 0 BY <1>2, <2>1, <2>4
  <2>6. block_is_last(h, b) <=> b \in Ends(P) BY <2>1, <2>3, <2>5 DEF block_is_last
  <2> QED BY <2>2, <2>3, <2>6
<1>5. Closed(step, X)
  <2> SUFFICES ASSUME NEW b \in X PROVE step[b] \subseteq X BY DEF Closed
  <2>1. b \notin Ends(P) => Nx(z, b) \in X BY LastInPool
  <2> HIDE DEF step, X
  <2> QED BY <1>4, <2>1
<1>6. IsFiniteSet(X) /\ Cardinality(X) <= MaxBlocks
  <2> DEFINE Y == S \cup {block_null}
  <2>1. IsFiniteSet(Y) /\ Cardinality(Y) <= MaxBlocks BY BlocksBound
  <2>2. X \subseteq Y BY <1>1
  <2> HIDE DEF X, Y
  <2>3. IsFiniteSet(X) /\ Cardinality(X) <= Cardinality(Y) BY <2>1, <2>2, FS_Subset
  <2>4. Cardinality(X) \in Nat /\ Cardinality(Y) \in Nat BY <2>1, <2>3, FS_CardinalityType
  <2> QED BY <2>1, <2>3, <2>4, MaxBlocksType
<1> HIDE DEF step, X, first
<1>7. first \in R /\ R \subseteq X /\ Closed(step, R) BY <1>3, <1>5, <1>6, WalkEnds
<1> HIDE DEF R
<1>8. X \subseteq R
  <2> DEFINE M == X \ R
             m == Min(M)
  <2> SUFFICES ASSUME M # {} PROVE FALSE OBVIOUS
  <2>1. X \subseteq Nat BY <1>1, BlockPlace
  <2>2. M \subseteq Nat BY <2>1
  <2>3. PICK b \in M : \A c \in M : b <= c BY <2>2, LeastOfNat
  <2>4. b \in X /\ b \in S /\ b \in Nat BY <1>1, <2>2
  <2>5. b \notin Starts(P)
    <3> SUFFICES ASSUME b \in Starts(P) PROVE FALSE OBVIOUS
    <3>1. PICK q \in P : b = Lo(q) BY DEF Starts
    <3>2. Lo(q) \in Nat /\ Hi(q) \in Nat /\ Lo(q) + 4 * W <= Hi(q) BY Pools DEF Aligned
    <3>3. Lo(q) <= b /\ b <= Hi(q) BY <1>2, <3>1, <3>2
    <3>4. q = pool
      <4>1. b \in InPool(S, q) BY <2>4, <3>3 DEF InPool
      <4>2. b \in InPool(S, pool) BY <2>4 DEF X
      <4> QED BY <4>1, <4>2, LastInPool
    <3> QED BY <1>7, <3>1, <3>4 DEF first
  <2>6. PICK a \in S \ Ends(P) : Nx(z, a) = b BY <2>4, <2>5 DEF Chain
  <2>7. PICK q \in P : Lo(q) <= a /\ a <= Hi(q) BY <2>6 DEF Chain
  <2>8. a \in InPool(S, q) /\ b \in InPool(S, q)
    <3>1. a \in InPool(S, q) BY <2>6, <2>7 DEF InPool
    <3> QED BY <2>6, <3>1, LastInPool
  <2>9. q = pool
    <3>1. b \in InPool(S, pool) BY <2>4 DEF X
    <3> QED BY <2>8, <3>1, LastInPool
  <2>10. a \in X BY <2>8, <2>9 DEF X
  <2>11. a \in R
    <3>1. a \in Nat /\ a + 4 * W <= b BY <2>6, BlockPlace
    <3>2. W # 0 BY Layout
    <3>3. ~ (b <= a) BY <1>2, <2>4, <3>1, <3>2
    <3> QED BY <2>3, <2>10, <3>3
  <2>12. step[a] \subseteq R BY <1>4, <1>7, <2>10, <2>11 DEF Closed
  <2> QED BY <1>4, <2>3, <2>6, <2>10, <2>12
<1> QED BY <1>0, <1>7, <1>8 DEF X, R

(* The blocks in use or free: all but the ends of the pools.               *)
LEMMA PhysicalIs ==
    ASSUME NEW P, PoolsOK(P), NEW S, NEW z, Chain(S, z, P), NEW Fr, NEW h \in HeapType,
           Rep(h, S, z, Fr)
    PROVE  Physical(h, P) = S \ Ends(P)
<1>1. \A pool \in P : tlsf_walk_pool(h, pool) = InPool(S, pool) BY WalkIs
<1>2. ASSUME NEW b \in S PROVE \E pool \in P : b \in InPool(S, pool)
  <2>1. PICK pool \in P : Lo(pool) <= b /\ b <= Hi(pool) BY DEF Chain
  <2> QED BY <2>1 DEF InPool
<1>3. UNION {tlsf_walk_pool(h, pool) : pool \in P} = S
  <2>1. \A pool \in P : InPool(S, pool) \subseteq S BY DEF InPool
  <2> QED BY <1>1, <1>2, <2>1
<1>4. ASSUME NEW b \in S PROVE InMemory(b) /\ (block_is_last(h, b) <=> b \in Ends(P))
  <2>1. /\ b \in Addr /\ b + W \in Addr /\ z[b] \in Nat /\ (b \in Ends(P) => z[b] = 0)
        /\ (b \notin Ends(P) => 3 * W <= z[b])
    BY BlockPlace
  <2>2. W \in Nat \ {0} BY Layout
  <2>3. b \notin Ends(P) => z[b] # 0 BY <2>1, <2>2
  <2>4. block_size(h, b) = z[b] BY DEF Rep, HeadIs
  <2> QED BY <2>1, <2>3, <2>4 DEF InMemory, block_is_last
<1> QED BY <1>3, <1>4 DEF Physical

(* A free list holds exactly the blocks of its class.                      *)
LEMMA ListIs ==
    ASSUME NEW P, NEW S, NEW z, NEW Fr, NEW F, NEW h, ListState(h, S, z, Fr, F, P),
           NEW i \in FL, NEW j \in SL
    PROVE  FreeList(h, i, j) = {b \in F : Class(z, b) = [fl |-> i, sl |-> j]}
<1> DEFINE step == [b \in ListedAddr |-> {NextFree(h, b)}]
           head == h.blocks[i][j]
           c == [fl |-> i, sl |-> j]
           C == {b \in F : Class(z, b) = c}
           X == C \cup {block_null}
           R == Reached(head, step)
<1>1. /\ PoolsOK(P) /\ Chain(S, z, P) /\ Fr \subseteq S \ Ends(P) /\ h \in HeapType
      /\ Rep(h, S, z, Fr) /\ F \subseteq Fr /\ Lists(h, F, z)
  BY DEF ListState
<1>2. HeadOK(h, F, z, i, j) BY <1>1 DEF Lists
<1>3. PICK rho : Linked(h, F, z, rho) BY <1>1 DEF Lists
<1>4. FreeList(h, i, j) = IF head = block_null THEN {} ELSE R \ {block_null} BY DEF FreeList
<1>5. ASSUME NEW b \in F PROVE b \in DOMAIN step /\ step[b] = {NextFree(h, b)} /\ b # block_null
  <2>1. b \in S /\ b \notin Ends(P) /\ b \in Fr BY <1>1
  <2>2. b \in Nat /\ b \in Addr /\ b + W \in Addr /\ b + 2 * W \in Addr BY <1>1, <2>1, BlockPlace
  <2>3. b # block_null BY <2>1, ListFacts
  <2>4. (b + W) + W = b + 2 * W BY <2>2, Layout
  <2>5. b \in ListedAddr BY <2>2, <2>3, <2>4 DEF ListedAddr, InMemory
  <2> QED BY <2>3, <2>5
<1>5a. block_null \notin DOMAIN step BY DEF ListedAddr
<1> HIDE DEF step, head, R, c
<1>6. CASE head = block_null
  <2> SUFFICES ASSUME NEW d \in C PROVE FALSE BY <1>4, <1>6 DEF c
  <2> DEFINE V == {rho[b] : b \in C}
  <2>1. V \subseteq Nat /\ V # {} BY <1>3 DEF Linked
  <2>2. PICK v \in V : \A x \in V : v <= x BY <2>1, LeastOfNat
  <2>3. PICK b \in C : v = rho[b] BY <2>2
  <2>4. PrevOK(h, F, z, b) BY <1>3 DEF Linked
  <2>5. Class(z, b).fl = i /\ Class(z, b).sl = j BY DEF c
  <2>6. PrevFree(h, b) \in F /\ Class(z, PrevFree(h, b)) = Class(z, b)
        /\ NextFree(h, PrevFree(h, b)) = b
    BY <1>5, <1>6, <2>4, <2>5 DEF PrevOK, head
  <2> DEFINE p == PrevFree(h, b)
  <2>7. p \in C BY <2>6
  <2>8. NextOK(h, F, z, rho, p) BY <1>3, <2>6 DEF Linked
  <2>9. rho[p] < rho[b] BY <1>5, <2>6, <2>8 DEF NextOK
  <2>10. rho[p] \in V /\ rho[b] \in Nat /\ rho[p] \in Nat BY <1>3, <2>1, <2>7
  <2> HIDE DEF p, V
  <2>11. ~ (v <= rho[p]) BY <2>3, <2>9, <2>10
  <2> QED BY <2>2, <2>10, <2>11
<1>7. CASE head # block_null
  <2>1. head \in C /\ PrevFree(h, head) = block_null BY <1>2, <1>7 DEF HeadOK, head, c
  <2>2. Closed(step, X)
    <3> SUFFICES ASSUME NEW b \in X \cap DOMAIN step PROVE step[b] \subseteq X BY DEF Closed
    <3>1. b \in C BY <1>5a
    <3>2. NextOK(h, F, z, rho, b) BY <1>3, <3>1 DEF Linked
    <3>3. NextFree(h, b) \in X BY <3>1, <3>2 DEF NextOK
    <3> QED BY <1>5, <3>1, <3>3
  <2>3. IsFiniteSet(X) /\ Cardinality(X) <= MaxBlocks
    <3> DEFINE Y == S \cup {block_null}
    <3>1. IsFiniteSet(Y) /\ Cardinality(Y) <= MaxBlocks BY <1>1, BlocksBound
    <3>2. X \subseteq Y BY <1>1
    <3> HIDE DEF X, Y
    <3>3. IsFiniteSet(X) /\ Cardinality(X) <= Cardinality(Y) BY <3>1, <3>2, FS_Subset
    <3>4. Cardinality(X) \in Nat /\ Cardinality(Y) \in Nat BY <3>1, <3>3, FS_CardinalityType
    <3> QED BY <3>1, <3>3, <3>4, MaxBlocksType
  <2>4. head \in R /\ R \subseteq X /\ Closed(step, R) BY <2>1, <2>2, <2>3, WalkEnds DEF R
  <2>5. C \subseteq R
    <3> DEFINE M == C \ R
               V == {rho[b] : b \in M}
    <3> SUFFICES ASSUME M # {} PROVE FALSE OBVIOUS
    <3>1. V \subseteq Nat /\ V # {} BY <1>3 DEF Linked
    <3>2. PICK v \in V : \A x \in V : v <= x BY <3>1, LeastOfNat
    <3>3. PICK b \in M : v = rho[b] BY <3>2
    <3>4. PrevOK(h, F, z, b) BY <1>3 DEF Linked
    <3>5. Class(z, b).fl = i /\ Class(z, b).sl = j BY DEF c
    <3>6. PrevFree(h, b) \in F /\ Class(z, PrevFree(h, b)) = Class(z, b)
          /\ NextFree(h, PrevFree(h, b)) = b
      BY <2>4, <3>3, <3>4, <3>5 DEF PrevOK, head
    <3> DEFINE p == PrevFree(h, b)
    <3>7. p \in C BY <3>6
    <3>8. NextOK(h, F, z, rho, p) BY <1>3, <3>6 DEF Linked
    <3>9. rho[p] < rho[b] BY <1>5, <3>6, <3>8 DEF NextOK
    <3>10. p \in M
      <4> SUFFICES ASSUME p \in R PROVE FALSE BY <3>7
      <4>1. p \in R \cap DOMAIN step /\ step[p] = {b} BY <1>5, <3>6
      <4>2. b \in R BY <2>4, <4>1 DEF Closed
      <4> QED BY <3>3, <4>2
    <3>11. rho[p] \in V /\ rho[b] \in Nat /\ rho[p] \in Nat BY <3>1, <3>10
    <3> HIDE DEF p, V
    <3>12. ~ (v <= rho[p]) BY <3>3, <3>9, <3>11
    <3> QED BY <3>2, <3>11, <3>12
  <2>6. \A b \in C : b # block_null BY <1>5
  <2> QED BY <1>4, <1>7, <2>4, <2>5, <2>6 DEF c
<1> QED BY <1>6, <1>7

(* The parts of a state, one by one.                                       *)
LEMMA StateFacts ==
    ASSUME NEW P, NEW S, NEW z, NEW Fr, NEW F, NEW h, ListState(h, S, z, Fr, F, P)
    PROVE  /\ PoolsOK(P) /\ Chain(S, z, P) /\ Fr \subseteq S \ Ends(P) /\ h \in HeapType
           /\ Rep(h, S, z, Fr) /\ F \subseteq Fr /\ Lists(h, F, z)
BY DEF ListState

(* What is in the header of a block.                                       *)
LEMMA BlockHead ==
    ASSUME NEW P, NEW S, NEW z, NEW Fr, NEW F, NEW h, ListState(h, S, z, Fr, F, P), NEW b \in S
    PROVE  /\ InMemory(b) /\ block_size(h, b) = z[b] /\ block_next(h, b) = Nx(z, b)
           /\ block_is_free(h, b) <=> b \in Fr
           /\ block_is_prev_free(h, b) <=> b \in Behind(z, Fr)
           /\ block_is_last(h, b) <=> b \in Ends(P)
           /\ b \notin Ends(P) => block_size_min <= block_size(h, b)
<1>1. PoolsOK(P) /\ Chain(S, z, P) /\ Rep(h, S, z, Fr) BY StateFacts
<1>2. block_next(h, b) = Nx(z, b) BY <1>1, NextIs
<1>3. HeadIs(h, b, z, Fr) BY <1>1 DEF Rep
<1>4. /\ b \in Addr /\ b + W \in Addr /\ z[b] \in Nat /\ (b \in Ends(P) => z[b] = 0)
      /\ (b \notin Ends(P) => 3 * W <= z[b])
  BY <1>1, BlockPlace
<1>5. W \in Nat \ {0} /\ block_size_min = 3 * W BY Layout
<1>6. b \notin Ends(P) => z[b] # 0 BY <1>4, <1>5
<1>7. block_is_last(h, b) <=> b \in Ends(P) BY <1>3, <1>4, <1>6 DEF HeadIs, block_is_last
<1> QED BY <1>2, <1>3, <1>4, <1>5, <1>7 DEF HeadIs, InMemory

LEMMA BehindIs ==
    ASSUME NEW P, PoolsOK(P), NEW S, NEW z, Chain(S, z, P), NEW Fr, Fr \subseteq S \ Ends(P),
           NEW b \in S
    PROVE  /\ b \notin Ends(P) => (Nx(z, b) \in Behind(z, Fr) <=> b \in Fr)
           /\ b \in Starts(P) => b \notin Behind(z, Fr)
<1>1. ASSUME Nx(z, b) \in Behind(z, Fr), b \notin Fr PROVE FALSE
  <2>1. PICK a \in Fr : Nx(z, a) = Nx(z, b) BY <1>1 DEF Behind
  <2>2. a \in S /\ a # b BY <1>1
  <2> QED BY <2>1, <2>2, NextDiffers
<1>2. b \in Fr => Nx(z, b) \in Behind(z, Fr) BY DEF Behind
<1>3. ASSUME b \in Behind(z, Fr) PROVE b \notin Starts(P)
  <2>1. PICK a \in Fr : Nx(z, a) = b BY <1>3 DEF Behind
  <2>2. a \in S /\ a \notin Ends(P) BY <2>1
  <2>3. a \in Nat /\ b \in Nat /\ a + 4 * W <= b BY <2>1, <2>2, BlockPlace
  <2>4. W \in Nat \ {0} BY Layout
  <2>5. a < b /\ b <= Nx(z, a) BY <2>1, <2>3, <2>4
  <2> QED BY <2>2, <2>3, <2>5, StartApart
<1> QED BY <1>1, <1>2, <1>3

(* A state of the allocator is a sound heap.                               *)
LEMMA StateIsSound ==
    ASSUME NEW S, NEW z, NEW Fr, HeapState(heap, S, z, Fr, pools),
           Users(live, S, z, Fr, pools), Fronts(heap, pools)
    PROVE  HeapSound /\ FreeBlocks(heap) = Fr
<1> DEFINE P == pools
           h == heap
<1> HIDE DEF P, h
<1>1. ListState(h, S, z, Fr, Fr, P) /\ Coalesced(z, Fr) BY DEF HeapState, h, P
<1>2. /\ PoolsOK(P) /\ Chain(S, z, P) /\ Fr \subseteq S \ Ends(P) /\ h \in HeapType
      /\ Rep(h, S, z, Fr) /\ Lists(h, Fr, z)
  BY <1>1, StateFacts
<1>3. Physical(h, P) = S \ Ends(P) BY <1>2, PhysicalIs
<1>4. ASSUME NEW b \in S
      PROVE  /\ InMemory(b) /\ block_size(h, b) = z[b] /\ block_next(h, b) = Nx(z, b)
             /\ block_is_free(h, b) <=> b \in Fr
             /\ block_is_prev_free(h, b) <=> b \in Behind(z, Fr)
             /\ block_is_last(h, b) <=> b \in Ends(P)
             /\ b \notin Ends(P) => block_size_min <= block_size(h, b)
  BY <1>1, BlockHead
<1>5. {b \in Physical(h, P) : block_is_free(h, b)} = Fr BY <1>2, <1>3, <1>4
<1>6. FreeBlocks(heap) = Fr BY <1>5 DEF FreeBlocks, h, P
<1>7. \A i \in FL, j \in SL : FreeList(h, i, j) = {b \in Fr : Class(z, b) = [fl |-> i, sl |-> j]}
  BY <1>1, ListIs
<1>8. Listed(heap) = Fr
  <2>1. ASSUME NEW b \in Fr PROVE \E i \in FL, j \in SL : b \in FreeList(h, i, j)
    <3>1. Class(z, b) \in ClassIds BY <1>1, ListFacts
    <3>2. PICK i \in FL, j \in SL : Class(z, b) = [fl |-> i, sl |-> j] BY <3>1 DEF ClassIds
    <3> QED BY <1>7, <3>2
  <2>2. \A i \in FL, j \in SL : FreeList(h, i, j) \subseteq Fr BY <1>7
  <2>3. UNION {FreeList(h, i, j) : i \in FL, j \in SL} = Fr BY <2>1, <2>2
  <2> QED BY <2>3 DEF Listed, h
<1>9. TypeOK BY <1>2 DEF TypeOK, HeapType, h
<1>10. tlsf_check(h)
  <2> SUFFICES ASSUME NEW i \in FL, NEW j \in SL
      PROVE
        /\ i \notin h.fl_bitmap => j \notin h.sl_bitmap[i]
        /\ j \notin h.sl_bitmap[i] <=> h.blocks[i][j] = block_null
        /\ \A b \in FreeList(h, i, j) :
              /\ InMemory(b) /\ block_is_free(h, b) /\ ~ block_is_prev_free(h, b)
              /\ block_size(h, b) >= block_size_min
              /\ InMemory(block_next(h, b))
              /\ ~ block_is_free(h, block_next(h, b))
              /\ block_is_prev_free(h, block_next(h, b))
              /\ mapping_insert(block_size(h, b)) = [fl |-> i, sl |-> j]
    BY DEF tlsf_check
  <2>1. HeadOK(h, Fr, z, i, j) /\ (i \in h.fl_bitmap <=> h.sl_bitmap[i] # {}) BY <1>2 DEF Lists
  <2>2. i \notin h.fl_bitmap => j \notin h.sl_bitmap[i] BY <2>1
  <2>3. j \notin h.sl_bitmap[i] <=> h.blocks[i][j] = block_null BY <2>1 DEF HeadOK
  <2>4. ASSUME NEW b \in FreeList(h, i, j)
        PROVE
              /\ InMemory(b) /\ block_is_free(h, b) /\ ~ block_is_prev_free(h, b)
              /\ block_size(h, b) >= block_size_min
              /\ InMemory(block_next(h, b))
              /\ ~ block_is_free(h, block_next(h, b))
              /\ block_is_prev_free(h, block_next(h, b))
              /\ mapping_insert(block_size(h, b)) = [fl |-> i, sl |-> j]
    <3>1. b \in Fr /\ Class(z, b) = [fl |-> i, sl |-> j] BY <1>7
    <3>2. b \in S /\ b \notin Ends(P) BY <1>2, <3>1
    <3> DEFINE n == Nx(z, b)
    <3>3. n \in S BY <1>2, <3>2, BlockPlace
    <3>4. n \notin Fr /\ n \in Behind(z, Fr) BY <1>1, <3>1 DEF Coalesced, Behind
    <3>5. b \notin Behind(z, Fr) BY <1>1, <3>1 DEF Coalesced, Behind
    <3>6. block_size(h, b) >= block_size_min
      <4>1. block_size(h, b) \in Nat /\ block_size_min \in Nat
        <5>1. z[b] \in Nat BY <1>2, <3>2, BlockPlace
        <5>2. 3 * W \in Nat BY Layout
        <5> QED BY <1>4, <3>2, <5>1, <5>2, Layout
      <4>2. block_size_min <= block_size(h, b) BY <1>4, <3>2
      <4> QED BY <4>1, <4>2
    <3>7. mapping_insert(block_size(h, b)) = [fl |-> i, sl |-> j]
      BY <1>4, <3>1, <3>2 DEF Class
    <3>8. block_next(h, b) = n BY <1>4, <3>2
    <3> HIDE DEF n
    <3>9. InMemory(b) /\ block_is_free(h, b) /\ ~ block_is_prev_free(h, b)
      BY <1>4, <3>1, <3>2, <3>5
    <3>10. InMemory(n) /\ ~ block_is_free(h, n) /\ block_is_prev_free(h, n)
      BY <1>4, <3>3, <3>4
    <3> QED BY <3>6, <3>7, <3>8, <3>9, <3>10
  <2> QED BY <2>2, <2>3, <2>4
<1>11. \A i \in h.fl_bitmap : h.sl_bitmap[i] # {} BY <1>2 DEF Lists, HeapType
<1>12. ASSUME NEW pool \in P PROVE tlsf_check_pool(h, pool) /\ h.mem[pool - W] \in Garbage
  <2>1. h.mem[pool - W] \in Garbage BY DEF Fronts, h, P, Lo
  <2>2. tlsf_walk_pool(h, pool) = InPool(S, pool) BY <1>2, WalkIs
  <2>3. InPool(S, pool) \subseteq S BY DEF InPool
  <2>4. ~ block_is_prev_free(h, pool - block_header_overhead)
    <3>1. Lo(pool) \in S /\ Lo(pool) \in Starts(P) BY <1>2 DEF Chain, Starts
    <3>2. Lo(pool) \notin Behind(z, Fr) BY <1>2, <3>1, BehindIs
    <3>3. Lo(pool) = pool - block_header_overhead BY Layout DEF Lo
    <3> QED BY <1>4, <3>1, <3>2, <3>3
  <2>5. ASSUME NEW b \in InPool(S, pool), ~ block_is_last(h, b)
        PROVE  block_is_free(h, b) = block_is_prev_free(h, block_next(h, b))
    <3>1. b \in S /\ b \notin Ends(P) BY <1>4, <2>3, <2>5
    <3>2. Nx(z, b) \in S BY <1>2, <3>1, BlockPlace
    <3>3. Nx(z, b) \in Behind(z, Fr) <=> b \in Fr BY <1>2, <3>1, BehindIs
    <3>4. block_next(h, b) = Nx(z, b) /\ (block_is_free(h, b) <=> b \in Fr) BY <1>4, <3>1
    <3>5. block_is_prev_free(h, Nx(z, b)) <=> Nx(z, b) \in Behind(z, Fr) BY <1>4, <3>2
    <3>6. block_is_free(h, b) \in BOOLEAN /\ block_is_prev_free(h, Nx(z, b)) \in BOOLEAN
      BY DEF block_is_free, block_is_prev_free
    <3> QED BY <3>3, <3>4, <3>5, <3>6
  <2> QED BY <1>4, <2>1, <2>2, <2>3, <2>4, <2>5 DEF tlsf_check_pool
<1>13. Physical(h, P) \ Fr = {block_from_ptr(p) : p \in DOMAIN live}
  <2>1. DOMAIN live = {b + 2 * W : b \in Used(S, Fr, P)} BY DEF Users, P
  <2>2. ASSUME NEW b \in Used(S, Fr, P) PROVE block_from_ptr(b + 2 * W) = b
    <3>1. b \in Nat BY <1>2, BlockPlace DEF Used
    <3>2. W \in Nat /\ block_start_offset = 2 * W BY Layout
    <3> QED BY <3>1, <3>2 DEF block_from_ptr
  <2>3. Physical(h, P) \ Fr = Used(S, Fr, P) BY <1>3 DEF Used
  <2> QED BY <2>1, <2>2, <2>3
<1>14. ASSUME NEW b \in Fr
       PROVE  /\ block_prev(h, block_next(h, b)) = b
              /\ NextFree(h, b) # block_null => PrevFree(h, NextFree(h, b)) = b
  <2>1. b \in S BY <1>2
  <2>2. h.mem[Nx(z, b)] = b BY <1>2 DEF Rep
  <2>3. PICK rho : Linked(h, Fr, z, rho) BY <1>2 DEF Lists
  <2>4. NextOK(h, Fr, z, rho, b) BY <2>3 DEF Linked
  <2> QED BY <1>4, <2>1, <2>2, <2>4 DEF NextOK, block_prev
<1>15. HeapSound BY <1>6, <1>8, <1>9, <1>10, <1>11, <1>12, <1>13, <1>14 DEF HeapSound, h, P
<1> QED BY <1>6, <1>15

(* The used blocks, and the ends of the pools, are what they were.         *)
UsedKept(S, z, Fr, T, y, G) == T \ G = S \ Fr /\ \A q \in S \ Fr : y[q] = z[q]

(* Changes that keep the used blocks, one after the other.                 *)
LEMMA SafeGrows ==
    ASSUME NEW P, NEW S, NEW z, NEW Fr, NEW T, NEW y, NEW G,
           S \ Fr \subseteq T \ G, \A q \in S \ Fr : y[q] = z[q]
    PROVE  Safe(S, z, Fr, P) \subseteq Safe(T, y, G, P)
<1> SUFFICES ASSUME NEW x \in Safe(S, z, Fr, P) PROVE x \in Safe(T, y, G, P) OBVIOUS
<1>1. x \in Addr BY DEF Safe
<1>2. CASE x \in Starts(P) BY <1>1, <1>2 DEF Safe
<1>3. ASSUME NEW q \in S \ Fr, q + W < x, x <= Nx(z, q) PROVE x \in Safe(T, y, G, P)
  <2>1. q \in T \ G /\ Nx(y, q) = Nx(z, q) BY DEF Nx
  <2> QED BY <1>1, <1>3, <2>1 DEF Safe
<1> QED BY <1>2, <1>3 DEF Safe

LEMMA SameThen ==
    ASSUME NEW h, NEW g, NEW k, NEW A, NEW B, SameOn(h, g, A), SameOn(g, k, B), A \subseteq B
    PROVE  SameOn(h, k, A)
BY DEF SameOn

LEMMA KeptThen ==
    ASSUME NEW S, NEW z, NEW Fr, NEW T, NEW y, NEW G, NEW U, NEW x, NEW K,
           UsedKept(S, z, Fr, T, y, G), UsedKept(T, y, G, U, x, K)
    PROVE  UsedKept(S, z, Fr, U, x, K)
BY DEF UsedKept

LEMMA KeptSafe ==
    ASSUME NEW P, NEW S, NEW z, NEW Fr, NEW T, NEW y, NEW G, UsedKept(S, z, Fr, T, y, G)
    PROVE  Safe(S, z, Fr, P) \subseteq Safe(T, y, G, P)
BY SafeGrows DEF UsedKept

(* The lists after a change of headers.                                    *)
LEMMA StateOf ==
    ASSUME NEW P, NEW S, NEW z, NEW Fr, NEW F, NEW h, ListState(h, S, z, Fr, F, P),
           NEW T, NEW y, NEW G, NEW g, Chain(T, y, P), G \subseteq T \ Ends(P), Rep(g, T, y, G),
           NEW K, NEW A, F \subseteq K, Keeps(h, g, K, A), F \subseteq G, \A b \in F : y[b] = z[b]
    PROVE  ListState(g, T, y, G, F, P)
<1>1. PoolsOK(P) /\ Lists(h, F, z) BY StateFacts
<1>2. Lists(g, F, y) BY <1>1, ListsKept
<1>3. g \in HeapType BY DEF Keeps
<1> QED BY <1>1, <1>2, <1>3 DEF ListState

(* block_remove and block_insert find the list by the size.                *)
LEMMA BlockRemove ==
    ASSUME NEW P, NEW S, NEW z, NEW Fr, NEW F, NEW h, ListState(h, S, z, Fr, F, P), NEW b \in F
    PROVE  /\ ListState(block_remove(h, b), S, z, Fr, F \ {b}, P)
           /\ SameOn(h, block_remove(h, b), Safe(S, z, Fr, P))
<1>1. b \in Fr BY StateFacts
<1>2. mapping_insert(block_size(h, b)) = Class(z, b) BY <1>1, ListFacts
<1> QED BY <1>2, Remove DEF block_remove

LEMMA BlockInsert ==
    ASSUME NEW P, NEW S, NEW z, NEW Fr, NEW F, NEW h, ListState(h, S, z, Fr, F, P), NEW b \in Fr,
           b \notin F
    PROVE  /\ ListState(block_insert(h, b), S, z, Fr, F \cup {b}, P)
           /\ SameOn(h, block_insert(h, b), Safe(S, z, Fr, P))
<1>2. mapping_insert(block_size(h, b)) = Class(z, b) BY ListFacts
<1> QED BY <1>2, Insert DEF block_insert

-----------------------------------------------------------------------------
(* Free block b was split, and the second part is in its list.             *)
SplitListed(h, g, S, z, Fr, b, size, P) ==
    LET r == b + W + size
        T == S \cup {r}
        y == SplitSizes(S, z, b, size)
        G == Fr \cup {r}
    IN  /\ ListState(g, T, y, G, Fr \ {b}, P)
        /\ UsedKept(S, z, Fr, T, y, G) /\ SameOn(h, g, Safe(S, z, Fr, P))

(* b is free and in no list.                                               *)
Loose(h, S, z, Fr, b, P) ==
    /\ ListState(h, S, z, Fr, Fr \ {b}, P) /\ b \in Fr
    /\ Coalesced(z, Fr \ {b})

CanBeSplit(z, b, size) == Aligned(size) /\ 3 * W <= size /\ size + 4 * W <= z[b]

LEMMA SplitLists ==
    ASSUME NEW P, NEW S, NEW z, NEW Fr, NEW h, NEW b, Loose(h, S, z, Fr, b, P),
           NEW size, CanBeSplit(z, b, size), NEW g, SplitDone(h, g, z, b, size, Fr)
    PROVE  SplitListed(h, g, S, z, Fr, b, size, P)
<1> DEFINE r == b + W + size
           T == S \cup {r}
           y == SplitSizes(S, z, b, size)
           G == Fr \cup {r}
           F == Fr \ {b}
<1>1. ListState(h, S, z, Fr, F, P) /\ b \in Fr BY DEF Loose
<1>2. /\ PoolsOK(P) /\ Chain(S, z, P) /\ Fr \subseteq S \ Ends(P) /\ h \in HeapType
      /\ Rep(h, S, z, Fr)
  BY <1>1, StateFacts
<1>3. b \in S /\ b \notin Ends(P) BY <1>1, <1>2
<1>4. Aligned(size) /\ 3 * W <= size /\ size + 4 * W <= z[b] BY DEF CanBeSplit
<1>5. /\ Chain(T, y, P) /\ G \subseteq T \ Ends(P) /\ Rep(g, T, y, G)
      /\ Keeps(h, g, G, Safe(T, y, G, P))
  BY <1>2, <1>3, <1>4, SplitRep
<1>6. SplitIs(S, z, b, size, P) BY <1>2, <1>3, <1>4, ChainSplit
<1>7. r \notin S /\ \A c \in S : c # b => y[c] = z[c] BY <1>6 DEF SplitIs
<1> HIDE DEF r, y
<1>8. F \subseteq G /\ \A c \in F : y[c] = z[c] BY <1>2, <1>7
<1>9. ListState(g, T, y, G, F, P) BY <1>1, <1>5, <1>8, StateOf
<1>10. UsedKept(S, z, Fr, T, y, G)
  <2>1. T \ G = S \ Fr BY <1>7
  <2>2. \A q \in S \ Fr : y[q] = z[q] BY <1>1, <1>7
  <2> QED BY <2>1, <2>2 DEF UsedKept
<1>11. SameOn(h, g, Safe(S, z, Fr, P))
  <2>1. Safe(S, z, Fr, P) \subseteq Safe(T, y, G, P) BY <1>10, KeptSafe
  <2>2. SameOn(h, g, Safe(T, y, G, P)) BY <1>5 DEF Keeps
  <2> QED BY <2>1, <2>2 DEF SameOn
<1> QED BY <1>9, <1>10, <1>11 DEF SplitListed, r, y

(* block_trim_free: b keeps at least size bytes and is still loose.        *)
TrimmedTo(h, g, S, z, Fr, b, size, P, T, y, G) ==
    /\ Loose(g, T, y, G, b, P) /\ size <= y[b]
    /\ UsedKept(S, z, Fr, T, y, G) /\ SameOn(h, g, Safe(S, z, Fr, P))

Trimmed(h, g, S, z, Fr, b, size, P) ==
    \E T, y, G : TrimmedTo(h, g, S, z, Fr, b, size, P, T, y, G)

(* block_trim_free.                                                        *)
LEMMA TrimFree ==
    ASSUME NEW P, NEW S, NEW z, NEW Fr, NEW h, NEW b, Loose(h, S, z, Fr, b, P),
           Nx(z, b) \notin Fr, NEW size, Aligned(size), 3 * W <= size, size <= z[b]
    PROVE  Trimmed(h, block_trim_free(h, b, size), S, z, Fr, b, size, P)
<1> DEFINE s == block_split(h, b, size)
           k == block_set_prev_free(block_link_next(s.heap, b), s.block)
           g == block_insert(k, s.block)
           r == b + W + size
           T == S \cup {r}
           y == SplitSizes(S, z, b, size)
           G == Fr \cup {r}
           F == Fr \ {b}
<1>1. ListState(h, S, z, Fr, F, P) /\ b \in Fr /\ Coalesced(z, F) BY DEF Loose
<1>2. /\ PoolsOK(P) /\ Chain(S, z, P) /\ Fr \subseteq S \ Ends(P) /\ h \in HeapType
      /\ Rep(h, S, z, Fr)
  BY <1>1, StateFacts
<1>3. b \in S /\ b \notin Ends(P) BY <1>1, <1>2
<1>4. block_size(h, b) = z[b] /\ z[b] \in Nat /\ block_header_size = 4 * W /\ W \in Nat /\ size \in Nat
  <2>1. block_size(h, b) = z[b] BY <1>1, <1>3, BlockHead
  <2>2. z[b] \in Nat BY <1>2, <1>3, BlockPlace
  <2> QED BY <2>1, <2>2, Layout DEF Aligned
<1>5. block_trim_free(h, b, size) = IF block_can_split(h, b, size) THEN g ELSE h
  BY DEF block_trim_free
<1>6. CASE ~ block_can_split(h, b, size)
  <2>1. UsedKept(S, z, Fr, S, z, Fr) /\ SameOn(h, h, Safe(S, z, Fr, P)) BY DEF UsedKept, SameOn
  <2> QED BY <1>5, <1>6, <2>1 DEF Trimmed, TrimmedTo
<1>7. CASE block_can_split(h, b, size)
  <2>1. size + 4 * W <= z[b]
    <3>1. z[b] >= 4 * W + size BY <1>4, <1>7 DEF block_can_split
    <3> QED BY <1>4, <3>1
  <2>2. CanBeSplit(z, b, size) BY <2>1 DEF CanBeSplit
  <2>3. SplitDone(h, k, z, b, size, Fr) BY <1>1, <1>2, <2>1, SplitFree
  <2>4. s.block = r BY <1>2, <1>3, <2>1, Split
  <2> HIDE DEF k, s
  <2>5. SplitListed(h, k, S, z, Fr, b, size, P) BY <2>2, <2>3, SplitLists
  <2>6. /\ ListState(k, T, y, G, F, P)
        /\ UsedKept(S, z, Fr, T, y, G) /\ SameOn(h, k, Safe(S, z, Fr, P))
    BY <2>5 DEF SplitListed
  <2>7. SplitIs(S, z, b, size, P) BY <1>2, <1>3, <2>1, ChainSplit
  <2>8. /\ r \notin S /\ r # b /\ y[b] = size /\ Nx(y, r) = Nx(z, b)
        /\ \A c \in S : c # b => y[c] = z[c] /\ Nx(y, c) = Nx(z, c)
    BY <2>7 DEF SplitIs
  <2> HIDE DEF r, y
  <2>9. r \in G /\ r \notin F BY <1>2, <2>8
  <2>10. /\ ListState(g, T, y, G, F \cup {r}, P)
         /\ SameOn(k, g, Safe(T, y, G, P))
    BY <2>4, <2>6, <2>9, BlockInsert
  <2>11. F \cup {r} = G \ {b} BY <2>8
  <2>12. Coalesced(y, G \ {b})
    <3> SUFFICES ASSUME NEW a \in G \ {b} PROVE Nx(y, a) \notin G \ {b} BY DEF Coalesced
    <3>1. CASE a = r
      <4>1. Nx(y, a) = Nx(z, b) BY <2>8, <3>1
      <4>2. Nx(z, b) \in S BY <1>2, <1>3, BlockPlace
      <4> QED BY <2>8, <4>1, <4>2
    <3>2. CASE a \in F
      <4>1. a \in S /\ a # b /\ a \notin Ends(P) BY <1>2, <3>2
      <4>2. Nx(y, a) = Nx(z, a) /\ Nx(z, a) \in S BY <1>2, <2>8, <4>1, BlockPlace
      <4>3. Nx(z, a) \notin F BY <1>1, <3>2 DEF Coalesced
      <4> QED BY <2>8, <4>2, <4>3
    <3> QED BY <3>1, <3>2
  <2>13. Loose(g, T, y, G, b, P) BY <1>1, <2>10, <2>11, <2>12 DEF Loose
  <2>14. SameOn(h, g, Safe(S, z, Fr, P))
    <3>1. Safe(S, z, Fr, P) \subseteq Safe(T, y, G, P) BY <2>6, KeptSafe
    <3> QED BY <2>6, <2>10, <3>1, SameThen
  <2>15. size <= y[b] BY <1>4, <2>8
  <2>16. TrimmedTo(h, g, S, z, Fr, b, size, P, T, y, G) BY <2>6, <2>13, <2>14, <2>15 DEF TrimmedTo
  <2> QED BY <1>5, <1>7, <2>16 DEF Trimmed
<1> QED BY <1>6, <1>7

(* block_trim_free_leading: b is in its list, and what is behind it is     *)
(* loose.                                                                  *)
LedTo(h, g, S, z, Fr, b, gap, P, T, y, G) ==
    /\ Loose(g, T, y, G, b + gap, P) /\ Nx(y, b + gap) \notin G
    /\ y[b + gap] = z[b] - gap /\ b + gap \in Nat
    /\ UsedKept(S, z, Fr, T, y, G) /\ SameOn(h, g, Safe(S, z, Fr, P))

LEMMA TrimLeading ==
    ASSUME NEW P, NEW S, NEW z, NEW Fr, NEW h, NEW b, Loose(h, S, z, Fr, b, P),
           Coalesced(z, Fr), NEW gap, Aligned(gap), 4 * W <= gap, gap + 4 * W <= z[b]
    PROVE  /\ block_trim_free_leading(h, b, gap).block = b + gap
           /\ \E T, y, G : LedTo(h, block_trim_free_leading(h, b, gap).heap, S, z, Fr, b, gap, P,
                                 T, y, G)
<1> DEFINE size == gap - W
           s == block_split(h, b, size)
           k == block_link_next(block_set_prev_free(s.heap, s.block), b)
           g == block_insert(k, b)
           r == b + W + size
           T == S \cup {r}
           y == SplitSizes(S, z, b, size)
           G == Fr \cup {r}
           F == Fr \ {b}
<1>1. ListState(h, S, z, Fr, F, P) /\ b \in Fr BY DEF Loose
<1>2. /\ PoolsOK(P) /\ Chain(S, z, P) /\ Fr \subseteq S \ Ends(P) /\ h \in HeapType
      /\ Rep(h, S, z, Fr)
  BY <1>1, StateFacts
<1>3. b \in S /\ b \notin Ends(P) BY <1>1, <1>2
<1>4. /\ block_size(h, b) = z[b] /\ z[b] \in Nat /\ b \in Nat /\ block_header_size = 4 * W
      /\ block_header_overhead = W /\ W \in Nat /\ gap \in Nat
  <2>1. block_size(h, b) = z[b] BY <1>1, <1>3, BlockHead
  <2>2. z[b] \in Nat /\ b \in Nat BY <1>2, <1>3, BlockPlace
  <2> QED BY <2>1, <2>2, Layout DEF Aligned
<1>5. /\ W <= gap /\ size \in Nat /\ 3 * W <= size /\ size + 4 * W <= z[b] /\ r = b + gap
      /\ z[b] >= 4 * W + gap /\ z[b] - size - W = z[b] - gap
  BY <1>4
<1>6. Aligned(size) BY <1>5, AlignedWords, AlignedDiff
<1>7. block_trim_free_leading(h, b, gap) = Result(g, s.block)
  <2>1. block_can_split(h, b, gap) BY <1>4, <1>5 DEF block_can_split
  <2> QED BY <1>4, <2>1 DEF block_trim_free_leading
<1> HIDE DEF size
<1>8. CanBeSplit(z, b, size) BY <1>5, <1>6 DEF CanBeSplit
<1>9. SplitDone(h, k, z, b, size, Fr) BY <1>1, <1>2, <1>5, <1>6, SplitFree
<1>10. s.block = r BY <1>2, <1>3, <1>5, <1>6, Split
<1> HIDE DEF k, s
<1>11. SplitListed(h, k, S, z, Fr, b, size, P) BY <1>8, <1>9, SplitLists
<1>12. /\ ListState(k, T, y, G, F, P)
       /\ UsedKept(S, z, Fr, T, y, G) /\ SameOn(h, k, Safe(S, z, Fr, P))
  BY <1>11 DEF SplitListed
<1>13. SplitIs(S, z, b, size, P) BY <1>2, <1>3, <1>5, <1>6, ChainSplit
<1>14. /\ r \notin S /\ r # b /\ y[r] = z[b] - size - W /\ Nx(y, r) = Nx(z, b) /\ Nx(y, b) = r
       /\ \A c \in S : c # b => y[c] = z[c] /\ Nx(y, c) = Nx(z, c)
  BY <1>13 DEF SplitIs
<1> HIDE DEF r, y
<1>15. b \in G /\ b \notin F BY <1>1
<1>16. ListState(g, T, y, G, F \cup {b}, P) /\ SameOn(k, g, Safe(T, y, G, P))
  BY <1>12, <1>15, BlockInsert
<1>17. F \cup {b} = G \ {r} /\ G \ {r} = Fr /\ r \in G BY <1>1, <1>2, <1>14
<1>18. Coalesced(y, G \ {r})
  <2> SUFFICES ASSUME NEW a \in Fr PROVE Nx(y, a) \notin Fr BY <1>17 DEF Coalesced
  <2>1. CASE a = b BY <1>2, <1>14, <2>1
  <2>2. CASE a # b
    <3>1. a \in S BY <1>2
    <3>2. Nx(z, a) \notin Fr BY DEF Coalesced
    <3> QED BY <1>14, <2>2, <3>1, <3>2
  <2> QED BY <2>1, <2>2
<1>19. Nx(y, r) \notin G
  <2>1. Nx(z, b) \in S BY <1>2, <1>3, BlockPlace
  <2>2. Nx(z, b) \notin Fr BY <1>1 DEF Coalesced
  <2> QED BY <1>14, <2>1, <2>2
<1>20. Loose(g, T, y, G, r, P) BY <1>16, <1>17, <1>18 DEF Loose
<1>21. SameOn(h, g, Safe(S, z, Fr, P))
  <2>1. Safe(S, z, Fr, P) \subseteq Safe(T, y, G, P) BY <1>12, KeptSafe
  <2> QED BY <1>12, <1>16, <2>1, SameThen
<1>22. r \in Nat BY <1>4, <1>5
<1> HIDE DEF g
<1>23. LedTo(h, g, S, z, Fr, b, gap, P, T, y, G)
  BY <1>5, <1>12, <1>14, <1>19, <1>20, <1>21, <1>22 DEF LedTo
<1>24. block_trim_free_leading(h, b, gap).block = r /\ block_trim_free_leading(h, b, gap).heap = g
  BY <1>7, <1>10 DEF Result
<1> QED BY <1>5, <1>23, <1>24

-----------------------------------------------------------------------------
(* A free block is handed to a user.                                       *)
HandedTo(h, g, S, z, Fr, b, size, P, T, y, G) ==
    /\ HeapState(g, T, y, G, P) /\ b \in T /\ b \notin Ends(P) /\ size <= y[b]
    /\ T \ G = (S \ Fr) \cup {b} /\ b \notin S \ Fr
    /\ \A q \in S \ Fr : y[q] = z[q]
    /\ SameOn(h, g, Safe(S, z, Fr, P))

(* block_prepare_used.                                                     *)
LEMMA PrepareUsed ==
    ASSUME NEW P, NEW S, NEW z, NEW Fr, NEW h, NEW b, Loose(h, S, z, Fr, b, P),
           Nx(z, b) \notin Fr, NEW size, Aligned(size), 3 * W <= size, size <= z[b]
    PROVE  /\ block_prepare_used(h, b, size).ptr = b + 2 * W
           /\ \E T, y, G : HandedTo(h, block_prepare_used(h, b, size).heap, S, z, Fr, b, size, P,
                                    T, y, G)
<1> DEFINE k == block_trim_free(h, b, size)
           g == block_mark_as_used(k, b)
<1>1. Trimmed(h, k, S, z, Fr, b, size, P) BY TrimFree
<1>2. PICK T, y, G : TrimmedTo(h, k, S, z, Fr, b, size, P, T, y, G) BY <1>1 DEF Trimmed
<1>3. /\ Loose(k, T, y, G, b, P) /\ size <= y[b]
      /\ UsedKept(S, z, Fr, T, y, G) /\ SameOn(h, k, Safe(S, z, Fr, P))
  BY <1>2 DEF TrimmedTo
<1>4. ListState(k, T, y, G, G \ {b}, P) /\ b \in G /\ Coalesced(y, G \ {b}) BY <1>3 DEF Loose
<1>5. /\ PoolsOK(P) /\ Chain(T, y, P) /\ G \subseteq T \ Ends(P) /\ k \in HeapType
      /\ Rep(k, T, y, G)
  BY <1>4, StateFacts
<1>6. b \in T /\ b \notin Ends(P) /\ b # NULL
  <2>1. b \in T /\ b \notin Ends(P) BY <1>4, <1>5
  <2>2. b \in Addr BY <1>5, <2>1, BlockPlace
  <2> QED BY <2>1, <2>2, AddrNat DEF NULL
<1>7. block_prepare_used(h, b, size) = [heap |-> g, ptr |-> b + 2 * W]
  BY <1>6, Layout DEF block_prepare_used, block_to_ptr
<1> HIDE DEF k
<1>8. Rep(g, T, y, G \ {b}) /\ Keeps(k, g, G, Safe(T, y, G, P)) BY <1>4, <1>5, MarkUsed
<1> HIDE DEF g
<1>9. ListState(g, T, y, G \ {b}, G \ {b}, P)
  <2>1. G \ {b} \subseteq T \ Ends(P) /\ G \ {b} \subseteq G BY <1>5
  <2> QED BY <1>4, <1>5, <1>8, <2>1, StateOf
<1>10. HeapState(g, T, y, G \ {b}, P) BY <1>4, <1>9 DEF HeapState
<1>11. T \ (G \ {b}) = (S \ Fr) \cup {b}
  <2>1. T \ G = S \ Fr BY <1>3 DEF UsedKept
  <2> QED BY <1>6, <2>1
<1>12. \A q \in S \ Fr : y[q] = z[q] BY <1>3 DEF UsedKept
<1>13. SameOn(h, g, Safe(S, z, Fr, P))
  <2>1. Safe(S, z, Fr, P) \subseteq Safe(T, y, G, P) BY <1>3, KeptSafe
  <2>2. SameOn(k, g, Safe(T, y, G, P)) BY <1>8 DEF Keeps
  <2> QED BY <1>3, <2>1, <2>2, SameThen
<1>14. b \notin S \ Fr BY DEF Loose
<1>15. HandedTo(h, g, S, z, Fr, b, size, P, T, y, G \ {b})
  BY <1>3, <1>6, <1>10, <1>11, <1>12, <1>13, <1>14 DEF HandedTo
<1>16. block_prepare_used(h, b, size).ptr = b + 2 * W /\ block_prepare_used(h, b, size).heap = g
  BY <1>7
<1> QED BY <1>15, <1>16

(* A loose block b with no free block in front of it is merged with what   *)
(* is behind it and goes to its list.                                      *)
RejoinedTo(h, g, S, z, Fr, P, T, y, G) ==
    /\ HeapState(g, T, y, G, P)
    /\ UsedKept(S, z, Fr, T, y, G) /\ SameOn(h, g, Safe(S, z, Fr, P))

(* The facts about two free blocks that become one.                        *)
LEMMA JoinLists ==
    ASSUME NEW P, NEW S, NEW z, NEW Fr, NEW F, NEW k, ListState(k, S, z, Fr, F, P),
           NEW a \in Fr, NEW b \in Fr, b = Nx(z, a), a \notin F, b \notin F
    PROVE  LET T == S \ {b}
               y == AbsorbSizes(S, z, a, b)
               G == Fr \ {b}
               m == block_absorb(k, a, b)
           IN  /\ ListState(m, T, y, G, F, P) /\ UsedKept(S, z, Fr, T, y, G)
               /\ SameOn(k, m, Safe(S, z, Fr, P))
               /\ a \in G /\ Nx(y, a) = Nx(z, b) /\ Nx(z, b) # a
               /\ \A c \in T : c # a => y[c] = z[c] /\ Nx(y, c) = Nx(z, c)
<1> DEFINE T == S \ {b}
           y == AbsorbSizes(S, z, a, b)
           G == Fr \ {b}
           m == block_absorb(k, a, b)
<1>2. /\ PoolsOK(P) /\ Chain(S, z, P) /\ Fr \subseteq S \ Ends(P) /\ k \in HeapType
      /\ Rep(k, S, z, Fr) /\ F \subseteq Fr
  BY StateFacts
<1>3. a \in S /\ a \notin Ends(P) /\ b \in S /\ b \notin Ends(P) BY <1>2
<1>4. AbsorbIs(S, z, a, b, P) BY <1>2, <1>3, ChainAbsorb
<1>5. /\ Chain(T, y, P) /\ a \in T /\ a # b /\ Nx(y, a) = Nx(z, b)
      /\ \A c \in T : c # a => y[c] = z[c] /\ Nx(y, c) = Nx(z, c)
  BY <1>4 DEF AbsorbIs
<1>6. Rep(m, T, y, G) /\ Keeps(k, m, Fr, Safe(S, z, Fr, P)) BY <1>2, AbsorbFree
<1> HIDE DEF y, m
<1>7. ListState(m, T, y, G, F, P)
  <2>1. G \subseteq T \ Ends(P) /\ F \subseteq G /\ \A c \in F : y[c] = z[c] BY <1>2, <1>5
  <2> QED BY <1>2, <1>5, <1>6, <2>1, StateOf
<1>8. UsedKept(S, z, Fr, T, y, G)
  <2>1. T \ G = S \ Fr OBVIOUS
  <2>2. \A q \in S \ Fr : y[q] = z[q] BY <1>5
  <2> QED BY <2>1, <2>2 DEF UsedKept
<1>9. SameOn(k, m, Safe(S, z, Fr, P)) BY <1>6 DEF Keeps
<1>10. Nx(z, b) # a
  <2>1. a + 4 * W <= b /\ b + 4 * W <= Nx(z, b) /\ a \in Nat /\ b \in Nat /\ Nx(z, b) \in Nat
    BY <1>2, <1>3, BlockPlace
  <2>2. W \in Nat \ {0} BY Layout
  <2> QED BY <2>1, <2>2
<1>11. a \in G BY <1>5
<1> QED BY <1>5, <1>7, <1>8, <1>9, <1>10, <1>11 DEF y, m

(* block_merge_next and block_insert.                                      *)
LEMMA Rejoin ==
    ASSUME NEW P, NEW S, NEW z, NEW Fr, NEW h, NEW b, Loose(h, S, z, Fr, b, P),
           b \notin Behind(z, Fr)
    PROVE  LET t == block_merge_next(h, b)
           IN  \E T, y, G : RejoinedTo(h, block_insert(t.heap, t.block), S, z, Fr, P, T, y, G)
<1> DEFINE n == Nx(z, b)
           t == block_merge_next(h, b)
           g == block_insert(t.heap, t.block)
           F == Fr \ {b}
<1>1. ListState(h, S, z, Fr, F, P) /\ b \in Fr /\ Coalesced(z, F) BY DEF Loose
<1>2. /\ PoolsOK(P) /\ Chain(S, z, P) /\ Fr \subseteq S \ Ends(P) /\ h \in HeapType
      /\ Rep(h, S, z, Fr)
  BY <1>1, StateFacts
<1>3. b \in S /\ b \notin Ends(P) BY <1>1, <1>2
<1>4. n \in S /\ n # b
  <2>1. n \in S /\ b + 4 * W <= n /\ b \in Nat /\ n \in Nat BY <1>2, <1>3, BlockPlace
  <2>2. W \in Nat \ {0} BY Layout
  <2> QED BY <2>1, <2>2
<1>5. block_next(h, b) = n BY <1>1, <1>3, BlockHead
<1>6. block_is_free(h, n) <=> n \in Fr BY <1>1, <1>4, BlockHead
<1>7. \A a \in Fr : Nx(z, a) # b BY DEF Behind
<1>8. CASE n \notin Fr
  <2>1. t = Result(h, b) BY <1>5, <1>6, <1>8 DEF block_merge_next
  <2>2. t.heap = h /\ t.block = b BY <2>1 DEF Result
  <2> HIDE DEF t, n
  <2>3. ListState(g, S, z, Fr, F \cup {b}, P) /\ SameOn(h, g, Safe(S, z, Fr, P))
    BY <1>1, <2>2, BlockInsert
  <2>4. F \cup {b} = Fr BY <1>1
  <2>5. Coalesced(z, Fr) BY <1>1, <1>7, <1>8 DEF Coalesced, n
  <2>6. UsedKept(S, z, Fr, S, z, Fr) BY DEF UsedKept
  <2>7. RejoinedTo(h, g, S, z, Fr, P, S, z, Fr) BY <2>3, <2>4, <2>5, <2>6 DEF RejoinedTo, HeapState
  <2> QED BY <2>7 DEF t
<1>9. CASE n \in Fr
  <2> DEFINE k == block_remove(h, n)
             m == block_absorb(k, b, n)
             T == S \ {n}
             y == AbsorbSizes(S, z, b, n)
             G == Fr \ {n}
  <2>1. t = Result(m, b) BY <1>5, <1>6, <1>9 DEF block_merge_next
  <2>2. t.heap = m /\ t.block = b BY <2>1 DEF Result
  <2> HIDE DEF t
  <2>3. n \in F BY <1>4, <1>9
  <2>4. ListState(k, S, z, Fr, F \ {n}, P) /\ SameOn(h, k, Safe(S, z, Fr, P))
    BY <1>1, <2>3, BlockRemove
  <2> HIDE DEF k, y, n
  <2>5. b \notin F \ {n} /\ n \notin F \ {n} /\ n = Nx(z, b) BY DEF n
  <2>6. /\ ListState(m, T, y, G, F \ {n}, P) /\ UsedKept(S, z, Fr, T, y, G)
        /\ SameOn(k, m, Safe(S, z, Fr, P))
        /\ b \in G /\ Nx(y, b) = Nx(z, n) /\ Nx(z, n) # b
        /\ \A c \in T : c # b => y[c] = z[c] /\ Nx(y, c) = Nx(z, c)
    BY <1>1, <1>9, <2>4, <2>5, JoinLists DEF y
  <2> HIDE DEF m
  <2>7. ListState(g, T, y, G, (F \ {n}) \cup {b}, P) /\ SameOn(m, g, Safe(T, y, G, P))
    BY <2>2, <2>5, <2>6, BlockInsert
  <2>8. (F \ {n}) \cup {b} = G BY <1>1, <1>4
  <2>9. Coalesced(y, G)
    <3> SUFFICES ASSUME NEW a \in G PROVE Nx(y, a) \notin G BY DEF Coalesced
    <3>1. CASE a = b
      <4>1. Nx(z, n) \notin F BY <1>1, <2>3 DEF Coalesced
      <4> QED BY <2>6, <3>1, <4>1
    <3>2. CASE a # b
      <4>1. Nx(y, a) = Nx(z, a) BY <1>2, <2>6, <3>2
      <4>2. Nx(z, a) \notin F /\ Nx(z, a) # b BY <1>1, <1>7, <3>2 DEF Coalesced
      <4> QED BY <4>1, <4>2
    <3> QED BY <3>1, <3>2
  <2>10. SameOn(h, g, Safe(S, z, Fr, P))
    <3>1. Safe(S, z, Fr, P) \subseteq Safe(T, y, G, P) BY <2>6, KeptSafe
    <3>2. SameOn(h, m, Safe(S, z, Fr, P)) BY <2>4, <2>6, SameThen
    <3> QED BY <2>7, <3>1, <3>2, SameThen
  <2>11. RejoinedTo(h, g, S, z, Fr, P, T, y, G)
    BY <2>6, <2>7, <2>8, <2>9, <2>10 DEF RejoinedTo, HeapState
  <2> QED BY <2>11 DEF t
<1> QED BY <1>8, <1>9

(* A loose block is merged with what is in front of it.                    *)
LedBack(h, k, c, S, z, Fr, P, T, y, G) ==
    /\ Loose(k, T, y, G, c, P) /\ c \notin Behind(y, G)
    /\ UsedKept(S, z, Fr, T, y, G) /\ SameOn(h, k, Safe(S, z, Fr, P))

(* block_merge_prev.                                                       *)
LEMMA MergePrev ==
    ASSUME NEW P, NEW S, NEW z, NEW Fr, NEW h, NEW b, Loose(h, S, z, Fr, b, P)
    PROVE  LET p == block_merge_prev(h, b)
           IN  \E T, y, G : LedBack(h, p.heap, p.block, S, z, Fr, P, T, y, G)
<1> DEFINE p == block_merge_prev(h, b)
           F == Fr \ {b}
<1>1. ListState(h, S, z, Fr, F, P) /\ b \in Fr /\ Coalesced(z, F) BY DEF Loose
<1>2. /\ PoolsOK(P) /\ Chain(S, z, P) /\ Fr \subseteq S \ Ends(P) /\ h \in HeapType
      /\ Rep(h, S, z, Fr)
  BY <1>1, StateFacts
<1>3. b \in S /\ b \notin Ends(P) BY <1>1, <1>2
<1>4. block_is_prev_free(h, b) <=> b \in Behind(z, Fr) BY <1>1, <1>3, BlockHead
<1>5. CASE b \notin Behind(z, Fr)
  <2>1. p = Result(h, b) BY <1>4, <1>5 DEF block_merge_prev
  <2>2. p.heap = h /\ p.block = b BY <2>1 DEF Result
  <2>3. UsedKept(S, z, Fr, S, z, Fr) /\ SameOn(h, h, Safe(S, z, Fr, P)) BY DEF UsedKept, SameOn
  <2> HIDE DEF p
  <2>4. LedBack(h, p.heap, p.block, S, z, Fr, P, S, z, Fr) BY <1>5, <2>2, <2>3 DEF LedBack
  <2> QED BY <2>4 DEF p
<1>6. CASE b \in Behind(z, Fr)
  <2>1. PICK a \in Fr : Nx(z, a) = b BY <1>6 DEF Behind
  <2>2. h.mem[b] = a BY <1>2, <2>1 DEF Rep
  <2> DEFINE k == block_remove(h, a)
             m == block_absorb(k, a, b)
             T == S \ {b}
             y == AbsorbSizes(S, z, a, b)
             G == Fr \ {b}
  <2>3. p = Result(m, a) BY <1>4, <1>6, <2>2 DEF block_merge_prev, block_prev
  <2>4. p.heap = m /\ p.block = a BY <2>3 DEF Result
  <2>5. a # b
    <3>1. a \in S /\ a \notin Ends(P) BY <1>2
    <3>2. a + 4 * W <= b /\ a \in Nat /\ b \in Nat BY <1>2, <2>1, <3>1, BlockPlace
    <3>3. W \in Nat \ {0} BY Layout
    <3> QED BY <3>2, <3>3
  <2>6. a \in F BY <2>5
  <2>7. ListState(k, S, z, Fr, F \ {a}, P) /\ SameOn(h, k, Safe(S, z, Fr, P))
    BY <1>1, <2>6, BlockRemove
  <2> HIDE DEF k, y, p
  <2>8. a \notin F \ {a} /\ b \notin F \ {a} OBVIOUS
  <2>9. /\ ListState(m, T, y, G, F \ {a}, P) /\ UsedKept(S, z, Fr, T, y, G)
        /\ SameOn(k, m, Safe(S, z, Fr, P))
        /\ a \in G /\ Nx(y, a) = Nx(z, b) /\ Nx(z, b) # a
        /\ \A c \in T : c # a => y[c] = z[c] /\ Nx(y, c) = Nx(z, c)
    BY <1>1, <2>1, <2>7, <2>8, JoinLists DEF y
  <2> HIDE DEF m
  <2>10. Coalesced(y, G \ {a})
    <3> SUFFICES ASSUME NEW e \in G \ {a} PROVE Nx(y, e) \notin G \ {a} BY DEF Coalesced
    <3>1. Nx(y, e) = Nx(z, e) BY <1>2, <2>9
    <3>2. Nx(z, e) \notin F BY <1>1 DEF Coalesced
    <3> QED BY <3>1, <3>2
  <2>11. a \notin Behind(y, G)
    <3> SUFFICES ASSUME NEW e \in G, Nx(y, e) = a PROVE FALSE BY DEF Behind
    <3>1. e # a BY <2>9
    <3>2. Nx(y, e) = Nx(z, e) BY <1>2, <2>9, <3>1
    <3> QED BY <1>1, <2>6, <3>2 DEF Coalesced
  <2>12. F \ {a} = G \ {a} OBVIOUS
  <2>13. Loose(m, T, y, G, a, P) BY <2>9, <2>10, <2>12 DEF Loose
  <2>14. SameOn(h, m, Safe(S, z, Fr, P)) BY <2>7, <2>9, SameThen
  <2>15. LedBack(h, p.heap, p.block, S, z, Fr, P, T, y, G)
    BY <2>4, <2>9, <2>11, <2>13, <2>14 DEF LedBack
  <2> QED BY <2>15 DEF p
<1> QED BY <1>5, <1>6

(* tlsf_free: block b is free, alone or with its neighbours.               *)
LEMMA FreeBlock ==
    ASSUME NEW P, NEW S, NEW z, NEW Fr, NEW h, HeapState(h, S, z, Fr, P),
           NEW b \in Used(S, Fr, P)
    PROVE  \E T, y, G : RejoinedTo(h, tlsf_free(h, b + 2 * W), S, z, Fr \cup {b}, P, T, y, G)
<1> DEFINE k == block_mark_as_free(h, b)
           p == block_merge_prev(k, b)
           n == block_merge_next(p.heap, p.block)
           g == block_insert(n.heap, n.block)
           K == Fr \cup {b}
<1>1. ListState(h, S, z, Fr, Fr, P) /\ Coalesced(z, Fr) BY DEF HeapState
<1>2. /\ PoolsOK(P) /\ Chain(S, z, P) /\ Fr \subseteq S \ Ends(P) /\ h \in HeapType
      /\ Rep(h, S, z, Fr)
  BY <1>1, StateFacts
<1>3. b \in S /\ b \notin Ends(P) /\ b \notin Fr BY DEF Used
<1>4. tlsf_free(h, b + 2 * W) = g
  <2>1. b \in Nat BY <1>2, <1>3, BlockPlace
  <2>2. W \in Nat \ {0} /\ block_start_offset = 2 * W /\ NULL = 0 BY Layout
  <2>3. b + 2 * W # NULL /\ block_from_ptr(b + 2 * W) = b BY <2>1, <2>2 DEF block_from_ptr
  <2> QED BY <2>3 DEF tlsf_free
<1>5. Rep(k, S, z, K) /\ Keeps(h, k, K, Safe(S, z, K, P)) BY <1>2, <1>3, MarkFree
<1> HIDE DEF k
<1>6. K \subseteq S \ Ends(P) /\ Fr \subseteq K /\ K \ {b} = Fr /\ b \in K BY <1>2, <1>3
<1>7. ListState(k, S, z, K, Fr, P) BY <1>1, <1>2, <1>5, <1>6, StateOf
<1> HIDE DEF K
<1>8. Loose(k, S, z, K, b, P) BY <1>1, <1>6, <1>7 DEF Loose
<1>9. PICK T, y, G : LedBack(k, p.heap, p.block, S, z, K, P, T, y, G) BY <1>8, MergePrev
<1> HIDE DEF p
<1>10. /\ Loose(p.heap, T, y, G, p.block, P) /\ p.block \notin Behind(y, G)
       /\ UsedKept(S, z, K, T, y, G) /\ SameOn(k, p.heap, Safe(S, z, K, P))
  BY <1>9 DEF LedBack
<1>11. PICK U, x, H : RejoinedTo(p.heap, g, T, y, G, P, U, x, H) BY <1>10, Rejoin
<1> HIDE DEF g
<1>12. /\ HeapState(g, U, x, H, P)
       /\ UsedKept(T, y, G, U, x, H) /\ SameOn(p.heap, g, Safe(T, y, G, P))
  BY <1>11 DEF RejoinedTo
<1>13. UsedKept(S, z, K, U, x, H) BY <1>10, <1>12, KeptThen
<1>14. SameOn(h, g, Safe(S, z, K, P))
  <2>1. SameOn(h, k, Safe(S, z, K, P)) BY <1>5 DEF Keeps, K
  <2>2. Safe(S, z, K, P) \subseteq Safe(T, y, G, P) BY <1>10, KeptSafe
  <2>3. SameOn(h, p.heap, Safe(S, z, K, P)) BY <1>10, <2>1, SameThen
  <2> QED BY <1>12, <2>2, <2>3, SameThen
<1>15. RejoinedTo(h, g, S, z, K, P, U, x, H) BY <1>12, <1>13, <1>14 DEF RejoinedTo
<1> QED BY <1>4, <1>15 DEF K

-----------------------------------------------------------------------------
(* Used block b has another size.                                          *)
ResizedTo(h, g, S, z, Fr, b, P, T, y, G) ==
    /\ HeapState(g, T, y, G, P)
    /\ T \ G = S \ Fr /\ \A q \in S \ Fr : q # b => y[q] = z[q]
    /\ SameOn(h, g, Safe(S, z, Fr, P) \cap Safe(T, y, G, P))

(* block_trim_used: b keeps at least size bytes.                           *)
LEMMA TrimUsed ==
    ASSUME NEW P, NEW S, NEW z, NEW Fr, NEW h, HeapState(h, S, z, Fr, P),
           NEW b \in Used(S, Fr, P), NEW size, Aligned(size), 3 * W <= size, size <= z[b]
    PROVE  \E T, y, G : /\ ResizedTo(h, block_trim_used(h, b, size), S, z, Fr, b, P, T, y, G)
                        /\ size <= y[b] /\ y[b] <= z[b]
                        /\ SameOn(h, block_trim_used(h, b, size), Safe(T, y, G, P))
<1> DEFINE s == block_split(h, b, size)
           k == block_set_prev_used(s.heap, s.block)
           t == block_merge_next(k, s.block)
           g == block_insert(t.heap, t.block)
           r == b + W + size
           T == S \cup {r}
           y == SplitSizes(S, z, b, size)
           G == Fr \cup {r}
<1>1. ListState(h, S, z, Fr, Fr, P) /\ Coalesced(z, Fr) BY DEF HeapState
<1>2. /\ PoolsOK(P) /\ Chain(S, z, P) /\ Fr \subseteq S \ Ends(P) /\ h \in HeapType
      /\ Rep(h, S, z, Fr)
  BY <1>1, StateFacts
<1>3. b \in S /\ b \notin Ends(P) /\ b \notin Fr BY DEF Used
<1>4. block_size(h, b) = z[b] /\ z[b] \in Nat /\ block_header_size = 4 * W /\ W \in Nat /\ size \in Nat
  <2>1. block_size(h, b) = z[b] BY <1>1, <1>3, BlockHead
  <2>2. z[b] \in Nat BY <1>2, <1>3, BlockPlace
  <2> QED BY <2>1, <2>2, Layout DEF Aligned
<1>5. block_trim_used(h, b, size) = IF block_can_split(h, b, size) THEN g ELSE h
  BY DEF block_trim_used
<1>6. CASE ~ block_can_split(h, b, size)
  <2>1. ResizedTo(h, h, S, z, Fr, b, P, S, z, Fr) BY DEF ResizedTo, SameOn
  <2>2. z[b] <= z[b] /\ SameOn(h, h, Safe(S, z, Fr, P)) BY <1>4 DEF SameOn
  <2> QED BY <1>5, <1>6, <2>1, <2>2
<1>7. CASE block_can_split(h, b, size)
  <2>1. size + 4 * W <= z[b]
    <3>1. z[b] >= 4 * W + size BY <1>4, <1>7 DEF block_can_split
    <3> QED BY <1>4, <3>1
  <2>2. SplitDone(h, k, z, b, size, Fr) BY <1>2, <1>3, <2>1, SplitUsed
  <2>3. s.block = r BY <1>2, <1>3, <2>1, Split
  <2> HIDE DEF k, s
  <2>4. /\ Chain(T, y, P) /\ G \subseteq T \ Ends(P) /\ Rep(k, T, y, G)
        /\ Keeps(h, k, G, Safe(T, y, G, P))
    BY <1>2, <1>3, <2>1, <2>2, SplitRep
  <2>5. SplitIs(S, z, b, size, P) BY <1>2, <1>3, <2>1, ChainSplit
  <2>6. /\ r \notin S /\ r # b /\ y[b] = size /\ Nx(y, b) = r
        /\ \A c \in S : c # b => y[c] = z[c] /\ Nx(y, c) = Nx(z, c)
    BY <2>5 DEF SplitIs
  <2> HIDE DEF r, y
  <2>7. /\ Fr \subseteq G /\ (\A c \in Fr : y[c] = z[c]) /\ G \ {r} = Fr /\ r \in G
        /\ \A c \in Fr : Nx(y, c) = Nx(z, c)
    BY <1>2, <1>3, <2>6
  <2>8. ListState(k, T, y, G, Fr, P) BY <1>1, <2>4, <2>7, StateOf
  <2>9. Coalesced(y, Fr) BY <1>1, <2>7 DEF Coalesced
  <2>10. Loose(k, T, y, G, r, P) BY <2>7, <2>8, <2>9 DEF Loose
  <2>11. r \notin Behind(y, G)
    <3> SUFFICES ASSUME NEW a \in G, Nx(y, a) = r PROVE FALSE BY DEF Behind
    <3>1. a \in T /\ b \in T /\ a # b BY <1>3, <2>4, <2>6
    <3> QED BY <1>2, <2>4, <2>6, <3>1, NextDiffers
  <2>12. PICK U, x, H : RejoinedTo(k, g, T, y, G, P, U, x, H) BY <2>3, <2>10, <2>11, Rejoin
  <2> HIDE DEF g
  <2>13. HeapState(g, U, x, H, P) /\ UsedKept(T, y, G, U, x, H) /\ SameOn(k, g, Safe(T, y, G, P))
    BY <2>12 DEF RejoinedTo
  <2>14. U \ H = T \ G /\ \A q \in T \ G : x[q] = y[q] BY <2>13 DEF UsedKept
  <2>15. T \ G = S \ Fr BY <2>6
  <2>16. b \in T \ G BY <1>3, <2>15
  <2>17. x[b] = size BY <2>6, <2>14, <2>16
  <2>18. \A q \in S \ Fr : q # b => x[q] = z[q] BY <2>6, <2>14, <2>15
  <2>19. SameOn(h, g, Safe(U, x, H, P))
    <3>1. Safe(U, x, H, P) \subseteq Safe(T, y, G, P)
      <4>1. U \ H \subseteq T \ G /\ \A q \in U \ H : y[q] = x[q] BY <2>14
      <4> QED BY <4>1, SafeGrows
    <3>2. SameOn(h, k, Safe(T, y, G, P)) BY <2>4 DEF Keeps
    <3>3. SameOn(h, g, Safe(T, y, G, P)) BY <2>13, <3>2, SameThen
    <3> QED BY <3>1, <3>3 DEF SameOn
  <2>20. ResizedTo(h, g, S, z, Fr, b, P, U, x, H)
    <3>1. SameOn(h, g, Safe(S, z, Fr, P) \cap Safe(U, x, H, P)) BY <2>19 DEF SameOn
    <3>2. U \ H = S \ Fr BY <2>14, <2>15
    <3> QED BY <2>13, <2>18, <3>1, <3>2 DEF ResizedTo
  <2>21. size <= x[b] /\ x[b] <= z[b] BY <1>4, <2>17
  <2> QED BY <1>5, <1>7, <2>19, <2>20, <2>21
<1> QED BY <1>6, <1>7

(* A used block takes in the free block behind it.                         *)
LEMMA GrowUsed ==
    ASSUME NEW P, NEW S, NEW z, NEW Fr, NEW h, HeapState(h, S, z, Fr, P),
           NEW b \in Used(S, Fr, P), Nx(z, b) \in Fr
    PROVE  LET g == block_mark_as_used(block_merge_next(h, b).heap, b)
           IN  \E T, y, G : /\ ResizedTo(h, g, S, z, Fr, b, P, T, y, G)
                            /\ y[b] = z[b] + z[Nx(z, b)] + W
                            /\ SameOn(h, g, Safe(S, z, Fr, P))
                            /\ Safe(S, z, Fr, P) \subseteq Safe(T, y, G, P)
<1> DEFINE n == Nx(z, b)
           k == block_remove(h, n)
           g == block_mark_as_used(block_absorb(k, b, n), b)
           T == S \ {n}
           y == AbsorbSizes(S, z, b, n)
           G == Fr \ {n}
<1>1. ListState(h, S, z, Fr, Fr, P) /\ Coalesced(z, Fr) BY DEF HeapState
<1>2. /\ PoolsOK(P) /\ Chain(S, z, P) /\ Fr \subseteq S \ Ends(P) /\ h \in HeapType
      /\ Rep(h, S, z, Fr)
  BY <1>1, StateFacts
<1>3. b \in S /\ b \notin Ends(P) /\ b \notin Fr /\ n \in S /\ n \notin Ends(P) /\ n \in Fr
  BY <1>2 DEF Used
<1>4. block_next(h, b) = n BY <1>1, <1>3, BlockHead
<1>5. block_is_free(h, n) BY <1>1, <1>3, BlockHead
<1>6. block_merge_next(h, b).heap = block_absorb(k, b, n)
  BY <1>4, <1>5 DEF block_merge_next, Result
<1>7. ListState(k, S, z, Fr, Fr \ {n}, P) /\ SameOn(h, k, Safe(S, z, Fr, P))
  BY <1>1, <1>3, BlockRemove
<1> HIDE DEF k
<1>8. k \in HeapType /\ Rep(k, S, z, Fr) BY <1>7, StateFacts
<1>9. Rep(g, T, y, G) /\ Keeps(k, g, Fr, Safe(S, z, Fr, P)) BY <1>2, <1>3, <1>8, Grows
<1>10. AbsorbIs(S, z, b, n, P) BY <1>2, <1>3, ChainAbsorb
<1>11. /\ Chain(T, y, P) /\ y[b] = z[b] + z[n] + W /\ b # n
       /\ \A c \in T : c # b => y[c] = z[c] /\ Nx(y, c) = Nx(z, c)
  BY <1>10 DEF AbsorbIs
<1> HIDE DEF y, g, n
<1>12. /\ G \subseteq T \ Ends(P) /\ G \subseteq Fr /\ \A c \in G : y[c] = z[c] /\ Nx(y, c) = Nx(z, c)
  BY <1>2, <1>3, <1>11
<1>13. ListState(g, T, y, G, G, P) BY <1>7, <1>9, <1>11, <1>12, StateOf
<1>14. Coalesced(y, G) BY <1>1, <1>12 DEF Coalesced
<1>15. T \ G = S \ Fr BY <1>3
<1>16. \A q \in S \ Fr : q # b => y[q] = z[q] BY <1>3, <1>11
<1>17. SameOn(h, g, Safe(S, z, Fr, P))
  <2>1. SameOn(k, g, Safe(S, z, Fr, P)) BY <1>9 DEF Keeps
  <2> QED BY <1>7, <2>1, SameThen
<1>18. Safe(S, z, Fr, P) \subseteq Safe(T, y, G, P)
  <2> SUFFICES ASSUME NEW x \in Safe(S, z, Fr, P) PROVE x \in Safe(T, y, G, P) OBVIOUS
  <2>1. x \in Addr BY DEF Safe
  <2>2. CASE x \in Starts(P) BY <2>1, <2>2 DEF Safe
  <2>3. ASSUME NEW q \in S \ Fr, q + W < x, x <= Nx(z, q) PROVE x \in Safe(T, y, G, P)
    <3>1. CASE q # b
      <4>1. q \in T \ G /\ Nx(y, q) = Nx(z, q) BY <1>11, <1>15, <3>1
      <4> QED BY <2>1, <2>3, <4>1 DEF Safe
    <3>2. CASE q = b
      <4>1. /\ b \in Nat /\ z[b] \in Nat /\ z[n] \in Nat /\ Nx(z, b) = b + W + z[b] /\ W \in Nat
        BY <1>2, <1>3, BlockPlace, Layout
      <4>2. x \in Nat BY <2>1, AddrNat
      <4>3. Nx(y, b) = b + W + (z[b] + z[n] + W) BY <1>11 DEF Nx
      <4>4. x <= Nx(y, b) BY <2>3, <3>2, <4>1, <4>2, <4>3
      <4>5. b \in T \ G BY <1>3, <1>15
      <4> QED BY <2>1, <2>3, <3>2, <4>4, <4>5 DEF Safe
    <3> QED BY <3>1, <3>2
  <2> QED BY <2>2, <2>3 DEF Safe
<1>19. ResizedTo(h, g, S, z, Fr, b, P, T, y, G)
  <2>1. SameOn(h, g, Safe(S, z, Fr, P) \cap Safe(T, y, G, P)) BY <1>17 DEF SameOn
  <2>2. HeapState(g, T, y, G, P) BY <1>13, <1>14 DEF HeapState
  <2> QED BY <1>15, <1>16, <2>1, <2>2 DEF ResizedTo
<1> QED BY <1>6, <1>11, <1>17, <1>18, <1>19 DEF g, n

(* Rounding up to a multiple of a.                                         *)
LEMMA DivUnique ==
    ASSUME NEW a \in Nat \ {0}, NEW q \in Nat, NEW r \in Nat, r < a
    PROVE  (a * q + r) \div a = q
<1> DEFINE x == a * q + r
           d == x \div a
<1>0. \A u, v \in Nat : u * v \in Nat BY SMT
<1>1. a * q \in Nat BY <1>0
<1>2. x \in Nat BY <1>1
<1> HIDE DEF x
<1>3. d \in Nat /\ a * d <= x /\ x < a * d + a BY <1>2, DivFacts
<1> HIDE DEF d
<1>4. \A u, v, w \in Nat : u + 1 <= v => w * u + w <= w * v BY SMT
<1>5. a * d \in Nat BY <1>0, <1>3
<1>6. ~ (q + 1 <= d)
  <2>1. q + 1 <= d => a * q + a <= a * d BY <1>3, <1>4
  <2> QED BY <1>1, <1>2, <1>3, <1>5, <2>1 DEF x
<1>7. ~ (d + 1 <= q)
  <2>1. d + 1 <= q => a * d + a <= a * q BY <1>3, <1>4
  <2> QED BY <1>1, <1>2, <1>3, <1>5, <2>1 DEF x
<1>8. d = q BY <1>3, <1>6, <1>7
<1> QED BY <1>8 DEF d, x

LEMMA MultipleMod ==
    ASSUME NEW a \in Nat \ {0}, NEW q \in Nat
    PROVE  (a * q) % a = 0
<1>1. (a * q + 0) \div a = q BY DivUnique
<1>2. a * q \in Nat BY SMT
<1>3. (a * q) \div a = q BY <1>1, <1>2
<1>4. \A x \in Nat : x % a = x - a * (x \div a) BY SMT
<1> QED BY <1>2, <1>3, <1>4

(* align is a multiple of the word size, as alignments above it are.       *)
LEMMA RoundedUp ==
    ASSUME NEW a \in Nat \ {0}, NEW x \in Nat
    PROVE  /\ RoundUp(x, a) \in Nat /\ x <= RoundUp(x, a) /\ RoundUp(x, a) < x + a
           /\ RoundUp(x, a) % a = 0
           /\ \E q \in Nat : RoundUp(x, a) = a * q
<1> DEFINE q == (x + a - 1) \div a
<1>1. x + a - 1 \in Nat BY SMT
<1>2. q \in Nat /\ a * q <= x + a - 1 /\ x + a - 1 < a * q + a BY <1>1, DivFacts
<1>3. RoundUp(x, a) = q * a BY DEF RoundUp
<1> HIDE DEF q
<1>4. q * a = a * q /\ a * q \in Nat BY <1>2
<1>5. (a * q) % a = 0 BY <1>2, MultipleMod
<1> DEFINE u == a * q
<1>6. u \in Nat /\ u <= x + a - 1 /\ x + a - 1 < u + a BY <1>2, <1>4
<1>7. RoundUp(x, a) = u BY <1>3, <1>4
<1>8. RoundUp(x, a) % a = 0 BY <1>5, <1>7
<1>9. \E t \in Nat : RoundUp(x, a) = a * t BY <1>2, <1>7
<1> HIDE DEF u
<1>10. x <= u /\ u < x + a BY <1>6
<1> QED BY <1>6, <1>7, <1>8, <1>9, <1>10

LEMMA RoundedUpSame ==
    ASSUME NEW a \in Nat \ {0}, NEW q \in Nat
    PROVE  RoundUp(a * q, a) = a * q
<1>1. a * q \in Nat /\ a - 1 \in Nat /\ a - 1 < a BY SMT
<1>2. (a * q + (a - 1)) \div a = q BY <1>1, DivUnique
<1>3. a * q + (a - 1) = a * q + a - 1 BY <1>1
<1>4. RoundUp(a * q, a) = q * a BY <1>2, <1>3 DEF RoundUp
<1> QED BY <1>4

LEMMA MultipleAligned ==
    ASSUME NEW a, Aligned(a), NEW q \in Nat
    PROVE  Aligned(a * q)
<1>1. a \in Nat /\ a % W = 0 BY DEF Aligned
<1>2. a * q \in Nat BY <1>1
<1>3. CASE W = 4
  <2> DEFINE m == a \div 4
  <2>1. a = 4 * m /\ m \in Nat BY <1>1, <1>3
  <2> HIDE DEF m
  <2>2. a * q = 4 * (m * q) /\ m * q \in Nat BY <2>1
  <2> DEFINE v == m * q
  <2>3. a * q = 4 * v /\ v \in Nat BY <2>2
  <2> HIDE DEF v
  <2>4. (4 * v) % 4 = 0 BY <2>3
  <2> QED BY <1>2, <1>3, <2>3, <2>4 DEF Aligned
<1>4. CASE W = 8
  <2> DEFINE m == a \div 8
  <2>1. a = 8 * m /\ m \in Nat BY <1>1, <1>4
  <2> HIDE DEF m
  <2>2. a * q = 8 * (m * q) /\ m * q \in Nat BY <2>1
  <2> DEFINE v == m * q
  <2>3. a * q = 8 * v /\ v \in Nat BY <2>2
  <2> HIDE DEF v
  <2>4. (8 * v) % 8 = 0 BY <2>3
  <2> QED BY <1>2, <1>4, <2>3, <2>4 DEF Aligned
<1> QED BY <1>3, <1>4, Layout

-----------------------------------------------------------------------------
(* An alignment is a multiple of the word size or divides it.              *)
LEMMA AlignKinds ==
    ASSUME NEW align \in Aligns
    PROVE  /\ align \in Nat \ {0}
           /\ align > ALIGN_SIZE => Aligned(align) /\ W <= align
           /\ ~ (align > ALIGN_SIZE) => \A x : Aligned(x) => x % align = 0 /\ RoundUp(x, align) = x
<1>1. PICK k \in 0 .. FL_INDEX_MAX : align = Pow2[k] BY TlsfMemory
<1> DEFINE L == ALIGN_SIZE_LOG2
<1>2. k \in Nat /\ L \in 2 .. 3 /\ L \in Nat /\ ALIGN_SIZE = Pow2[L] /\ W = ALIGN_SIZE
  BY TlsfConstants DEF ALIGN_SIZE, W
<1>3. align \in Nat \ {0}
  <2>1. Pow2[k] \in Nat BY <1>2, Pow2Def
  <2>2. 0 \in Nat /\ 0 <= k BY <1>2
  <2>3. Pow2[0] <= Pow2[k] BY <1>2, <2>2, Pow2Mono
  <2>4. Pow2[0] = 1 BY Pow2Def
  <2> QED BY <1>1, <2>1, <2>3, <2>4
<1>4. ASSUME align > ALIGN_SIZE PROVE Aligned(align) /\ W <= align
  <2>1. ALIGN_SIZE \in Nat BY ClassSizes
  <2>2. L <= k
    <3>1. CASE k <= L
      <4>1. Pow2[k] <= Pow2[L] BY <1>2, <3>1, Pow2Mono
      <4> QED BY <1>1, <1>2, <1>3, <1>4, <2>1, <4>1
    <3> QED BY <1>2, <3>1
  <2>3. k - L \in Nat /\ k = L + (k - L) BY <1>2, <2>2
  <2>4. align = W * Pow2[k - L] /\ Pow2[k - L] \in Nat
    <3> HIDE DEF L
    <3>1. Pow2[L + (k - L)] = Pow2[L] * Pow2[k - L] BY <1>2, <2>3, Pow2Sum
    <3>2. Pow2[k] = Pow2[L] * Pow2[k - L] BY <2>3, <3>1
    <3>3. Pow2[k - L] \in Nat BY <2>3, Pow2Def
    <3> QED BY <1>1, <1>2, <3>2, <3>3
  <2>5. Aligned(align) BY <2>4, MultipleAligned, AlignedWords
  <2>6. W <= align BY <1>2, <1>3, <1>4, <2>1
  <2> QED BY <2>5, <2>6
<1>5. ASSUME ~ (align > ALIGN_SIZE), NEW x, Aligned(x)
      PROVE  x % align = 0 /\ RoundUp(x, align) = x
  <2>1. align \in {1, 2, 4, 8} /\ align <= W
    <3>0. ALIGN_SIZE \in {4, 8} BY ClassSizes
    <3>1. k <= 3
      <4> SUFFICES ASSUME 4 <= k PROVE FALSE BY <1>2
      <4>1. Pow2[4] <= Pow2[k] BY <1>2, Pow2Mono
      <4>2. Pow2[4] = 16
        <5>1. Pow2[0] = 1 /\ Pow2[0 + 1] = 2 * Pow2[0] /\ Pow2[1 + 1] = 2 * Pow2[1]
              /\ Pow2[2 + 1] = 2 * Pow2[2] /\ Pow2[3 + 1] = 2 * Pow2[3]
          BY Pow2Def
        <5>2. 0 + 1 = 1 /\ 1 + 1 = 2 /\ 2 + 1 = 3 /\ 3 + 1 = 4 OBVIOUS
        <5>3. Pow2[1] = 2 BY <5>1, <5>2
        <5>4. Pow2[2] = 4 BY <5>1, <5>2, <5>3
        <5>5. Pow2[3] = 8 BY <5>1, <5>2, <5>4
        <5> QED BY <5>1, <5>2, <5>5
      <4>3. 16 <= align BY <1>1, <4>1, <4>2
      <4>4. align <= ALIGN_SIZE BY <1>3, <1>5, <3>0
      <4> HIDE DEF ALIGN_SIZE
      <4> QED BY <1>3, <3>0, <4>3, <4>4
    <3>2. k \in {0, 1, 2, 3} BY <1>2, <3>1
    <3>3. Pow2[0] = 1 /\ Pow2[0 + 1] = 2 * Pow2[0] /\ Pow2[1 + 1] = 2 * Pow2[1]
          /\ Pow2[2 + 1] = 2 * Pow2[2]
      BY Pow2Def
    <3>4. Pow2[0] = 1 /\ Pow2[1] = 2 /\ Pow2[2] = 4 /\ Pow2[3] = 8 BY <3>3
    <3>5. align \in {1, 2, 4, 8} BY <1>1, <3>2, <3>4
    <3> QED BY <1>2, <1>5, <3>0, <3>5
  <2>2. x \in Nat /\ x % W = 0 /\ W \in {4, 8} BY <1>5, Layout DEF Aligned
  <2>3. CASE align = 1 BY <2>2, <2>3 DEF RoundUp
  <2>4. CASE align = 2
    <3>1. CASE W = 4 BY <2>2, <2>4, <3>1 DEF RoundUp
    <3>2. CASE W = 8 BY <2>2, <2>4, <3>2 DEF RoundUp
    <3> QED BY <2>2, <3>1, <3>2
  <2>5. CASE align = 4
    <3>1. CASE W = 4 BY <2>2, <2>5, <3>1 DEF RoundUp
    <3>2. CASE W = 8 BY <2>2, <2>5, <3>2 DEF RoundUp
    <3> QED BY <2>2, <3>1, <3>2
  <2>6. CASE align = 8
    <3>1. W = 8 BY <2>1, <2>2, <2>6
    <3> QED BY <2>2, <2>6, <3>1 DEF RoundUp
  <2> QED BY <2>1, <2>3, <2>4, <2>5, <2>6
<1> QED BY <1>3, <1>4, <1>5

(* What lies in front of an aligned block is nothing, or room for a block. *)
LEMMA GapFacts ==
    ASSUME NEW align, Aligned(align), W <= align, NEW ptr, Aligned(ptr)
    PROVE  LET gap == Gap(ptr, align)
           IN  /\ Aligned(gap) /\ (ptr + gap) % align = 0
               /\ gap = 0 \/ 4 * W <= gap
               /\ gap <= align + 3 * W
<1> DEFINE near == RoundUp(ptr, align)
           d == near - ptr
           more == IF 4 * W - d > align THEN 4 * W - d ELSE align
           far == RoundUp(near + more, align)
           gap == Gap(ptr, align)
<1>0. W \in Nat \ {0} /\ block_header_size = 4 * W BY Layout
<1>1. align \in Nat \ {0} /\ ptr \in Nat BY <1>0 DEF Aligned
<1>2. gap = IF d \in 1 .. 4 * W - 1 THEN far - ptr ELSE d BY <1>0 DEF Gap
<1>3. near \in Nat /\ ptr <= near /\ near < ptr + align /\ near % align = 0 BY <1>1, RoundedUp
<1>4. PICK q \in Nat : near = align * q BY <1>1, RoundedUp
<1>5. Aligned(near) BY <1>4, MultipleAligned
<1>6. Aligned(d) /\ d \in Nat /\ d < align BY <1>1, <1>3, <1>5, AlignedDiff
<1> HIDE DEF near
<1>7. CASE d \notin 1 .. 4 * W - 1
  <2>1. gap = d BY <1>2, <1>7
  <2>2. d = 0 \/ 4 * W <= d BY <1>0, <1>6, <1>7
  <2>3. d <= align + 3 * W BY <1>0, <1>1, <1>6
  <2>4. ptr + d = near BY <1>1, <1>3
  <2> QED BY <1>3, <1>6, <2>1, <2>2, <2>3, <2>4
<1>8. CASE d \in 1 .. 4 * W - 1 /\ 4 * W - d > align
  <2>1. more = 4 * W - d BY <1>8
  <2>2. near + more = ptr + 4 * W /\ ptr + 4 * W \in Nat BY <1>0, <1>1, <1>3, <2>1
  <2> DEFINE u == RoundUp(ptr + 4 * W, align)
  <2>3. gap = u - ptr BY <1>2, <1>8, <2>2
  <2>4. u \in Nat /\ ptr + 4 * W <= u /\ u < (ptr + 4 * W) + align /\ u % align = 0
    BY <1>1, <2>2, RoundedUp
  <2>5. PICK m \in Nat : u = align * m BY <1>1, <2>2, RoundedUp
  <2>6. Aligned(u) BY <2>5, MultipleAligned
  <2> HIDE DEF u
  <2>7. ptr <= u BY <1>0, <1>1, <2>4
  <2>8. Aligned(u - ptr) BY <2>6, <2>7, AlignedDiff
  <2>9. u - ptr \in Nat /\ 4 * W <= u - ptr /\ u - ptr < align + 4 * W /\ ptr + (u - ptr) = u
    BY <1>0, <1>1, <2>4, <2>7
  <2>10. Aligned(align + 4 * W) BY AlignedWords, AlignedSum
  <2>11. (u - ptr) + W <= align + 4 * W BY <2>8, <2>9, <2>10, AlignedGap
  <2>12. u - ptr <= align + 3 * W BY <1>0, <1>1, <2>9, <2>11
  <2> QED BY <2>3, <2>4, <2>8, <2>9, <2>12
<1>9. CASE d \in 1 .. 4 * W - 1 /\ ~ (4 * W - d > align)
  <2>1. more = align BY <1>9
  <2>2. near + align = align * (q + 1) /\ q + 1 \in Nat BY <1>1, <1>4
  <2>3. far = near + align BY <1>1, <2>1, <2>2, RoundedUpSame
  <2>4. gap = (near + align) - ptr BY <1>2, <1>9, <2>3
  <2>5. (near + align) % align = 0 BY <1>1, <2>2, MultipleMod
  <2>6. (near + align) - ptr = d + align /\ ptr + (d + align) = near + align BY <1>1, <1>3
  <2>7. Aligned(d + align) BY <1>6, AlignedSum
  <2> HIDE DEF d
  <2>8. 4 * W <= d + align BY <1>0, <1>1, <1>6, <1>9
  <2>9. d < 4 * W BY <1>0, <1>6, <1>9
  <2>10. d + W <= 4 * W BY <1>6, <2>9, AlignedGap, AlignedWords
  <2>11. d + align <= align + 3 * W BY <1>0, <1>1, <1>6, <2>10
  <2> QED BY <2>4, <2>5, <2>6, <2>7, <2>8, <2>11
<1> QED BY <1>7, <1>8, <1>9

(* The invariant implies the soundness TLC checks by walking the memory.   *)
LEMMA DescribedSound ==
    ASSUME NEW S, NEW z, NEW Fr, Describes(heap, live, pools, S, z, Fr)
    PROVE  HeapSound /\ FreeBlocks(heap) = Fr
BY StateIsSound DEF Describes

(* b was taken out of its list for a request.                              *)
TakenOut(h, g, S, z, Fr, b, size, P) ==
    /\ Loose(g, S, z, Fr, b, P) /\ Nx(z, b) \notin Fr /\ size <= z[b]
    /\ SameOn(h, g, Safe(S, z, Fr, P))

(* block_locate_free.                                                      *)
LEMMA Locate ==
    ASSUME NEW S, NEW z, NEW Fr, Describes(heap, live, pools, S, z, Fr),
           NEW size, Aligned(size)
    PROVE  LET f == block_locate_free(heap, size) IN
           \/ f = Result(heap, NULL)
           \/ TakenOut(heap, f.heap, S, z, Fr, f.block, size, pools) /\ f.block # NULL
<1> DEFINE c == mapping_search(size)
           s == search_suitable_block(heap, c)
           f == block_locate_free(heap, size)
           P == pools
<1>0. HeapSound /\ FreeBlocks(heap) = Fr BY DescribedSound
<1>1. ListState(heap, S, z, Fr, Fr, P) /\ Coalesced(z, Fr) BY DEF Describes, HeapState
<1>2. size \in Nat /\ size % ALIGN_SIZE = 0 BY Layout DEF Aligned
<1>3. f = IF size = 0 \/ c.fl >= FL_INDEX_COUNT \/ s.block = NULL THEN Result(heap, NULL)
          ELSE Result(remove_free_block(heap, s.block, s.class), s.block)
  BY DEF block_locate_free
<1>4. CASE size = 0 \/ c.fl >= FL_INDEX_COUNT \/ s.block = NULL BY <1>3, <1>4
<1>5. CASE ~ (size = 0 \/ c.fl >= FL_INDEX_COUNT \/ s.block = NULL)
  <2>1. c \in Classes
    <3>1. size + SearchRound(size) \in Nat BY <1>2, RoundType
    <3> QED BY <3>1, InsertType DEF mapping_search
  <2>2. c.fl \in Nat BY <2>1 DEF Classes
  <2>3. FL_INDEX_COUNT \in Nat BY TlsfConstants DEF FL_INDEX_COUNT, FL_INDEX_SHIFT
  <2>4. ~ (c.fl >= FL_INDEX_COUNT) BY <1>5
  <2> HIDE DEF c
  <2>5. c.fl \in FL BY <2>2, <2>3, <2>4 DEF FL
  <2>6. Suits(s.block, s.class, c) BY <1>0, <1>5, <2>1, <2>5, SearchFinds
  <2> DEFINE b == s.block
  <2>7. b \in Fr /\ s.class = mapping_insert(block_size(heap, b))
        /\ NotBefore(mapping_insert(block_size(heap, b)), c)
    BY <1>0, <2>6 DEF Suits
  <2> HIDE DEF s
  <2>8. block_size(heap, b) = z[b] /\ s.class = Class(z, b) BY <1>1, <2>7, ListFacts
  <2>9. block_size(heap, b) \in Nat BY <1>0, <2>7, BlockHasBit
  <2>10. size <= z[b] BY <1>2, <2>7, <2>8, <2>9, SearchLargeEnough DEF c
  <2>11. f.heap = remove_free_block(heap, b, Class(z, b)) /\ f.block = b /\ b # NULL
    BY <1>3, <1>5, <2>8 DEF Result
  <2> HIDE DEF b, f
  <2>12. ListState(f.heap, S, z, Fr, Fr \ {b}, P) /\ SameOn(heap, f.heap, Safe(S, z, Fr, P))
    BY <1>1, <2>7, <2>11, Remove
  <2>13. Coalesced(z, Fr \ {b}) /\ Nx(z, b) \notin Fr BY <1>1, <2>7 DEF Coalesced
  <2> QED BY <2>7, <2>10, <2>11, <2>12, <2>13 DEF TakenOut, Loose, f
<1> QED BY <1>4, <1>5

LEMMA HandedAfter ==
    ASSUME NEW P, NEW S, NEW z, NEW Fr, NEW T, NEW y, NEW G, NEW U, NEW x, NEW K,
           NEW h, NEW g, NEW k, NEW b, NEW size,
           UsedKept(S, z, Fr, T, y, G), SameOn(h, g, Safe(S, z, Fr, P)),
           HandedTo(g, k, T, y, G, b, size, P, U, x, K)
    PROVE  HandedTo(h, k, S, z, Fr, b, size, P, U, x, K)
<1>1. Safe(S, z, Fr, P) \subseteq Safe(T, y, G, P) BY KeptSafe
<1>2. SameOn(g, k, Safe(T, y, G, P)) BY DEF HandedTo
<1>3. SameOn(h, k, Safe(S, z, Fr, P)) BY <1>1, <1>2, SameThen
<1> QED BY <1>3 DEF HandedTo, UsedKept

(* A request is rounded up to a multiple of the word size that is as large *)
(* as asked, or to 0.                                                      *)
LEMMA AdjustAligned ==
    ASSUME NEW align, Aligned(align), align # 0, NEW x \in Nat, x + align <= SizeValues
    PROVE  LET a == adjust_request_size(x, align)
           IN  Aligned(a) /\ a < block_size_max /\ (a # 0 => x <= a /\ 3 * W <= a)
<1> DEFINE u == RoundUp(x, align)
           a == adjust_request_size(x, align)
<1>1. align \in Nat \ {0} BY DEF Aligned
<1>2. u \in Nat /\ x <= u BY <1>1, RoundedUp
<1>3. PICK q \in Nat : u = align * q BY <1>1, RoundedUp
<1>4. Aligned(u) BY <1>3, MultipleAligned
<1>5. a = IF x = 0 \/ u >= block_size_max THEN 0
          ELSE IF u < block_size_min THEN block_size_min ELSE u
  BY <1>1, NoWrap DEF adjust_request_size
<1> HIDE DEF u
<1>6. block_size_min = 3 * W /\ Aligned(3 * W) /\ Aligned(0) /\ W \in Nat
      /\ block_size_max \in Nat /\ 0 < block_size_max /\ 3 * W < block_size_max
  BY Layout, AlignedWords, Widths
<1>7. CASE x = 0 \/ u >= block_size_max BY <1>5, <1>6, <1>7
<1>8. CASE ~ (x = 0 \/ u >= block_size_max) /\ u < block_size_min
  <2>1. a = 3 * W BY <1>5, <1>6, <1>8
  <2>2. x <= 3 * W BY <1>2, <1>6, <1>8
  <2> QED BY <1>6, <2>1, <2>2
<1>9. CASE ~ (x = 0 \/ u >= block_size_max) /\ ~ (u < block_size_min)
  <2>1. a = u BY <1>5, <1>9
  <2>2. 3 * W <= u BY <1>2, <1>6, <1>9
  <2>3. u < block_size_max BY <1>2, <1>6, <1>9
  <2> QED BY <1>2, <1>4, <2>1, <2>2, <2>3
<1> QED BY <1>7, <1>8, <1>9

LEMMA AdjustRequest ==
    ASSUME NEW size \in Requests
    PROVE  LET a == adjust_request_size(size, ALIGN_SIZE)
           IN  Aligned(a) /\ a < block_size_max /\ (a # 0 => size <= a /\ 3 * W <= a)
<1>1. ALIGN_SIZE \in Nat \ {0} /\ ALIGN_SIZE = W /\ Aligned(ALIGN_SIZE)
  BY Layout, AlignedWords
<1>2. size \in Nat /\ size + ALIGN_SIZE <= SizeValues BY <1>1, Widths DEF Requests
<1> QED BY <1>1, <1>2, AdjustAligned

(* The block of a request that was met.                                    *)
Gives(h, r, S, z, Fr, size, P, b, T, y, G) ==
    r.ptr = b + 2 * W /\ HandedTo(h, r.heap, S, z, Fr, b, size, P, T, y, G)

(* tlsf_malloc returns NULL and changes nothing, or hands out a block of   *)
(* at least the size asked for.                                            *)
LEMMA MallocGives ==
    ASSUME NEW S, NEW z, NEW Fr, Describes(heap, live, pools, S, z, Fr), NEW size \in Requests
    PROVE  LET r == tlsf_malloc(heap, size)
               a == adjust_request_size(size, ALIGN_SIZE)
           IN  \/ r.ptr = NULL /\ r.heap = heap
               \/ a # 0 /\ \E b, T, y, G : Gives(heap, r, S, z, Fr, a, pools, b, T, y, G)
<1> DEFINE r == tlsf_malloc(heap, size)
           a == adjust_request_size(size, ALIGN_SIZE)
           f == block_locate_free(heap, a)
           P == pools
<1>1. Aligned(ALIGN_SIZE) /\ ALIGN_SIZE # 0 BY Layout, AlignedWords
<1>2. Aligned(a) /\ (a # 0 => size <= a /\ 3 * W <= a) BY AdjustRequest
<1>3. r = block_prepare_used(f.heap, f.block, a) BY DEF tlsf_malloc
<1>4. \/ f = Result(heap, NULL)
      \/ TakenOut(heap, f.heap, S, z, Fr, f.block, a, P) /\ f.block # NULL
  BY <1>2, Locate
<1>5. CASE f = Result(heap, NULL)
  <2>1. f.heap = heap /\ f.block = NULL BY <1>5 DEF Result
  <2> HIDE DEF f
  <2> QED BY <1>3, <2>1 DEF block_prepare_used
<1>6. CASE f # Result(heap, NULL)
  <2>0. a # 0 BY <1>6 DEF block_locate_free
  <2> HIDE DEF f, a
  <2>1. TakenOut(heap, f.heap, S, z, Fr, f.block, a, P) BY <1>4, <1>6
  <2>2. /\ Loose(f.heap, S, z, Fr, f.block, P) /\ Nx(z, f.block) \notin Fr /\ a <= z[f.block]
        /\ SameOn(heap, f.heap, Safe(S, z, Fr, P))
    BY <2>1 DEF TakenOut
  <2>3. r.ptr = f.block + 2 * W BY <1>2, <1>3, <2>0, <2>2, PrepareUsed
  <2>4. \E T, y, G : HandedTo(f.heap, r.heap, S, z, Fr, f.block, a, P, T, y, G)
    BY <1>2, <1>3, <2>0, <2>2, PrepareUsed
  <2>5. PICK T, y, G : HandedTo(f.heap, r.heap, S, z, Fr, f.block, a, P, T, y, G) BY <2>4
  <2>6. UsedKept(S, z, Fr, S, z, Fr) BY DEF UsedKept
  <2>7. HandedTo(heap, r.heap, S, z, Fr, f.block, a, P, T, y, G)
    BY <2>2, <2>5, <2>6, HandedAfter
  <2>8. Gives(heap, r, S, z, Fr, a, P, f.block, T, y, G) BY <2>3, <2>7 DEF Gives
  <2> QED BY <2>0, <2>8 DEF a
<1> QED BY <1>5, <1>6

(* From a block that was taken out to the one that is handed out.          *)
LEMMA TakenGives ==
    ASSUME NEW P, NEW S, NEW z, NEW Fr, NEW T, NEW y, NEW G, NEW h, NEW g, NEW b,
           Loose(g, T, y, G, b, P), Nx(y, b) \notin G, NEW a, Aligned(a), 3 * W <= a, a <= y[b],
           UsedKept(S, z, Fr, T, y, G), SameOn(h, g, Safe(S, z, Fr, P))
    PROVE  LET r == block_prepare_used(g, b, a)
           IN  /\ r.ptr = b + 2 * W
               /\ \E U, x, K : Gives(h, r, S, z, Fr, a, P, b, U, x, K)
<1> DEFINE r == block_prepare_used(g, b, a)
<1>1. r.ptr = b + 2 * W BY PrepareUsed
<1>2. \E U, x, K : HandedTo(g, r.heap, T, y, G, b, a, P, U, x, K) BY PrepareUsed
<1> HIDE DEF r
<1>3. PICK U, x, K : HandedTo(g, r.heap, T, y, G, b, a, P, U, x, K) BY <1>2
<1>4. HandedTo(h, r.heap, S, z, Fr, b, a, P, U, x, K) BY <1>3, HandedAfter
<1>5. Gives(h, r, S, z, Fr, a, P, b, U, x, K) BY <1>1, <1>4 DEF Gives
<1> QED BY <1>1, <1>5 DEF r

LEMMA AlignLimit ==
    ASSUME NEW align \in Aligns
    PROVE  align <= block_size_max
<1>1. PICK k \in 0 .. FL_INDEX_MAX : align = Pow2[k] BY TlsfMemory
<1> QED BY <1>1, TlsfConstants, Pow2Mono DEF block_size_max

(* No gap when the block is where it should be.                            *)
LEMMA NoGap ==
    ASSUME NEW align \in Aligns, ~ (align > ALIGN_SIZE), NEW ptr, Aligned(ptr)
    PROVE  Gap(ptr, align) = 0 /\ ptr % align = 0
<1>1. RoundUp(ptr, align) = ptr /\ ptr % align = 0 /\ ptr \in Nat BY AlignKinds DEF Aligned
<1>2. ptr - ptr = 0 /\ 0 \notin 1 .. block_header_size - 1 BY <1>1
<1> QED BY <1>1, <1>2 DEF Gap

(* tlsf_memalign does the same, and the block is aligned: the gap in front *)
(* of it went back to its list.                                            *)
LEMMA MemalignGives ==
    ASSUME NEW S, NEW z, NEW Fr, Describes(heap, live, pools, S, z, Fr), NEW size \in Requests,
           NEW align \in Aligns
    PROVE  LET r == tlsf_memalign(heap, align, size)
               a == adjust_request_size(size, ALIGN_SIZE)
           IN  \/ r.ptr = NULL /\ r.heap = heap
               \/ /\ a # 0 /\ r.ptr % align = 0
                  /\ \E b, T, y, G : Gives(heap, r, S, z, Fr, a, pools, b, T, y, G)
<1> DEFINE r == tlsf_memalign(heap, align, size)
           a == adjust_request_size(size, ALIGN_SIZE)
           w == adjust_request_size(a + align + block_header_size, align)
           n == IF a # 0 /\ align > ALIGN_SIZE THEN w ELSE a
           f == block_locate_free(heap, n)
           gap == Gap(block_to_ptr(f.block), align)
           g == IF f.block # NULL /\ gap # 0
                THEN block_trim_free_leading(f.heap, f.block, gap) ELSE f
           P == pools
<1>1. Aligned(ALIGN_SIZE) /\ ALIGN_SIZE # 0 /\ ALIGN_SIZE = W /\ block_header_size = 4 * W
      /\ W \in Nat
  BY Layout, AlignedWords
<1>2. Aligned(a) /\ a < block_size_max /\ (a # 0 => size <= a /\ 3 * W <= a)
  BY AdjustRequest
<1>3. r = block_prepare_used(g.heap, g.block, a) BY DEF tlsf_memalign
<1>4. /\ align \in Nat \ {0} /\ align <= block_size_max
      /\ align > ALIGN_SIZE => Aligned(align) /\ W <= align
  BY AlignKinds, AlignLimit
<1> HIDE DEF a
<1>5. /\ a \in Nat /\ a + align + block_header_size \in Nat
      /\ a + align + block_header_size + align <= SizeValues
  <2>1. a \in Nat BY <1>2 DEF Aligned
  <2> QED BY <1>1, <1>2, <1>4, <2>1, Widths
<1>6. align > ALIGN_SIZE => Aligned(w) /\ (w # 0 => a + align + block_header_size <= w)
  BY <1>4, <1>5, AdjustAligned
<1>7. Aligned(n) BY <1>2, <1>6
<1>8. \/ f = Result(heap, NULL)
      \/ TakenOut(heap, f.heap, S, z, Fr, f.block, n, P) /\ f.block # NULL
  BY <1>7, Locate
<1>9. CASE f = Result(heap, NULL)
  <2>1. f.heap = heap /\ f.block = NULL BY <1>9 DEF Result
  <2>2. g = f BY <2>1
  <2> HIDE DEF f, g
  <2> QED BY <1>3, <2>1, <2>2 DEF block_prepare_used
<1>10. CASE f # Result(heap, NULL)
  <2>0. n # 0 BY <1>10 DEF block_locate_free
  <2>1. a # 0 BY <2>0
  <2> DEFINE b == f.block
  <2>2. /\ Loose(f.heap, S, z, Fr, b, P) /\ Nx(z, b) \notin Fr /\ n <= z[b]
        /\ SameOn(heap, f.heap, Safe(S, z, Fr, P)) /\ b # NULL
    BY <1>8, <1>10 DEF TakenOut
  <2> HIDE DEF f, w
  <2>3. /\ ListState(f.heap, S, z, Fr, Fr \ {b}, P) /\ b \in Fr BY <2>2 DEF Loose
  <2>4. PoolsOK(P) /\ Chain(S, z, P) /\ b \in S BY <2>3, StateFacts
  <2>5. Aligned(b) /\ b \in Nat /\ z[b] \in Nat BY <2>4, BlockPlace
  <2>6. Aligned(b + 2 * W) /\ block_to_ptr(b) = b + 2 * W
    BY <2>5, AlignedSum, AlignedWords, Layout DEF block_to_ptr
  <2>7. UsedKept(S, z, Fr, S, z, Fr) BY DEF UsedKept
  <2>8. 3 * W <= a /\ a \in Nat BY <1>2, <1>5, <2>1
  <2>9. ASSUME gap = 0, a <= z[b], (b + 2 * W) % align = 0
        PROVE  r.ptr % align = 0 /\ \E e, T, y, G : Gives(heap, r, S, z, Fr, a, P, e, T, y, G)
    <3>1. g = f BY <2>9
    <3>2. r = block_prepare_used(f.heap, b, a) BY <1>3, <3>1
    <3> HIDE DEF r, b
    <3>3. r.ptr = b + 2 * W /\ \E T, y, G : Gives(heap, r, S, z, Fr, a, P, b, T, y, G)
      BY <1>2, <2>2, <2>7, <2>8, <2>9, <3>2, TakenGives
    <3> QED BY <2>9, <3>3
  <2>10. CASE ~ (align > ALIGN_SIZE)
    <3>1. n = a BY <2>10
    <3>2. gap = 0 /\ (b + 2 * W) % align = 0 BY <2>6, <2>10, NoGap
    <3> QED BY <2>1, <2>2, <2>9, <3>1, <3>2 DEF a
  <2>11. CASE align > ALIGN_SIZE
    <3>1. n = w /\ a + align + 4 * W <= w /\ Aligned(w) BY <1>1, <1>6, <2>0, <2>1, <2>11
    <3>2. w \in Nat /\ a + align + 4 * W <= z[b]
      <4>1. w \in Nat BY <3>1 DEF Aligned
      <4>2. w <= z[b] BY <2>2, <3>1
      <4> QED BY <1>1, <1>4, <1>5, <2>5, <3>1, <4>1, <4>2
    <3>3. /\ Aligned(gap) /\ (b + 2 * W + gap) % align = 0
          /\ gap = 0 \/ 4 * W <= gap
          /\ gap <= align + 3 * W
      BY <1>4, <2>6, <2>11, GapFacts
    <3>4. gap \in Nat BY <3>3 DEF Aligned
    <3>5. CASE gap = 0
      <4>1. b + 2 * W + gap = b + 2 * W BY <1>1, <2>5, <3>5
      <4>2. (b + 2 * W) % align = 0 BY <3>3, <4>1
      <4>3. a <= z[b] BY <1>1, <1>4, <2>5, <2>8, <3>2
      <4> QED BY <2>1, <2>9, <3>5, <4>2, <4>3 DEF a
    <3>6. CASE gap # 0
      <4>1. g = block_trim_free_leading(f.heap, b, gap) BY <2>2, <3>6
      <4> HIDE DEF b, gap, g
      <4>2. 4 * W <= gap /\ gap + 4 * W <= z[b] /\ a <= z[b] - gap
        BY <1>1, <1>4, <2>5, <2>8, <3>2, <3>3, <3>4, <3>6
      <4>3. Coalesced(z, Fr) BY DEF Describes, HeapState
      <4>4. g.block = b + gap BY <2>2, <3>3, <4>1, <4>2, <4>3, TrimLeading
      <4>5. \E T, y, G : LedTo(f.heap, g.heap, S, z, Fr, b, gap, P, T, y, G)
        BY <2>2, <3>3, <4>1, <4>2, <4>3, TrimLeading
      <4>6. PICK T, y, G : LedTo(f.heap, g.heap, S, z, Fr, b, gap, P, T, y, G) BY <4>5
      <4> DEFINE e == b + gap
      <4>7. /\ Loose(g.heap, T, y, G, e, P) /\ Nx(y, e) \notin G /\ y[e] = z[b] - gap
            /\ UsedKept(S, z, Fr, T, y, G) /\ SameOn(f.heap, g.heap, Safe(S, z, Fr, P))
        BY <4>6 DEF LedTo
      <4>8. SameOn(heap, g.heap, Safe(S, z, Fr, P)) BY <2>2, <4>7, SameThen
      <4>9. r = block_prepare_used(g.heap, e, a) /\ a <= y[e] BY <1>3, <4>2, <4>4, <4>7
      <4>10. e + 2 * W = b + 2 * W + gap BY <1>1, <2>5, <3>4
      <4> HIDE DEF e, r
      <4>11. r.ptr = e + 2 * W /\ \E U, x, K : Gives(heap, r, S, z, Fr, a, P, e, U, x, K)
        BY <1>2, <2>8, <4>7, <4>8, <4>9, TakenGives
      <4>12. r.ptr % align = 0 BY <3>3, <4>10, <4>11
      <4> QED BY <2>1, <4>11, <4>12 DEF a, r
    <3> QED BY <3>5, <3>6
  <2> QED BY <2>10, <2>11
<1> QED BY <1>9, <1>10

(* The words of headers, of links and of the fields behind free blocks are *)
(* the same: so are the blocks and the lists.                              *)
LEMMA StateSame ==
    ASSUME NEW P, NEW S, NEW z, NEW Fr, NEW F, NEW h, ListState(h, S, z, Fr, F, P),
           NEW g \in HeapType, SameLists(h, g, F),
           \A b \in S : g.mem[b + W] = h.mem[b + W],
           \A a \in Fr : g.mem[Nx(z, a)] = h.mem[Nx(z, a)]
    PROVE  ListState(g, S, z, Fr, F, P)
<1>1. /\ PoolsOK(P) /\ Chain(S, z, P) /\ Fr \subseteq S \ Ends(P)
      /\ Rep(h, S, z, Fr) /\ F \subseteq Fr /\ Lists(h, F, z)
  BY StateFacts
<1>2. Rep(g, S, z, Fr) BY <1>1, RepKept
<1>3. Lists(g, F, z) BY <1>1, ListsSame
<1> QED BY <1>1, <1>2, <1>3 DEF ListState

(* The words of block b that are its user's.                               *)
Own(z, b) == {x \in Nat : b + W < x /\ x <= Nx(z, b)}

(* What one user owns is apart from other users' words and from headers    *)
(* and links.                                                              *)
LEMMA OwnApart ==
    ASSUME NEW P, PoolsOK(P), NEW S, NEW z, Chain(S, z, P), NEW a \in S, NEW b \in S, a # b
    PROVE  /\ Own(z, a) \cap Own(z, b) = {}
           /\ a + W \notin Own(z, b) /\ b + W \notin Own(z, b)
           /\ a \notin Ends(P) =>
                 Nx(z, a) \notin Own(z, b) /\ a + 2 * W \notin Own(z, b) /\ a + 3 * W \notin Own(z, b)
<1>1. /\ a \in Nat /\ b \in Nat /\ z[a] \in Nat /\ z[b] \in Nat /\ Nx(z, a) \in Nat
      /\ Nx(z, a) = a + W + z[a] /\ (a \notin Ends(P) => a + 4 * W <= Nx(z, a))
  BY BlockPlace
<1>2. W \in Nat \ {0} BY Layout
<1>3. ASSUME NEW x \in Nat, a < x, x <= Nx(z, a), x \in Own(z, b) PROVE FALSE
  <2>1. b + W < x /\ x <= Nx(z, b) BY <1>3 DEF Own
  <2>2. b < x BY <1>1, <1>2, <1>3, <2>1
  <2> QED BY <1>3, <2>1, <2>2, Apart
<1>4. Own(z, a) \cap Own(z, b) = {}
  <2> SUFFICES ASSUME NEW x \in Own(z, a), x \in Own(z, b) PROVE FALSE OBVIOUS
  <2>1. x \in Nat /\ a + W < x /\ x <= Nx(z, a) BY DEF Own
  <2>2. a < x BY <1>1, <1>2, <2>1
  <2> QED BY <1>3, <2>1, <2>2
<1>5. a + W \notin Own(z, b)
  <2>1. a + W \in Nat /\ a < a + W /\ a + W <= Nx(z, a) BY <1>1, <1>2
  <2> QED BY <1>3, <2>1
<1>6. b + W \notin Own(z, b) BY <1>1, <1>2 DEF Own
<1>7. ASSUME a \notin Ends(P)
      PROVE Nx(z, a) \notin Own(z, b) /\ a + 2 * W \notin Own(z, b) /\ a + 3 * W \notin Own(z, b)
  <2>1. /\ a < Nx(z, a) /\ Nx(z, a) <= Nx(z, a)
        /\ a + 2 * W \in Nat /\ a < a + 2 * W /\ a + 2 * W <= Nx(z, a)
        /\ a + 3 * W \in Nat /\ a < a + 3 * W /\ a + 3 * W <= Nx(z, a)
    BY <1>1, <1>2, <1>7
  <2> QED BY <1>1, <1>3, <2>1
<1> QED BY <1>4, <1>5, <1>6, <1>7

(* A user who writes to its own block disturbs nothing of the allocator.   *)
LEMMA UserWrites ==
    ASSUME NEW P, NEW S, NEW z, NEW Fr, NEW h, HeapState(h, S, z, Fr, P),
           NEW b \in S, b \notin Fr, NEW g, NEW A, Wrote(h, g, A), A \subseteq Own(z, b)
    PROVE  /\ HeapState(g, S, z, Fr, P)
           /\ SameOn(h, g, Starts(P))
           /\ \A q \in S \ Fr : q # b => SameOn(h, g, Own(z, q) \cap Addr)
<1>1. ListState(h, S, z, Fr, Fr, P) /\ Coalesced(z, Fr) BY DEF HeapState
<1>2. PoolsOK(P) /\ Chain(S, z, P) /\ Fr \subseteq S \ Ends(P) BY <1>1, StateFacts
<1>3. /\ g \in HeapType
      /\ g.fl_bitmap = h.fl_bitmap /\ g.sl_bitmap = h.sl_bitmap /\ g.blocks = h.blocks
      /\ \A x \in Addr : x \notin A => g.mem[x] = h.mem[x]
  BY DEF Wrote
<1>4. ASSUME NEW c \in S PROVE g.mem[c + W] = h.mem[c + W]
  <2>1. c + W \in Addr BY <1>2, BlockPlace
  <2>2. c + W \notin Own(z, b)
    <3>1. CASE c # b BY <1>2, <3>1, OwnApart
    <3>2. CASE c = b
      <4>1. b \in Nat /\ W \in Nat BY <1>2, BlockPlace, Layout
      <4> QED BY <3>2, <4>1 DEF Own
    <3> QED BY <3>1, <3>2
  <2> QED BY <1>3, <2>1, <2>2
<1>5. ASSUME NEW a \in Fr
      PROVE  /\ g.mem[Nx(z, a)] = h.mem[Nx(z, a)]
             /\ g.mem[a + 2 * W] = h.mem[a + 2 * W] /\ g.mem[a + 3 * W] = h.mem[a + 3 * W]
  <2>1. a \in S /\ a \notin Ends(P) /\ a # b BY <1>2
  <2>2. Nx(z, a) \in Addr /\ a + 2 * W \in Addr /\ a + 3 * W \in Addr BY <1>2, <2>1, BlockPlace
  <2>3. Nx(z, a) \notin Own(z, b) /\ a + 2 * W \notin Own(z, b) /\ a + 3 * W \notin Own(z, b)
    BY <1>2, <2>1, OwnApart
  <2> QED BY <1>3, <2>2, <2>3
<1>6. SameLists(h, g, Fr) BY <1>3, <1>5 DEF SameLists
<1>7. ListState(g, S, z, Fr, Fr, P) BY <1>1, <1>3, <1>4, <1>5, <1>6, StateSame
<1>8. ASSUME NEW x \in Starts(P) PROVE g.mem[x] = h.mem[x]
  <2>1. PICK pool \in P : x = Lo(pool) BY DEF Starts
  <2>2. Aligned(Lo(pool)) /\ Lo(pool) + 4 * W <= Hi(pool) /\ Aligned(Hi(pool))
        /\ \A v : Aligned(v) /\ Lo(pool) <= v /\ v <= Hi(pool) + W => v \in Addr
    BY <1>2, Pools
  <2>3. Lo(pool) <= Lo(pool) /\ Lo(pool) <= Hi(pool) + W
    <3>1. Lo(pool) \in Nat /\ Hi(pool) \in Nat /\ W \in Nat BY <2>2, Layout DEF Aligned
    <3> QED BY <2>2, <3>1
  <2>4. x \in Addr BY <2>1, <2>2, <2>3
  <2>5. x \notin Own(z, b)
    <3> SUFFICES ASSUME x \in Own(z, b) PROVE FALSE OBVIOUS
    <3>1. x \in Nat /\ b + W < x /\ x <= Nx(z, b) BY DEF Own
    <3>0. PoolsOK(P) /\ Chain(S, z, P) BY <1>2
    <3>2. b \in Nat BY <3>0, BlockPlace
    <3>4. W \in Nat BY Layout
    <3>3. b < x BY <3>1, <3>2, <3>4
    <3> QED BY <1>2, <3>1, <3>3, StartApart
  <2> QED BY <1>3, <2>4, <2>5
<1>9. ASSUME NEW q \in S \ Fr, q # b PROVE SameOn(h, g, Own(z, q) \cap Addr)
  <2>1. Own(z, q) \cap Own(z, b) = {} BY <1>2, <1>9, OwnApart
  <2> QED BY <1>3, <2>1 DEF SameOn
<1> QED BY <1>1, <1>7, <1>8, <1>9 DEF HeapState, SameOn

(* The words of Needed, for one block and for the users.                   *)
FieldsOf(h, b) ==
    IF block_is_free(h, b)
    THEN {b + W, b + 2 * W, b + 3 * W, block_next(h, b), block_next(h, b) + W}
    ELSE {b + W, block_next(h, b) + W}

LEMMA NeededIs ==
    ASSUME NEW h, NEW l, NEW P
    PROVE  Needed(h, l, P) = (UNION {FieldsOf(h, b) : b \in Physical(h, P)})
                               \cup (UNION {WordsFrom(p, l[p].n * W) : p \in DOMAIN l})
                               \cup {pool - W : pool \in P}
BY DEF Needed, FieldsOf

(* A block in use or free lies in one pool.                                *)
LEMMA InOnePool ==
    ASSUME NEW P, PoolsOK(P), NEW S, NEW z, Chain(S, z, P), NEW b \in S, b \notin Ends(P)
    PROVE  \E pool \in P : Lo(pool) <= b /\ Nx(z, b) <= Hi(pool)
<1>1. PICK pool \in P : Lo(pool) <= b /\ b <= Hi(pool) BY DEF Chain
<1>2. b \in InPool(S, pool) BY <1>1 DEF InPool
<1>3. Nx(z, b) \in InPool(S, pool) BY <1>2, LastInPool
<1> QED BY <1>1, <1>3 DEF InPool

(* The end of a pool has a block in front of it.                           *)
LEMMA EndHasFront ==
    ASSUME NEW P, PoolsOK(P), NEW S, NEW z, Chain(S, z, P), NEW b \in S, b \in Ends(P)
    PROVE  \E a \in S \ Ends(P) : Nx(z, a) = b
<1>1. b \in Starts(P) \/ \E a \in S \ Ends(P) : Nx(z, a) = b BY DEF Chain
<1>2. ASSUME NEW pool \in P, b = Lo(pool) PROVE FALSE
  <2>1. Aligned(Lo(pool)) /\ Aligned(Hi(pool)) /\ Lo(pool) + 4 * W <= Hi(pool) BY Pools
  <2>2. Lo(pool) \in Nat /\ Hi(pool) \in Nat /\ W \in Nat \ {0} BY <2>1, Layout DEF Aligned
  <2>3. b \in InPool(S, pool)
    <3>1. Lo(pool) <= Lo(pool) /\ Lo(pool) <= Hi(pool) BY <2>1, <2>2
    <3> QED BY <1>2, <3>1 DEF InPool
  <2>4. b = Hi(pool) BY <2>3, LastInPool
  <2> QED BY <1>2, <2>1, <2>2, <2>4
<1> QED BY <1>1, <1>2 DEF Starts

(* The words a user asked for are its own.                                 *)
LEMMA AskedOwn ==
    ASSUME NEW P, PoolsOK(P), NEW S, NEW z, Chain(S, z, P), NEW b \in S, NEW n \in Nat,
           n * W <= z[b]
    PROVE  WordsFrom(b + 2 * W, n * W) \subseteq Own(z, b) \cap Addr
<1>1. /\ Aligned(b) /\ b \in Nat /\ Aligned(z[b]) /\ z[b] \in Nat /\ Nx(z, b) \in Nat
      /\ Nx(z, b) = b + W + z[b] /\ b + W \in Addr
      /\ (b \in Ends(P) => z[b] = 0)
      /\ (b \notin Ends(P) => \A x : Aligned(x) /\ b <= x /\ x <= Nx(z, b) + W => x \in Addr)
  BY BlockPlace
<1>2. W \in Nat \ {0} BY Layout
<1>3. Aligned(b + 2 * W) BY <1>1, AlignedSum, AlignedWords
<1>4. Aligned(W * n) BY AlignedWords, MultipleAligned
<1>5. n * W = W * n BY <1>2
<1> DEFINE m == n * W
<1>6. Aligned(m) /\ m <= z[b] /\ m \in Nat BY <1>4, <1>5 DEF Aligned
<1> HIDE DEF m
<1> SUFFICES ASSUME NEW x \in WordsFrom(b + 2 * W, m) PROVE x \in Own(z, b) /\ x \in Addr
  BY DEF m
<1>7. x \in Nat /\ Aligned(x) /\ b + 2 * W <= x /\ x < b + 2 * W + m
  BY <1>3, <1>6, WordsFromIs
<1>8. Aligned(b + 2 * W + m) /\ b + 2 * W + m \in Nat BY <1>3, <1>6, AlignedSum DEF Aligned
<1>9. x + W <= b + 2 * W + m BY <1>7, <1>8, AlignedGap
<1>10. b + W < x /\ x <= Nx(z, b) /\ b <= x /\ x <= Nx(z, b) + W /\ z[b] # 0
  BY <1>1, <1>2, <1>6, <1>7, <1>9
<1>11. x \in Addr BY <1>1, <1>7, <1>10
<1> QED BY <1>7, <1>10, <1>11 DEF Own

(* What is needed holds all that the allocator and the users look at, and  *)
(* nothing outside the pools.                                              *)
NeededFacts(h, l, P, S, z, Fr) ==
    LET needed == Needed(h, l, P)
    IN  /\ \A b \in S : b + W \in needed
        /\ \A a \in Fr : Nx(z, a) \in needed /\ a + 2 * W \in needed /\ a + 3 * W \in needed
        /\ \A pool \in P : Lo(pool) \in needed
        /\ \A p \in DOMAIN l : WordsFrom(p, l[p].n * W) \subseteq needed
        /\ Extra.mem \notin P => Lo(Extra.mem) \notin needed

(* Needed holds all of these words.                                        *)
LEMMA NeededHolds ==
    ASSUME NEW P, NEW S, NEW z, NEW Fr, NEW h, HeapState(h, S, z, Fr, P),
           NEW l, Users(l, S, z, Fr, P)
    PROVE  NeededFacts(h, l, P, S, z, Fr)
<1> DEFINE N == Needed(h, l, P)
<1>1. ListState(h, S, z, Fr, Fr, P) BY DEF HeapState
<1>2. PoolsOK(P) /\ Chain(S, z, P) /\ Fr \subseteq S \ Ends(P) /\ h \in HeapType
      /\ Rep(h, S, z, Fr)
  BY <1>1, StateFacts
<1>3. Physical(h, P) = S \ Ends(P) BY <1>2, PhysicalIs
<1>4. ASSUME NEW b \in S \ Ends(P)
      PROVE  FieldsOf(h, b) = IF b \in Fr THEN {b + W, b + 2 * W, b + 3 * W, Nx(z, b), Nx(z, b) + W}
                              ELSE {b + W, Nx(z, b) + W}
  <2>1. block_next(h, b) = Nx(z, b) /\ (block_is_free(h, b) <=> b \in Fr) BY <1>1, BlockHead
  <2> QED BY <2>1 DEF FieldsOf
<1>5. N = (UNION {FieldsOf(h, b) : b \in S \ Ends(P)})
            \cup (UNION {WordsFrom(p, l[p].n * W) : p \in DOMAIN l}) \cup {pool - W : pool \in P}
  BY <1>3, NeededIs
<1>6. \A b \in S \ Ends(P) : FieldsOf(h, b) \subseteq N BY <1>5
<1>7. \A b \in S \ Ends(P) : b + W \in N /\ Nx(z, b) + W \in N BY <1>4, <1>6
<1>8. ASSUME NEW b \in S PROVE b + W \in N
  <2>1. CASE b \notin Ends(P) BY <1>7, <2>1
  <2>2. CASE b \in Ends(P)
    <3>1. PICK a \in S \ Ends(P) : Nx(z, a) = b BY <1>2, <2>2, EndHasFront
    <3> QED BY <1>7, <3>1
  <2> QED BY <2>1, <2>2
<1>9. \A a \in Fr : Nx(z, a) \in N /\ a + 2 * W \in N /\ a + 3 * W \in N BY <1>2, <1>4, <1>6
<1> DEFINE A == UNION {FieldsOf(h, b) : b \in S \ Ends(P)}
           B == UNION {WordsFrom(p, l[p].n * W) : p \in DOMAIN l}
           C == {pool - W : pool \in P}
<1>n. N = A \cup B \cup C BY <1>5
<1>a. \A x \in A : \E b \in S \ Ends(P) : x \in FieldsOf(h, b) OBVIOUS
<1>b. /\ \A x \in B : \E p \in DOMAIN l : x \in WordsFrom(p, l[p].n * W)
      /\ \A p \in DOMAIN l : WordsFrom(p, l[p].n * W) \subseteq B
  OBVIOUS
<1>c. \A x : x \in C <=> \E pool \in P : x = pool - W OBVIOUS
<1> HIDE DEF N, A, B, C
<1>10. \A pool \in P : Lo(pool) \in N BY <1>n, <1>c DEF Lo
<1>11. \A p \in DOMAIN l : WordsFrom(p, l[p].n * W) \subseteq N BY <1>n, <1>b
<1>12. ASSUME Extra.mem \notin P, Lo(Extra.mem) \in N PROVE FALSE
  <2> DEFINE e == Lo(Extra.mem)
  <2>1. P \subseteq {tlsf_get_pool} BY <1>2, <1>12 DEF PoolsOK
  <2>2. ASSUME NEW pool \in P, Lo(pool) <= e, e <= Hi(pool) + W PROVE FALSE
    <3>1. pool = tlsf_get_pool BY <2>1
    <3>2. PoolBytes(pool) = Bytes - 5 * W BY <3>1, Layout DEF PoolBytes
    <3>3. tlsf_get_pool = ARENA + 5 * W /\ W \in Nat \ {0} BY Layout
    <3>4. ARENA \in Nat /\ Bytes \in Nat /\ Extra.mem \in Nat /\ Extra.mem >= ARENA + Bytes + W
      BY Places DEF Aligned
    <3>5. Hi(pool) = (ARENA + 5 * W) + (Bytes - 5 * W) - 2 * W BY <3>1, <3>2, <3>3 DEF Hi
    <3>6. e = Extra.mem - W BY DEF Lo
    <3> QED BY <2>2, <3>3, <3>4, <3>5, <3>6
  <2>3. ASSUME NEW b \in S, b \notin Ends(P), b <= e, e <= Nx(z, b) + W PROVE FALSE
    <3>1. PICK pool \in P : Lo(pool) <= b /\ Nx(z, b) <= Hi(pool) BY <1>2, <2>3, InOnePool
    <3>2. Lo(pool) \in Nat /\ Hi(pool) \in Nat BY <1>2, Pools DEF Aligned
    <3>3. b \in Nat /\ Nx(z, b) \in Nat BY <1>2, BlockPlace
    <3>4. Extra.mem \in Nat /\ Extra.mem >= ARENA + Bytes + W /\ ARENA \in Nat /\ Bytes \in Nat
      BY Places DEF Aligned
    <3>5. W \in Nat \ {0} BY Layout
    <3>6. e \in Nat BY <3>4, <3>5 DEF Lo
    <3> HIDE DEF e
    <3>7. Lo(pool) <= e /\ e <= Hi(pool) + W BY <2>3, <3>1, <3>2, <3>3, <3>5, <3>6
    <3> QED BY <2>2, <3>7
  <2>4. CASE \E b \in S \ Ends(P) : e \in FieldsOf(h, b)
    <3>1. PICK b \in S \ Ends(P) : e \in FieldsOf(h, b) BY <2>4
    <3>2. e \in {b + W, b + 2 * W, b + 3 * W, Nx(z, b), Nx(z, b) + W} BY <1>4, <3>1
    <3>3. b \in Nat /\ Nx(z, b) \in Nat /\ b + 4 * W <= Nx(z, b) BY <1>2, <3>1, BlockPlace
    <3>4. W \in Nat BY Layout
    <3> HIDE DEF e
    <3>5. b <= e /\ e <= Nx(z, b) + W BY <3>2, <3>3, <3>4
    <3> QED BY <2>3, <3>1, <3>5
  <2>5. CASE \E p \in DOMAIN l : e \in WordsFrom(p, l[p].n * W)
    <3>1. PICK p \in DOMAIN l : e \in WordsFrom(p, l[p].n * W) BY <2>5
    <3>2. PICK b \in Used(S, Fr, P) : p = b + 2 * W BY DEF Users
    <3>3. b \in S /\ b \notin Ends(P) BY DEF Used
    <3>4. l[p].n \in Nat /\ l[p].n * W <= z[b] BY <3>2 DEF Users, Fits
    <3>5. e \in Own(z, b) BY <1>2, <3>1, <3>2, <3>3, <3>4, AskedOwn
    <3>6. e \in Nat /\ b + W < e /\ e <= Nx(z, b) BY <3>5 DEF Own
    <3>7. b \in Nat /\ Nx(z, b) \in Nat BY <1>2, <3>3, BlockPlace
    <3>8. W \in Nat BY Layout
    <3> HIDE DEF e
    <3>9. b <= e /\ e <= Nx(z, b) + W BY <3>6, <3>7, <3>8
    <3> QED BY <2>3, <3>3, <3>9
  <2>6. CASE \E pool \in P : e = pool - W
    <3>1. PICK pool \in P : e = Lo(pool) BY <2>6 DEF Lo
    <3>2. Lo(pool) \in Nat /\ Hi(pool) \in Nat /\ Lo(pool) + 4 * W <= Hi(pool)
      BY <1>2, Pools DEF Aligned
    <3>3. W \in Nat BY Layout
    <3>4. Lo(pool) <= Lo(pool) /\ Lo(pool) <= Hi(pool) + W BY <3>2, <3>3
    <3> QED BY <2>2, <3>1, <3>4
  <2> HIDE DEF e
  <2>7. e \in A \/ e \in B \/ e \in C BY <1>12, <1>n DEF e
  <2> QED BY <1>a, <1>b, <1>c, <2>4, <2>5, <2>6, <2>7
<1> QED BY <1>8, <1>9, <1>10, <1>11, <1>12 DEF NeededFacts, N

(* Memory is replaced, and nothing else.                                   *)
LEMMA MemSet ==
    ASSUME NEW h \in HeapType, NEW m \in [Addr -> Nat]
    PROVE  LET g == [h EXCEPT !.mem = m]
           IN  /\ g \in HeapType /\ g.mem = m
               /\ g.fl_bitmap = h.fl_bitmap /\ g.sl_bitmap = h.sl_bitmap /\ g.blocks = h.blocks
BY DEF HeapType

(* Words nobody needs may hold anything.                                   *)
Forgets(h, l, P, v) ==
    [h EXCEPT !.mem = [a \in Addr |-> IF a \in Needed(h, l, P) THEN h.mem[a] ELSE v]]

LEMMA ForgetsKeeps ==
    ASSUME NEW P, NEW S, NEW z, NEW Fr, NEW h, HeapState(h, S, z, Fr, P),
           NEW l, Users(l, S, z, Fr, P), \A pool \in P : h.mem[Lo(pool)] \in Garbage,
           NEW v \in Garbage
    PROVE  LET g == Forgets(h, l, P, v)
           IN  /\ Describes(g, l, P, S, z, Fr)
               /\ \A p \in DOMAIN l : SameOn(h, g, WordsFrom(p, l[p].n * W))
<1> DEFINE g == Forgets(h, l, P, v)
           N == Needed(h, l, P)
           m == [a \in Addr |-> IF a \in N THEN h.mem[a] ELSE v]
<1>1. ListState(h, S, z, Fr, Fr, P) /\ Coalesced(z, Fr) BY DEF HeapState
<1>2. PoolsOK(P) /\ Chain(S, z, P) /\ Fr \subseteq S \ Ends(P) /\ h \in HeapType
      /\ Rep(h, S, z, Fr)
  BY <1>1, StateFacts
<1>3. v \in Nat BY TlsfMemory
<1> HIDE DEF N
<1>4. m \in [Addr -> Nat]
  <2>1. h.mem \in [Addr -> Nat] BY <1>2 DEF HeapType
  <2> QED BY <1>3, <2>1
<1>5. g = [h EXCEPT !.mem = m] BY DEF Forgets, N
<1>6. /\ g \in HeapType /\ g.mem = m
      /\ g.fl_bitmap = h.fl_bitmap /\ g.sl_bitmap = h.sl_bitmap /\ g.blocks = h.blocks
  <2> HIDE DEF g, m
  <2> QED BY <1>2, <1>4, <1>5, MemSet
<1>7. /\ \A x \in Addr : x \in N => g.mem[x] = h.mem[x]
      /\ \A x \in Addr : x \notin N => g.mem[x] = v
  BY <1>6
<1> HIDE DEF g, m
<1>8. NeededFacts(h, l, P, S, z, Fr) BY NeededHolds
<1>9. /\ \A b \in S : b + W \in N
      /\ \A a \in Fr : Nx(z, a) \in N /\ a + 2 * W \in N /\ a + 3 * W \in N
      /\ \A pool \in P : Lo(pool) \in N
      /\ \A p \in DOMAIN l : WordsFrom(p, l[p].n * W) \subseteq N
      /\ Extra.mem \notin P => Lo(Extra.mem) \notin N
  BY <1>8 DEF NeededFacts, N
<1>10. ASSUME NEW b \in S PROVE g.mem[b + W] = h.mem[b + W]
  <2>1. b + W \in Addr BY <1>2, BlockPlace
  <2> QED BY <1>7, <1>9, <2>1
<1>11. ASSUME NEW a \in Fr
       PROVE  /\ g.mem[Nx(z, a)] = h.mem[Nx(z, a)]
              /\ g.mem[a + 2 * W] = h.mem[a + 2 * W] /\ g.mem[a + 3 * W] = h.mem[a + 3 * W]
  <2>1. a \in S /\ a \notin Ends(P) BY <1>2
  <2>2. Nx(z, a) \in Addr /\ a + 2 * W \in Addr /\ a + 3 * W \in Addr BY <1>2, <2>1, BlockPlace
  <2> QED BY <1>7, <1>9, <2>2
<1>12. SameLists(h, g, Fr) BY <1>6, <1>11 DEF SameLists
<1>13. HeapState(g, S, z, Fr, P) BY <1>1, <1>6, <1>10, <1>11, <1>12, StateSame DEF HeapState
<1>14. ASSUME NEW pool \in P \cup {Extra.mem} PROVE g.mem[Lo(pool)] \in Garbage
  <2>1. CASE pool \in P
    <3>1. Aligned(Lo(pool)) /\ Aligned(Hi(pool)) /\ Lo(pool) + 4 * W <= Hi(pool)
          /\ \A x : Aligned(x) /\ Lo(pool) <= x /\ x <= Hi(pool) + W => x \in Addr
      BY <1>2, <2>1, Pools
    <3>2. Lo(pool) \in Nat /\ Hi(pool) \in Nat /\ W \in Nat BY <3>1, Layout DEF Aligned
    <3>3. Lo(pool) <= Lo(pool) /\ Lo(pool) <= Hi(pool) + W BY <3>1, <3>2
    <3>4. Lo(pool) \in Addr BY <3>1, <3>3
    <3> QED BY <1>7, <1>9, <2>1, <3>4
  <2>2. CASE pool \notin P
    <3>1. pool = Extra.mem BY <2>2
    <3>2. Lo(Extra.mem) \in Addr
      <4>1. Aligned(Extra.mem) /\ Aligned(Extra.bytes) /\ Extra.mem >= ARENA + Bytes + W
            /\ Aligned(ARENA) /\ Aligned(Bytes) /\ Aligned(W)
        BY Places, AlignedWords
      <4>2. /\ Extra.mem \in Nat /\ Extra.bytes \in Nat /\ ARENA \in Nat /\ Bytes \in Nat
            /\ W \in Nat \ {0}
        BY <4>1, Layout DEF Aligned
      <4>3. W <= Extra.mem /\ Extra.mem - W <= Extra.mem - W
            /\ Extra.mem - W < Extra.mem + Extra.bytes
        BY <4>1, <4>2
      <4>4. Aligned(Extra.mem - W) BY <4>1, <4>3, AlignedDiff
      <4> QED BY <4>3, <4>4, AddrIs DEF Lo
    <3> QED BY <1>7, <1>9, <2>2, <3>1, <3>2
  <2> QED BY <2>1, <2>2
<1>15. Fronts(g, P) BY <1>14 DEF Fronts
<1>16. ASSUME NEW p \in DOMAIN l PROVE SameOn(h, g, WordsFrom(p, l[p].n * W))
  <2>1. PICK b \in Used(S, Fr, P) : p = b + 2 * W BY DEF Users
  <2>2. b \in S BY DEF Used
  <2>3. l[p].n \in Nat /\ l[p].n * W <= z[b] BY <2>1 DEF Users, Fits
  <2>4. WordsFrom(p, l[p].n * W) \subseteq Addr BY <1>2, <2>1, <2>2, <2>3, AskedOwn
  <2> QED BY <1>7, <1>9, <2>4 DEF SameOn
<1>17. Describes(g, l, P, S, z, Fr) BY <1>13, <1>15 DEF Describes
<1> QED BY <1>16, <1>17 DEF g

(* The state after a call.                                                 *)
LEMMA AfterDescribes ==
    ASSUME NEW P, NEW S, NEW z, NEW Fr, NEW h, HeapState(h, S, z, Fr, P),
           NEW l, Users(l, S, z, Fr, P), \A pool \in P : h.mem[Lo(pool)] \in Garbage,
           After(h, l, P)
    PROVE  /\ live' = l /\ pools' = P
           /\ Describes(heap', l, P, S, z, Fr)
           /\ \A p \in DOMAIN l : SameOn(h, heap', WordsFrom(p, l[p].n * W))
<1>1. live' = l /\ pools' = P BY DEF After
<1>2. PICK v \in Garbage : heap' = Forgets(h, l, P, v) BY DEF After, Forgets
<1>3. /\ Describes(Forgets(h, l, P, v), l, P, S, z, Fr)
      /\ \A p \in DOMAIN l : SameOn(h, Forgets(h, l, P, v), WordsFrom(p, l[p].n * W))
  BY ForgetsKeeps
<1> QED BY <1>1, <1>2, <1>3

(* The words of a block of n words.                                        *)
LEMMA WordsOf ==
    ASSUME NEW p \in Nat, NEW n \in Nat
    PROVE  WordsFrom(p, n * W) = {p + W * i : i \in 0 .. n - 1}
<1>1. W \in Nat \ {0} BY Layout
<1>2. (W * n + 0) \div W = n BY <1>1, DivUnique
<1>3. n * W = W * n + 0 BY <1>1
<1>4. (n * W) \div W = n BY <1>2, <1>3
<1> QED BY <1>4 DEF WordsFrom

(* A request in words is no larger than what it is rounded up to.          *)
LEMMA WordsFit ==
    ASSUME NEW size \in Requests, adjust_request_size(size, ALIGN_SIZE) # 0
    PROVE  /\ Words(size) \in Nat
           /\ Words(size) * W <= adjust_request_size(size, ALIGN_SIZE)
           /\ RoundUp(size, W) = Words(size) * W
<1> DEFINE a == adjust_request_size(size, ALIGN_SIZE)
           u == RoundUp(size, W)
<1>1. W \in Nat \ {0} /\ ALIGN_SIZE = W BY Layout
<1>0. size \in Nat /\ align_up(size, ALIGN_SIZE) = u BY <1>1, RequestFacts
<1>2. u \in Nat BY <1>0, <1>1, RoundedUp
<1>3. PICK q \in Nat : u = W * q BY <1>0, <1>1, RoundedUp
<1>4. a = IF u < block_size_min THEN block_size_min ELSE u BY <1>0 DEF adjust_request_size
<1>5. block_size_min \in Nat BY <1>1, Layout
<1>6. (W * q + 0) \div W = q BY <1>1, DivUnique
<1>7. W * q + 0 = W * q /\ q * W = W * q BY <1>1
<1>8. Words(size) = q BY <1>3, <1>6, <1>7 DEF Words
<1> HIDE DEF u, a
<1>9. u <= a BY <1>2, <1>4, <1>5
<1> QED BY <1>3, <1>7, <1>8, <1>9 DEF u, a

(* The users after block b was handed out.                                 *)
LEMMA UsersWith ==
    ASSUME NEW P, NEW S, NEW z, NEW Fr, NEW l, Users(l, S, z, Fr, P),
           NEW T, NEW y, NEW G, NEW b, T \ G = (S \ Fr) \cup {b}, b \notin S \ Fr, b \notin Ends(P),
           \A q \in S \ Fr : y[q] = z[q], NEW use, Fits(y, b, use),
           S \subseteq Nat, b \in Nat
    PROVE  Users(With(l, b + 2 * W, use), T, y, G, P)
<1> DEFINE m == With(l, b + 2 * W, use)
           U == Used(S, Fr, P)
<1>1. Used(T, G, P) = U \cup {b} BY DEF Used
<1>2. DOMAIN m = DOMAIN l \cup {b + 2 * W} /\ m[b + 2 * W] = use BY DEF With
<1>3. DOMAIN l = {q + 2 * W : q \in U} /\ \A q \in U : Fits(z, q, l[q + 2 * W]) BY DEF Users
<1>4. DOMAIN m = {q + 2 * W : q \in Used(T, G, P)} BY <1>1, <1>2, <1>3
<1>5. ASSUME NEW q \in Used(T, G, P) PROVE Fits(y, q, m[q + 2 * W])
  <2>1. CASE q = b BY <1>2, <2>1
  <2>2. CASE q # b
    <3>1. q \in U /\ q \in S \ Fr /\ q \in Nat BY <1>1, <2>2 DEF Used
    <3>2. q + 2 * W # b + 2 * W
      <4>1. W \in Nat BY Layout
      <4> QED BY <2>2, <3>1, <4>1
    <3>3. m[q + 2 * W] = l[q + 2 * W] BY <1>3, <3>1, <3>2 DEF With
    <3>4. Fits(z, q, l[q + 2 * W]) BY <1>3, <3>1
    <3> QED BY <3>1, <3>3, <3>4 DEF Fits
  <2> QED BY <2>1, <2>2
<1> QED BY <1>4, <1>5 DEF Users

(* The user of block b writes its words.                                   *)
Filled(h, g, T, y, G, P, b, kept, n) ==
    /\ HeapState(g, T, y, G, P) /\ SameOn(h, g, Starts(P))
    /\ \A q \in T \ G : q # b => SameOn(h, g, Own(y, q) \cap Addr)
    /\ \A i \in 0 .. n - 1 : i < kept => g.mem[b + 2 * W + W * i] = h.mem[b + 2 * W + W * i]

LEMMA FillFacts ==
    ASSUME NEW P, NEW T, NEW y, NEW G, NEW h, HeapState(h, T, y, G, P), NEW b \in T, b \notin G,
           NEW n \in Nat, n * W <= y[b], NEW kept \in Nat
    PROVE  Filled(h, Fill(h, b + 2 * W, kept, n), T, y, G, P, b, kept, n)
<1> DEFINE p == b + 2 * W
           A == {p + W * i : i \in kept .. n - 1}
           m == [a \in Addr |-> IF a \in A THEN Data ELSE h.mem[a]]
           g == Fill(h, p, kept, n)
<1>1. ListState(h, T, y, G, G, P) BY DEF HeapState
<1>2. PoolsOK(P) /\ Chain(T, y, P) /\ h \in HeapType BY <1>1, StateFacts
<1>3. b \in Nat BY <1>2, BlockPlace
<1>4. W \in Nat \ {0} BY Layout
<1>5. p \in Nat BY <1>3, <1>4
<1>6. WordsFrom(p, n * W) \subseteq Own(y, b) \cap Addr BY <1>2, AskedOwn
<1> HIDE DEF p
<1>7. WordsFrom(p, n * W) = {p + W * i : i \in 0 .. n - 1} BY <1>5, WordsOf
<1>8. kept .. n - 1 \subseteq 0 .. n - 1 BY SMT
<1>9. A \subseteq Own(y, b) BY <1>6, <1>7, <1>8
<1> HIDE DEF A
<1>10. m \in [Addr -> Nat]
  <2>1. h.mem \in [Addr -> Nat] /\ Data \in Nat BY <1>2, TlsfMemory DEF HeapType
  <2> QED BY <2>1
<1>11. g = [h EXCEPT !.mem = m] BY DEF Fill, A
<1>12. /\ g \in HeapType /\ g.mem = m
       /\ g.fl_bitmap = h.fl_bitmap /\ g.sl_bitmap = h.sl_bitmap /\ g.blocks = h.blocks
  <2> HIDE DEF g, m
  <2> QED BY <1>2, <1>10, <1>11, MemSet
<1>13. \A x \in Addr : x \notin A => g.mem[x] = h.mem[x] BY <1>12
<1> HIDE DEF g, m
<1>14. Wrote(h, g, A) BY <1>12, <1>13 DEF Wrote
<1>15. /\ HeapState(g, T, y, G, P) /\ SameOn(h, g, Starts(P))
       /\ \A q \in T \ G : q # b => SameOn(h, g, Own(y, q) \cap Addr)
  BY <1>9, <1>14, UserWrites
<1>16. ASSUME NEW i \in 0 .. n - 1, i < kept PROVE g.mem[p + W * i] = h.mem[p + W * i]
  <2>1. p + W * i \in Addr BY <1>6, <1>7
  <2>2. ASSUME NEW j \in kept .. n - 1, p + W * i = p + W * j PROVE FALSE
    <3>1. i \in Nat /\ j \in Nat /\ i + 1 <= j BY <1>16, <2>2
    <3>2. \A u, v, w \in Nat : u + 1 <= v => w * u + w <= w * v BY SMT
    <3>3. W * i + W <= W * j BY <1>4, <3>1, <3>2
    <3>4. W * i \in Nat /\ W * j \in Nat BY <1>4, <3>1
    <3> QED BY <1>4, <1>5, <2>2, <3>3, <3>4
  <2>3. p + W * i \notin A BY <2>2 DEF A
  <2> QED BY <1>13, <2>1, <2>3
<1>17. Filled(h, g, T, y, G, P, b, kept, n) BY <1>15, <1>16 DEF Filled, p
<1> QED BY <1>17 DEF g, p

(* No operation writes to what users own or to the words in front of       *)
(* pools.                                                                  *)
LEMMA OwnSafe ==
    ASSUME NEW P, NEW S, NEW z, NEW Fr, NEW q \in S \ Fr
    PROVE  Own(z, q) \cap Addr \subseteq Safe(S, z, Fr, P)
BY DEF Own, Safe

LEMMA StartsSafe ==
    ASSUME NEW P, PoolsOK(P), NEW S, NEW z, NEW Fr
    PROVE  Starts(P) \subseteq Safe(S, z, Fr, P)
<1> SUFFICES ASSUME NEW pool \in P PROVE Lo(pool) \in Addr BY DEF Starts, Safe
<1>1. Aligned(Lo(pool)) /\ Aligned(Hi(pool)) /\ Lo(pool) + 4 * W <= Hi(pool)
      /\ \A x : Aligned(x) /\ Lo(pool) <= x /\ x <= Hi(pool) + W => x \in Addr
  BY Pools
<1>2. Lo(pool) \in Nat /\ Hi(pool) \in Nat /\ W \in Nat BY <1>1, Layout DEF Aligned
<1>3. Lo(pool) <= Lo(pool) /\ Lo(pool) <= Hi(pool) + W BY <1>1, <1>2
<1> QED BY <1>1, <1>3

LEMMA FrontsKept ==
    ASSUME NEW P, PoolsOK(P), NEW h, Fronts(h, P), NEW g, SameOn(h, g, Starts(P))
    PROVE  \A pool \in P : g.mem[Lo(pool)] \in Garbage
BY DEF Fronts, SameOn, Starts

(* What a user knows of the block it holds.                                *)
LEMMA HeldBlock ==
    ASSUME NEW P, NEW S, NEW z, NEW Fr, NEW h, NEW l, Describes(h, l, P, S, z, Fr),
           NEW p \in DOMAIN l
    PROVE  \E b \in Used(S, Fr, P) :
              /\ p = b + 2 * W /\ b \in S /\ b \notin Fr /\ b \notin Ends(P) /\ b \in Nat
              /\ l[p].n \in Nat /\ l[p].n * W <= z[b] /\ p % l[p].align = 0
              /\ WordsFrom(p, l[p].n * W) \subseteq Own(z, b) \cap Addr
<1>1. HeapState(h, S, z, Fr, P) /\ Users(l, S, z, Fr, P) BY DEF Describes
<1>2. PoolsOK(P) /\ Chain(S, z, P) BY <1>1, StateFacts DEF HeapState
<1>3. PICK b \in Used(S, Fr, P) : p = b + 2 * W BY <1>1 DEF Users
<1>4. b \in S /\ b \notin Fr /\ b \notin Ends(P) BY DEF Used
<1>5. l[p].n \in Nat /\ l[p].n * W <= z[b] /\ p % l[p].align = 0 BY <1>1, <1>3 DEF Users, Fits
<1>6. WordsFrom(p, l[p].n * W) \subseteq Own(z, b) \cap Addr BY <1>2, <1>3, <1>4, <1>5, AskedOwn
<1>7. b \in Nat BY <1>2, <1>4, BlockPlace
<1> QED BY <1>3, <1>4, <1>5, <1>6, <1>7

(* Nothing is done.                                                        *)
LEMMA NothingStep ==
    ASSUME NEW S, NEW z, NEW Fr, Describes(heap, live, pools, S, z, Fr),
           After(heap, live, pools)
    PROVE  IInv' /\ NoChange
<1>1. HeapState(heap, S, z, Fr, pools) /\ Users(live, S, z, Fr, pools) /\ Fronts(heap, pools)
  BY DEF Describes
<1>2. \A pool \in pools : heap.mem[Lo(pool)] \in Garbage BY <1>1 DEF Fronts
<1>3. /\ live' = live /\ pools' = pools /\ Describes(heap', live, pools, S, z, Fr)
      /\ \A p \in DOMAIN live : SameOn(heap, heap', WordsFrom(p, live[p].n * W))
  BY <1>1, <1>2, AfterDescribes
<1>4. NoChange BY <1>3 DEF NoChange, Keeping
<1>5. IInv' BY <1>3 DEF IInv
<1> QED BY <1>4, <1>5

(* A block is handed to a user, who fills it.                              *)
LEMMA GivenStep ==
    ASSUME NEW S, NEW z, NEW Fr, Describes(heap, live, pools, S, z, Fr),
           NEW r, NEW a \in Nat, NEW b, NEW T, NEW y, NEW G,
           Gives(heap, r, S, z, Fr, a, pools, b, T, y, G),
           NEW use, use.n \in Nat, use.n * W <= a, (b + 2 * W) % use.align = 0,
           After(Fill(r.heap, r.ptr, 0, use.n), With(live, r.ptr, use), pools)
    PROVE  IInv' /\ Given
<1> DEFINE P == pools
           p == b + 2 * W
           n == use.n
           g == Fill(r.heap, p, 0, n)
           l == With(live, p, use)
<1>1. /\ HeapState(heap, S, z, Fr, P) /\ Users(live, S, z, Fr, P) /\ Fronts(heap, P)
  BY DEF Describes
<1>2. PoolsOK(P) /\ Chain(S, z, P) BY <1>1, StateFacts DEF HeapState
<1>3. r.ptr = p /\ HandedTo(heap, r.heap, S, z, Fr, b, a, P, T, y, G) BY DEF Gives
<1>4. /\ HeapState(r.heap, T, y, G, P) /\ b \in T /\ b \notin Ends(P) /\ a <= y[b]
      /\ T \ G = (S \ Fr) \cup {b} /\ b \notin S \ Fr
      /\ \A q \in S \ Fr : y[q] = z[q]
      /\ SameOn(heap, r.heap, Safe(S, z, Fr, P))
  BY <1>3 DEF HandedTo
<1>5. Chain(T, y, P) BY <1>4, StateFacts DEF HeapState
<1>6. b \in Nat /\ y[b] \in Nat /\ b \notin G
  <2>1. b \in Nat /\ y[b] \in Nat BY <1>2, <1>4, <1>5, BlockPlace
  <2> QED BY <1>4, <2>1
<1>7. n * W <= y[b]
  <2>1. W \in Nat /\ n \in Nat BY Layout
  <2>2. n * W \in Nat /\ n * W <= a BY <2>1
  <2> DEFINE m == n * W
  <2>3. m \in Nat /\ m <= a BY <2>2
  <2> HIDE DEF m
  <2>4. m <= y[b] BY <1>4, <1>6, <2>3
  <2> QED BY <2>4 DEF m
<1>8. Filled(r.heap, g, T, y, G, P, b, 0, n) BY <1>4, <1>6, <1>7, FillFacts
<1>9. /\ HeapState(g, T, y, G, P) /\ SameOn(r.heap, g, Starts(P))
      /\ \A q \in T \ G : q # b => SameOn(r.heap, g, Own(y, q) \cap Addr)
  BY <1>8 DEF Filled
<1>10. Fits(y, b, use) BY <1>7 DEF Fits
<1>11. S \subseteq Nat BY <1>2, BlockPlace
<1>12. Users(l, T, y, G, P) BY <1>1, <1>4, <1>6, <1>10, <1>11, UsersWith
<1>13. SameOn(heap, r.heap, Starts(P)) BY <1>2, <1>4, StartsSafe DEF SameOn
<1>14. SameOn(heap, g, Starts(P)) BY <1>9, <1>13 DEF SameOn
<1>15. \A pool \in P : g.mem[Lo(pool)] \in Garbage BY <1>1, <1>2, <1>14, FrontsKept
<1>16. After(g, l, P) BY <1>3
<1> HIDE DEF g, l
<1>17. /\ live' = l /\ pools' = P /\ Describes(heap', l, P, T, y, G)
       /\ \A q \in DOMAIN l : SameOn(g, heap', WordsFrom(q, l[q].n * W))
  BY <1>9, <1>12, <1>15, <1>16, AfterDescribes
<1>18. p \notin DOMAIN live
  <2> SUFFICES ASSUME p \in DOMAIN live PROVE FALSE OBVIOUS
  <2>1. PICK q \in Used(S, Fr, P) : p = q + 2 * W /\ q \in S /\ q \notin Fr /\ q \in Nat
    BY HeldBlock
  <2>2. W \in Nat BY Layout
  <2>3. q = b BY <1>6, <2>1, <2>2
  <2> QED BY <1>4, <2>1, <2>3
<1>19. DOMAIN l = DOMAIN live \cup {p} /\ \A q \in DOMAIN live : l[q] = live[q]
  BY <1>18 DEF l, With
<1>20. ASSUME NEW q \in DOMAIN live PROVE SameOn(heap, heap', WordsFrom(q, live[q].n * W))
  <2>1. PICK c \in Used(S, Fr, P) :
           q = c + 2 * W /\ c \in S /\ c \notin Fr /\ WordsFrom(q, live[q].n * W) \subseteq Own(z, c) \cap Addr
    BY HeldBlock
  <2>2. Own(z, c) \cap Addr \subseteq Safe(S, z, Fr, P) BY <2>1, OwnSafe
  <2>3. y[c] = z[c] /\ c # b /\ c \in T \ G BY <1>4, <2>1
  <2>4. Own(y, c) = Own(z, c) BY <2>3 DEF Own, Nx
  <2>5. SameOn(r.heap, g, Own(z, c) \cap Addr) BY <1>9, <2>3, <2>4
  <2>6. SameOn(g, heap', WordsFrom(q, live[q].n * W)) BY <1>17, <1>19
  <2> QED BY <1>4, <2>1, <2>2, <2>5, <2>6 DEF SameOn
<1>21. Given BY <1>17, <1>18, <1>19, <1>20 DEF Given, Keeping
<1>22. IInv' BY <1>17 DEF IInv
<1> QED BY <1>21, <1>22

(* What malloc and memalign return to a user that asks for a new block.    *)
LEMMA ReturnedStep ==
    ASSUME NEW S, NEW z, NEW Fr, Describes(heap, live, pools, S, z, Fr),
           NEW r, NEW a \in Nat, NEW use, use.n \in Nat, use.n * W <= a,
           \/ r.ptr = NULL /\ r.heap = heap
           \/ /\ r.ptr % use.align = 0
              /\ \E b, T, y, G : Gives(heap, r, S, z, Fr, a, pools, b, T, y, G),
           Returned(r, live, 0, use)
    PROVE  IInv' /\ (NoChange \/ Given)
<1>1. CASE r.ptr = NULL /\ r.heap = heap
  <2>1. After(heap, live, pools) BY <1>1 DEF Returned
  <2> QED BY <2>1, NothingStep
<1>2. CASE ~ (r.ptr = NULL /\ r.heap = heap)
  <2>1. PICK b, T, y, G : Gives(heap, r, S, z, Fr, a, pools, b, T, y, G) BY <1>2
  <2>2. r.ptr = b + 2 * W /\ HandedTo(heap, r.heap, S, z, Fr, b, a, pools, T, y, G)
    BY <2>1 DEF Gives
  <2>3. HeapState(r.heap, T, y, G, pools) /\ b \in T BY <2>2 DEF HandedTo
  <2>4. PoolsOK(pools) /\ Chain(T, y, pools) BY <2>3, StateFacts DEF HeapState
  <2>5. b \in Nat BY <2>3, <2>4, BlockPlace
  <2>6. W \in Nat \ {0} /\ NULL = 0 BY Layout
  <2>7. r.ptr # NULL BY <2>2, <2>5, <2>6
  <2>8. After(Fill(r.heap, r.ptr, 0, use.n), With(live, r.ptr, use), pools)
    BY <2>7 DEF Returned
  <2>9. (b + 2 * W) % use.align = 0 BY <1>2, <2>2
  <2> QED BY <2>1, <2>8, <2>9, GivenStep
<1> QED BY <1>1, <1>2

(* malloc and memalign, with the user who fills the new block.             *)
LEMMA MallocReturns ==
    ASSUME NEW S, NEW z, NEW Fr, Describes(heap, live, pools, S, z, Fr), NEW size \in Requests,
           Returned(tlsf_malloc(heap, size), live, 0, Asked(ALIGN_SIZE, size))
    PROVE  IInv' /\ (NoChange \/ Given)
<1> DEFINE r == tlsf_malloc(heap, size)
           a == adjust_request_size(size, ALIGN_SIZE)
           use == Asked(ALIGN_SIZE, size)
<1>1. \/ r.ptr = NULL /\ r.heap = heap
      \/ a # 0 /\ \E b, T, y, G : Gives(heap, r, S, z, Fr, a, pools, b, T, y, G)
  BY MallocGives
<1>2. use.n = Words(size) /\ use.align = ALIGN_SIZE BY DEF Asked
<1>3. a \in Nat BY AdjustType
<1>4. Returned(r, live, 0, use) OBVIOUS
<1> HIDE DEF r, a, use
<1>5. CASE r.ptr = NULL /\ r.heap = heap
  <2>1. After(heap, live, pools) BY <1>4, <1>5 DEF Returned
  <2> QED BY <2>1, NothingStep
<1>6. CASE ~ (r.ptr = NULL /\ r.heap = heap)
  <2>1. use.n \in Nat /\ use.n * W <= a BY <1>1, <1>2, <1>6, WordsFit DEF a
  <2>2. PICK b, T, y, G : Gives(heap, r, S, z, Fr, a, pools, b, T, y, G) BY <1>1, <1>6
  <2>3. r.ptr = b + 2 * W /\ HandedTo(heap, r.heap, S, z, Fr, b, a, pools, T, y, G)
    BY <2>2 DEF Gives
  <2>4. HeapState(r.heap, T, y, G, pools) /\ b \in T BY <2>3 DEF HandedTo
  <2>5. PoolsOK(pools) /\ Chain(T, y, pools) BY <2>4, StateFacts DEF HeapState
  <2>6. Aligned(b) BY <2>4, <2>5, BlockPlace
  <2>7. Aligned(b + 2 * W) BY <2>6, AlignedSum, AlignedWords
  <2>8. r.ptr % use.align = 0 BY <1>2, <2>3, <2>7, Layout DEF Aligned
  <2> QED BY <1>3, <1>4, <2>1, <2>2, <2>8, ReturnedStep
<1> QED BY <1>5, <1>6

LEMMA MemalignReturns ==
    ASSUME NEW S, NEW z, NEW Fr, Describes(heap, live, pools, S, z, Fr), NEW size \in Requests,
           NEW align \in Aligns,
           Returned(tlsf_memalign(heap, align, size), live, 0, Asked(align, size))
    PROVE  IInv' /\ (NoChange \/ Given)
<1> DEFINE r == tlsf_memalign(heap, align, size)
           a == adjust_request_size(size, ALIGN_SIZE)
           use == Asked(align, size)
<1>1. \/ r.ptr = NULL /\ r.heap = heap
      \/ /\ a # 0 /\ r.ptr % align = 0
         /\ \E b, T, y, G : Gives(heap, r, S, z, Fr, a, pools, b, T, y, G)
  BY MemalignGives
<1>2. use.n = Words(size) /\ use.align = align BY DEF Asked
<1>3. a \in Nat BY AdjustType
<1>4. Returned(r, live, 0, use) OBVIOUS
<1> HIDE DEF r, a, use
<1>5. CASE r.ptr = NULL /\ r.heap = heap
  <2>1. After(heap, live, pools) BY <1>4, <1>5 DEF Returned
  <2> QED BY <2>1, NothingStep
<1>6. CASE ~ (r.ptr = NULL /\ r.heap = heap)
  <2>1. use.n \in Nat /\ use.n * W <= a BY <1>1, <1>2, <1>6, WordsFit DEF a
  <2> QED BY <1>1, <1>2, <1>3, <1>4, <1>6, <2>1, ReturnedStep
<1> QED BY <1>5, <1>6

(* The users after block b was given back.                                 *)
LEMMA UsersWithout ==
    ASSUME NEW P, NEW S, NEW z, NEW Fr, NEW l, Users(l, S, z, Fr, P), NEW b \in S, S \subseteq Nat,
           NEW T, NEW y, NEW G, UsedKept(S, z, Fr \cup {b}, T, y, G),
           NEW m, DOMAIN m = DOMAIN l \ {b + 2 * W}, \A p \in DOMAIN m : m[p] = l[p]
    PROVE  Users(m, T, y, G, P)
<1> DEFINE U == Used(S, Fr, P)
<1>1. Used(T, G, P) = U \ {b} BY DEF Used, UsedKept
<1>2. DOMAIN l = {q + 2 * W : q \in U} /\ \A q \in U : Fits(z, q, l[q + 2 * W]) BY DEF Users
<1>3. \A q \in U : q \in S /\ q \in Nat /\ q \notin Fr BY DEF Used
<1>4. W \in Nat BY Layout
<1>5. ASSUME NEW q \in U, q # b PROVE q + 2 * W # b + 2 * W
  <2>1. q \in Nat /\ b \in Nat BY <1>3
  <2> QED BY <1>4, <1>5, <2>1
<1> HIDE DEF U
<1>6. DOMAIN m = {q + 2 * W : q \in U \ {b}}
  <2>1. ASSUME NEW p \in DOMAIN m PROVE \E q \in U \ {b} : p = q + 2 * W
    <3>1. p \in DOMAIN l /\ p # b + 2 * W OBVIOUS
    <3>2. PICK q \in U : p = q + 2 * W BY <1>2, <3>1
    <3> QED BY <3>1, <3>2
  <2>2. ASSUME NEW q \in U \ {b} PROVE q + 2 * W \in DOMAIN m
    <3>1. q + 2 * W # b + 2 * W BY <1>5
    <3> QED BY <1>2, <3>1
  <2> QED BY <2>1, <2>2
<1>7. ASSUME NEW q \in U \ {b} PROVE Fits(y, q, m[q + 2 * W])
  <2>1. m[q + 2 * W] = l[q + 2 * W] BY <1>6
  <2>2. Fits(z, q, l[q + 2 * W]) BY <1>2
  <2>3. y[q] = z[q] BY <1>3 DEF UsedKept
  <2> QED BY <2>1, <2>2, <2>3 DEF Fits
<1> QED BY <1>1, <1>6, <1>7 DEF Users

(* A block is given back.                                                  *)
LEMMA ReleasedStep ==
    ASSUME NEW S, NEW z, NEW Fr, Describes(heap, live, pools, S, z, Fr),
           NEW p \in DOMAIN live, After(tlsf_free(heap, p), Without(p), pools)
    PROVE  IInv' /\ Released
<1> DEFINE P == pools
           g == tlsf_free(heap, p)
           l == Without(p)
<1>1. /\ HeapState(heap, S, z, Fr, P) /\ Users(live, S, z, Fr, P) /\ Fronts(heap, P)
  BY DEF Describes
<1>2. PoolsOK(P) /\ Chain(S, z, P) BY <1>1, StateFacts DEF HeapState
<1>3. PICK b \in Used(S, Fr, P) : p = b + 2 * W /\ b \in S /\ b \notin Fr BY HeldBlock
<1>4. \E T, y, G : RejoinedTo(heap, g, S, z, Fr \cup {b}, P, T, y, G) BY <1>1, <1>3, FreeBlock
<1>5. PICK T, y, G : RejoinedTo(heap, g, S, z, Fr \cup {b}, P, T, y, G) BY <1>4
<1> HIDE DEF g
<1>6. /\ HeapState(g, T, y, G, P) /\ UsedKept(S, z, Fr \cup {b}, T, y, G)
      /\ SameOn(heap, g, Safe(S, z, Fr \cup {b}, P))
  BY <1>5 DEF RejoinedTo
<1>7. DOMAIN l = DOMAIN live \ {p} /\ \A q \in DOMAIN l : l[q] = live[q] BY DEF Without
<1> HIDE DEF l
<1>8. S \subseteq Nat BY <1>2, BlockPlace
<1>9. Users(l, T, y, G, P) BY <1>1, <1>3, <1>6, <1>7, <1>8, UsersWithout
<1>10. SameOn(heap, g, Starts(P)) BY <1>2, <1>6, StartsSafe DEF SameOn
<1>11. \A pool \in P : g.mem[Lo(pool)] \in Garbage BY <1>1, <1>2, <1>10, FrontsKept
<1>12. After(g, l, P) BY DEF g, l
<1>13. /\ live' = l /\ pools' = P /\ Describes(heap', l, P, T, y, G)
       /\ \A q \in DOMAIN l : SameOn(g, heap', WordsFrom(q, l[q].n * W))
  BY <1>6, <1>9, <1>11, <1>12, AfterDescribes
<1>14. ASSUME NEW q \in DOMAIN live \ {p}
       PROVE  SameOn(heap, heap', WordsFrom(q, live[q].n * W))
  <2>1. PICK c \in Used(S, Fr, P) :
           q = c + 2 * W /\ c \in S /\ c \notin Fr /\ WordsFrom(q, live[q].n * W) \subseteq Own(z, c) \cap Addr
    BY HeldBlock
  <2>2. c \in S \ (Fr \cup {b}) BY <1>3, <2>1
  <2>3. Own(z, c) \cap Addr \subseteq Safe(S, z, Fr \cup {b}, P) BY <2>2, OwnSafe
  <2>4. SameOn(g, heap', WordsFrom(q, live[q].n * W)) BY <1>7, <1>13
  <2> QED BY <1>6, <2>1, <2>3, <2>4 DEF SameOn
<1>15. Keeping(DOMAIN live \ {p}) BY <1>7, <1>13, <1>14 DEF Keeping
<1>16. Released BY <1>7, <1>13, <1>15 DEF Released
<1>17. IInv' BY <1>13 DEF IInv
<1> QED BY <1>16, <1>17

(* free(NULL) does nothing.                                                *)
LEMMA FreeNull ==
    ASSUME NEW S, NEW z, NEW Fr, Describes(heap, live, pools, S, z, Fr),
           After(tlsf_free(heap, NULL), Without(NULL), pools)
    PROVE  IInv' /\ NoChange
<1> DEFINE l == Without(NULL)
<1>1. /\ HeapState(heap, S, z, Fr, pools) /\ Users(live, S, z, Fr, pools) /\ Fronts(heap, pools)
  BY DEF Describes
<1>2. NULL \notin DOMAIN live
  <2> SUFFICES ASSUME NULL \in DOMAIN live PROVE FALSE OBVIOUS
  <2>1. PICK b \in Used(S, Fr, pools) : NULL = b + 2 * W /\ b \in Nat BY HeldBlock
  <2> QED BY <2>1, Layout
<1>3. tlsf_free(heap, NULL) = heap BY DEF tlsf_free
<1>4. DOMAIN l = DOMAIN live /\ \A q \in DOMAIN l : l[q] = live[q] BY <1>2 DEF Without
<1> HIDE DEF l
<1>5. Users(l, S, z, Fr, pools) BY <1>1, <1>4 DEF Users
<1>6. \A pool \in pools : heap.mem[Lo(pool)] \in Garbage BY <1>1 DEF Fronts
<1>7. After(heap, l, pools) BY <1>3 DEF l
<1>8. /\ live' = l /\ pools' = pools /\ Describes(heap', l, pools, S, z, Fr)
      /\ \A p \in DOMAIN l : SameOn(heap, heap', WordsFrom(p, l[p].n * W))
  BY <1>1, <1>5, <1>6, <1>7, AfterDescribes
<1>9. NoChange BY <1>4, <1>8 DEF NoChange, Keeping
<1>10. IInv' BY <1>8 DEF IInv
<1> QED BY <1>9, <1>10

(* q words of used block b are copied to used block c.                     *)
Copied(h, k, T, y, G, P, b, c, q) ==
    /\ HeapState(k, T, y, G, P) /\ SameOn(h, k, Starts(P))
    /\ \A e \in T \ G : e # c => SameOn(h, k, Own(y, e) \cap Addr)
    /\ \A i \in 0 .. q - 1 : k.mem[c + 2 * W + W * i] = h.mem[b + 2 * W + W * i]

LEMMA CopyFacts ==
    ASSUME NEW P, NEW T, NEW y, NEW G, NEW h, HeapState(h, T, y, G, P),
           NEW b \in T, b \notin G, NEW c \in T, c \notin G,
           NEW m, NEW q \in Nat, RoundUp(m, W) = q * W, q * W <= y[b], q * W <= y[c]
    PROVE  Copied(h, CopyWords(h, c + 2 * W, b + 2 * W, m), T, y, G, P, b, c, q)
<1> DEFINE to == c + 2 * W
           from == b + 2 * W
           A == WordsFrom(to, q * W)
           v == [a \in Addr |-> IF a \in A THEN h.mem[from + (a - to)] ELSE h.mem[a]]
           k == CopyWords(h, to, from, m)
<1>1. ListState(h, T, y, G, G, P) BY DEF HeapState
<1>2. PoolsOK(P) /\ Chain(T, y, P) /\ h \in HeapType BY <1>1, StateFacts
<1>3. b \in Nat /\ c \in Nat BY <1>2, BlockPlace
<1>4. W \in Nat \ {0} BY Layout
<1>5. to \in Nat /\ from \in Nat BY <1>3, <1>4
<1>6. A \subseteq Own(y, c) \cap Addr BY <1>2, AskedOwn
<1>7. WordsFrom(from, q * W) \subseteq Addr BY <1>2, AskedOwn
<1> HIDE DEF to, from
<1>8. A = {to + W * i : i \in 0 .. q - 1} BY <1>5, WordsOf
<1>9. WordsFrom(from, q * W) = {from + W * i : i \in 0 .. q - 1} BY <1>5, WordsOf
<1> HIDE DEF A
<1>10. ASSUME NEW i \in 0 .. q - 1
       PROVE  /\ to + W * i \in A /\ to + W * i \in Addr /\ from + W * i \in Addr
              /\ from + ((to + W * i) - to) = from + W * i
  <2>1. W * i \in Nat BY <1>4
  <2> DEFINE j == W * i
  <2>2. j \in Nat BY <2>1
  <2> HIDE DEF j
  <2>3. from + ((to + j) - to) = from + j BY <1>5, <2>2
  <2> QED BY <1>6, <1>7, <1>8, <1>9, <2>3 DEF j
<1>11. h.mem \in [Addr -> Nat] BY <1>2 DEF HeapType
<1>12. ASSUME NEW a \in A PROVE h.mem[from + (a - to)] \in Nat
  <2>1. PICK i \in 0 .. q - 1 : a = to + W * i BY <1>8
  <2>2. from + (a - to) \in Addr BY <1>10, <2>1
  <2> QED BY <1>11, <2>2
<1>13. v \in [Addr -> Nat] BY <1>11, <1>12
<1>14. k = [h EXCEPT !.mem = v]
  <2>1. DOMAIN h.mem = Addr BY <1>11
  <2> QED BY <2>1 DEF CopyWords, A
<1>15. /\ k \in HeapType /\ k.mem = v
       /\ k.fl_bitmap = h.fl_bitmap /\ k.sl_bitmap = h.sl_bitmap /\ k.blocks = h.blocks
  <2> HIDE DEF k, v
  <2> QED BY <1>2, <1>13, <1>14, MemSet
<1>16. /\ \A x \in Addr : x \notin A => k.mem[x] = h.mem[x]
       /\ \A x \in Addr : x \in A => k.mem[x] = h.mem[from + (x - to)]
  BY <1>15
<1> HIDE DEF k, v
<1>17. Wrote(h, k, A) BY <1>15, <1>16 DEF Wrote
<1>18. /\ HeapState(k, T, y, G, P) /\ SameOn(h, k, Starts(P))
       /\ \A e \in T \ G : e # c => SameOn(h, k, Own(y, e) \cap Addr)
  BY <1>6, <1>17, UserWrites
<1>19. ASSUME NEW i \in 0 .. q - 1 PROVE k.mem[to + W * i] = h.mem[from + W * i]
  BY <1>10, <1>16
<1>20. Copied(h, k, T, y, G, P, b, c, q) BY <1>18, <1>19 DEF Copied, to, from
<1> QED BY <1>20 DEF k, to, from

(* How much is copied when a block of size cur moves to one of a bytes.    *)
LEMMA CopySize ==
    ASSUME NEW size \in Requests, adjust_request_size(size, ALIGN_SIZE) # 0, NEW cur, Aligned(cur)
    PROVE  LET m == IF cur < size THEN cur ELSE size
               a == adjust_request_size(size, ALIGN_SIZE)
           IN  \E q \in Nat : /\ RoundUp(m, W) = q * W /\ q * W <= cur /\ q * W <= a
                              /\ \A i \in Nat : i < Words(size) /\ W * i < cur => i < q
<1> DEFINE m == IF cur < size THEN cur ELSE size
           a == adjust_request_size(size, ALIGN_SIZE)
           n == Words(size)
<1>1. W \in Nat \ {0} /\ ALIGN_SIZE = W BY Layout
<1>2. cur \in Nat /\ size \in Nat BY RequestFacts DEF Aligned
<1>3. n \in Nat /\ n * W <= a /\ RoundUp(size, W) = n * W BY WordsFit
<1>4. Aligned(a) /\ size <= a BY AdjustRequest
<1>5. a \in Nat BY <1>4 DEF Aligned
<1> HIDE DEF n, a
<1>6. n * W \in Nat BY <1>1, <1>3
<1>7. CASE cur < size
  <2>1. m = cur BY <1>7
  <2>2. PICK q \in Nat : cur = W * q
    <3>1. CASE W = 4
      <4>1. cur % 4 = 0 BY <3>1 DEF Aligned
      <4>2. cur = 4 * (cur \div 4) /\ cur \div 4 \in Nat BY <1>2, <4>1
      <4> QED BY <3>1, <4>2
    <3>2. CASE W = 8
      <4>1. cur % 8 = 0 BY <3>2 DEF Aligned
      <4>2. cur = 8 * (cur \div 8) /\ cur \div 8 \in Nat BY <1>2, <4>1
      <4> QED BY <3>2, <4>2
    <3> QED BY <3>1, <3>2, Layout
  <2>3. RoundUp(m, W) = W * q BY <1>1, <2>1, <2>2, RoundedUpSame
  <2>4. W * q = q * W BY <1>1, <2>2
  <2>5. cur <= a BY <1>2, <1>4, <1>5, <1>7
  <2>6. ASSUME NEW i \in Nat, W * i < cur PROVE i < q
    <3> SUFFICES ASSUME q <= i PROVE FALSE BY SMT
    <3>1. \A u, v, w \in Nat : u <= v => w * u <= w * v BY SMT
    <3>2. W * q <= W * i BY <1>1, <2>2, <3>1
    <3>3. W * q \in Nat /\ W * i \in Nat BY <1>1
    <3> QED BY <2>2, <2>6, <3>2, <3>3
  <2>7. q * W = cur /\ cur <= cur BY <1>2, <2>2, <2>4
  <2> HIDE DEF m
  <2>8. RoundUp(m, W) = q * W /\ q * W <= cur /\ q * W <= a BY <2>3, <2>4, <2>5, <2>7
  <2> QED BY <2>6, <2>8 DEF m, a, n
<1>8. CASE ~ (cur < size)
  <2>1. m = size BY <1>8
  <2>2. RoundUp(m, W) = n * W BY <1>3, <2>1
  <2>3. n * W <= cur
    <3>1. size <= cur BY <1>2, <1>8
    <3>2. RoundUp(size, W) < size + W /\ RoundUp(size, W) \in Nat BY <1>1, <1>2, RoundedUp
    <3>3. Aligned(n * W)
      <4>1. Aligned(W * n) BY <1>3, MultipleAligned, AlignedWords
      <4>2. n * W = W * n BY <1>1, <1>3
      <4> QED BY <4>1, <4>2
    <3> DEFINE u == n * W
    <3>4. Aligned(u) /\ u < size + W /\ u \in Nat BY <1>3, <3>2, <3>3
    <3> HIDE DEF u
    <3>5. ~ (cur < u)
      <4> SUFFICES ASSUME cur < u PROVE FALSE OBVIOUS
      <4>1. cur + W <= u BY <3>4, AlignedGap
      <4> QED BY <1>1, <1>2, <3>1, <3>4, <4>1
    <3>6. u <= cur BY <1>2, <3>4, <3>5
    <3> QED BY <3>6 DEF u
  <2> HIDE DEF m
  <2> QED BY <1>3, <2>2, <2>3 DEF m, a, n
<1> QED BY <1>7, <1>8

(* Which words of a block are the first ones.                              *)
LEMMA WordIn ==
    ASSUME NEW p \in Nat, NEW n \in Nat, NEW i \in Nat, i < n
    PROVE  p + W * i \in WordsFrom(p, n * W)
<1>1. i \in 0 .. n - 1 BY SMT
<1> QED BY <1>1, WordsOf

(* Block b moves to c: the old contents are copied, the old block is given *)
(* back, and the user fills the rest.                                      *)
LEMMA MovedStep ==
    ASSUME NEW S, NEW z, NEW Fr, Describes(heap, live, pools, S, z, Fr),
           NEW b \in Used(S, Fr, pools), NEW size \in Requests,
           adjust_request_size(size, ALIGN_SIZE) # 0,
           NEW new, NEW c, NEW T, NEW y, NEW G,
           Gives(heap, new, S, z, Fr, adjust_request_size(size, ALIGN_SIZE), pools, c, T, y, G),
           b + 2 * W \in DOMAIN live,
           After(Fill(tlsf_free(CopyWords(new.heap, new.ptr, b + 2 * W,
                                          IF z[b] < size THEN z[b] ELSE size), b + 2 * W),
                      new.ptr, live[b + 2 * W].n, Words(size)),
                 With(Without(b + 2 * W), new.ptr, Asked(ALIGN_SIZE, size)), pools)
    PROVE  IInv' /\ Moved
<1> DEFINE P == pools
           p == b + 2 * W
           q == c + 2 * W
           a == adjust_request_size(size, ALIGN_SIZE)
           n == Words(size)
           kept == live[p].n
           use == Asked(ALIGN_SIZE, size)
           m == IF z[b] < size THEN z[b] ELSE size
           k == CopyWords(new.heap, q, p, m)
           g == tlsf_free(k, p)
           f == Fill(g, q, kept, n)
           l == With(Without(p), q, use)
<1>1. /\ HeapState(heap, S, z, Fr, P) /\ Users(live, S, z, Fr, P) /\ Fronts(heap, P)
  BY DEF Describes
<1>2. PoolsOK(P) /\ Chain(S, z, P) BY <1>1, StateFacts DEF HeapState
<1>3. new.ptr = q /\ HandedTo(heap, new.heap, S, z, Fr, c, a, P, T, y, G) BY DEF Gives
<1>4. /\ HeapState(new.heap, T, y, G, P) /\ c \in T /\ c \notin Ends(P) /\ a <= y[c]
      /\ T \ G = (S \ Fr) \cup {c} /\ c \notin S \ Fr
      /\ \A e \in S \ Fr : y[e] = z[e]
      /\ SameOn(heap, new.heap, Safe(S, z, Fr, P))
  BY <1>3 DEF HandedTo
<1>5. After(f, l, P) BY <1>3
<1>6. b \in S /\ b \notin Fr /\ b \notin Ends(P) BY DEF Used
<1>7. Chain(T, y, P) BY <1>4, StateFacts DEF HeapState
<1>8. b \in T /\ b \notin G /\ b # c /\ y[b] = z[b] /\ c \notin G BY <1>4, <1>6
<1>9. c \in Nat /\ y[c] \in Nat BY <1>2, <1>4, <1>7, BlockPlace
<1>10. b \in Nat /\ Aligned(z[b]) /\ z[b] \in Nat BY <1>2, <1>6, BlockPlace
<1>11. W \in Nat \ {0} BY Layout
<1>12. p \in Nat /\ q \in Nat /\ p # q BY <1>8, <1>9, <1>10, <1>11
<1>13. n \in Nat /\ n * W <= a BY WordsFit
<1>14. a \in Nat BY AdjustType
<1>15. PICK j \in Nat : /\ RoundUp(m, W) = j * W /\ j * W <= z[b] /\ j * W <= a
                        /\ \A i \in Nat : i < n /\ W * i < z[b] => i < j
  BY <1>10, CopySize
<1>16. kept \in Nat /\ kept * W <= z[b] BY <1>1 DEF Users, Fits
<1>17. use.n = n /\ use.align = ALIGN_SIZE BY DEF Asked
<1> HIDE DEF a, n, kept, use, m, k, g, f, l
<1>18. \A u \in Nat : u * W \in Nat BY <1>11
<1>19. j * W <= y[b] /\ j * W <= y[c] /\ n * W <= y[c]
  <2> DEFINE u == j * W
             v == n * W
  <2>1. u \in Nat /\ v \in Nat /\ u <= a /\ v <= a BY <1>13, <1>15, <1>18
  <2> HIDE DEF u, v
  <2>2. u <= y[c] /\ v <= y[c] BY <1>4, <1>9, <1>14, <2>1
  <2> QED BY <1>8, <1>15, <2>2 DEF u, v
<1>20. Copied(new.heap, k, T, y, G, P, b, c, j) BY <1>4, <1>8, <1>15, <1>19, CopyFacts DEF k
<1>21. /\ HeapState(k, T, y, G, P) /\ SameOn(new.heap, k, Starts(P))
       /\ \A e \in T \ G : e # c => SameOn(new.heap, k, Own(y, e) \cap Addr)
       /\ \A i \in 0 .. j - 1 : k.mem[q + W * i] = new.heap.mem[p + W * i]
  BY <1>20 DEF Copied
<1>22. b \in Used(T, G, P) BY <1>6, <1>8 DEF Used
<1>23. \E U, x, K : RejoinedTo(k, g, T, y, G \cup {b}, P, U, x, K) BY <1>21, <1>22, FreeBlock DEF g
<1>24. PICK U, x, K : RejoinedTo(k, g, T, y, G \cup {b}, P, U, x, K) BY <1>23
<1>25. /\ HeapState(g, U, x, K, P) /\ UsedKept(T, y, G \cup {b}, U, x, K)
       /\ SameOn(k, g, Safe(T, y, G \cup {b}, P))
  BY <1>24 DEF RejoinedTo
<1>26. U \ K = T \ (G \cup {b}) /\ \A e \in T \ (G \cup {b}) : x[e] = y[e] BY <1>25 DEF UsedKept
<1>27. c \in U /\ c \notin K /\ x[c] = y[c] BY <1>4, <1>8, <1>26
<1>28. Filled(g, f, U, x, K, P, c, kept, n)
  BY <1>13, <1>16, <1>19, <1>25, <1>27, FillFacts DEF f
<1>29. /\ HeapState(f, U, x, K, P) /\ SameOn(g, f, Starts(P))
       /\ \A e \in U \ K : e # c => SameOn(g, f, Own(x, e) \cap Addr)
       /\ \A i \in 0 .. n - 1 : i < kept => f.mem[q + W * i] = g.mem[q + W * i]
  BY <1>28 DEF Filled
<1>30. S \subseteq Nat /\ T \subseteq Nat BY <1>2, <1>7, BlockPlace
<1>31. Users(l, U, x, K, P)
  <2> DEFINE l1 == With(live, q, use)
  <2>1. Aligned(c) BY <1>2, <1>4, <1>7, BlockPlace
  <2>2. Aligned(q) BY <2>1, AlignedSum, AlignedWords
  <2>3. q % use.align = 0 BY <1>17, <2>2, Layout DEF Aligned
  <2>4. Fits(y, c, use) BY <1>13, <1>17, <1>19, <2>3 DEF Fits
  <2>a. \A e \in S \ Fr : y[e] = z[e] BY <1>4
  <2>b. T \ G = (S \ Fr) \cup {c} /\ c \notin S \ Fr /\ c \notin Ends(P) /\ c \in Nat /\ S \subseteq Nat
    BY <1>4, <1>9, <1>30
  <2>5. Users(With(live, c + 2 * W, use), T, y, G, P) BY <1>1, <2>4, <2>a, <2>b, UsersWith
  <2>6. DOMAIN l = DOMAIN l1 \ {p} BY <1>12 DEF l, With, Without
  <2>7. \A e \in DOMAIN l : l[e] = l1[e] BY <1>12 DEF l, With, Without
  <2>8. Users(l1, T, y, G, P) BY <2>5
  <2> HIDE DEF l1
  <2> QED BY <1>8, <1>25, <1>30, <2>6, <2>7, <2>8, UsersWithout
<1>32. SameOn(heap, f, Starts(P))
  <2>1. SameOn(heap, new.heap, Starts(P)) BY <1>2, <1>4, StartsSafe DEF SameOn
  <2>2. SameOn(k, g, Starts(P)) BY <1>2, <1>25, StartsSafe DEF SameOn
  <2> QED BY <1>21, <1>29, <2>1, <2>2 DEF SameOn
<1>33. \A pool \in P : f.mem[Lo(pool)] \in Garbage BY <1>1, <1>2, <1>32, FrontsKept
<1>34. /\ live' = l /\ pools' = P /\ Describes(heap', l, P, U, x, K)
       /\ \A e \in DOMAIN l : SameOn(f, heap', WordsFrom(e, l[e].n * W))
  BY <1>5, <1>29, <1>31, <1>33, AfterDescribes
<1>35. q \notin DOMAIN live
  <2> SUFFICES ASSUME q \in DOMAIN live PROVE FALSE OBVIOUS
  <2>1. PICK e \in Used(S, Fr, P) : q = e + 2 * W /\ e \in S /\ e \notin Fr /\ e \in Nat
    BY HeldBlock
  <2>2. e = c BY <1>9, <1>11, <2>1
  <2> QED BY <1>4, <2>1, <2>2
<1>36. /\ DOMAIN l = (DOMAIN live \ {p}) \cup {q} /\ l[q] = use
       /\ \A e \in DOMAIN live \ {p} : l[e] = live[e]
  BY <1>35 DEF l, With, Without
<1>37. ASSUME NEW e \in DOMAIN live \ {p}
       PROVE  SameOn(heap, heap', WordsFrom(e, live[e].n * W))
  <2>1. PICK d \in Used(S, Fr, P) :
           e = d + 2 * W /\ d \in S /\ d \notin Fr /\ WordsFrom(e, live[e].n * W) \subseteq Own(z, d) \cap Addr
    BY HeldBlock
  <2>2. d # b /\ d # c /\ d \in T \ G /\ y[d] = z[d] BY <1>4, <2>1
  <2>3. d \in T \ (G \cup {b}) /\ d \in U \ K /\ x[d] = z[d] BY <1>26, <2>2
  <2>4. Own(y, d) = Own(z, d) /\ Own(x, d) = Own(z, d) BY <2>2, <2>3 DEF Own, Nx
  <2>5. Own(z, d) \cap Addr \subseteq Safe(S, z, Fr, P) BY <2>1, OwnSafe
  <2>6. Own(y, d) \cap Addr \subseteq Safe(T, y, G \cup {b}, P) BY <2>3, OwnSafe
  <2>7. SameOn(heap, new.heap, Own(z, d) \cap Addr) BY <1>4, <2>5 DEF SameOn
  <2>8. SameOn(new.heap, k, Own(z, d) \cap Addr) BY <1>21, <2>2, <2>4
  <2>9. SameOn(k, g, Own(z, d) \cap Addr) BY <1>25, <2>4, <2>6 DEF SameOn
  <2>10. SameOn(g, f, Own(z, d) \cap Addr) BY <1>29, <2>2, <2>3, <2>4
  <2>11. SameOn(f, heap', WordsFrom(e, live[e].n * W)) BY <1>34, <1>36
  <2> QED BY <2>1, <2>7, <2>8, <2>9, <2>10, <2>11 DEF SameOn
<1>38. Keeping(DOMAIN live \ {p}) BY <1>34, <1>36, <1>37 DEF Keeping
<1>39. ASSUME NEW i \in Nat, i < kept, i < n PROVE heap'.mem[q + W * i] = heap.mem[p + W * i]
  <2>1. W * i < z[b]
    <3>1. \A u, v, w \in Nat : u + 1 <= v => w * u + w <= v * w BY SMT
    <3>2. i + 1 <= kept BY <1>16, <1>39
    <3>3. W * i + W <= kept * W BY <1>11, <1>16, <3>1, <3>2
    <3>4. W * i \in Nat /\ kept * W \in Nat BY <1>11, <1>16
    <3> QED BY <1>10, <1>11, <1>16, <3>3, <3>4
  <2>2. i < j BY <1>15, <1>39, <2>1
  <2>3. i \in 0 .. j - 1 /\ i \in 0 .. n - 1 BY <1>13, <1>39, <2>2
  <2>4. heap'.mem[q + W * i] = f.mem[q + W * i]
    <3>1. q + W * i \in WordsFrom(q, n * W) BY <1>12, <1>13, <1>39, WordIn
    <3>2. q \in DOMAIN l /\ l[q].n = n BY <1>17, <1>36
    <3>3. SameOn(f, heap', WordsFrom(q, n * W)) BY <1>34, <3>2
    <3> QED BY <3>1, <3>3 DEF SameOn
  <2>5. f.mem[q + W * i] = g.mem[q + W * i] BY <1>29, <1>39, <2>3
  <2>6. g.mem[q + W * i] = k.mem[q + W * i]
    <3>1. q + W * i \in WordsFrom(q, n * W) BY <1>12, <1>13, <1>39, WordIn
    <3>2. WordsFrom(q, n * W) \subseteq Own(y, c) \cap Addr
      BY <1>2, <1>4, <1>7, <1>13, <1>19, AskedOwn
    <3>3. c \in T \ (G \cup {b}) BY <1>4, <1>8
    <3>4. Own(y, c) \cap Addr \subseteq Safe(T, y, G \cup {b}, P) BY <3>3, OwnSafe
    <3> QED BY <1>25, <3>1, <3>2, <3>4 DEF SameOn
  <2>7. k.mem[q + W * i] = new.heap.mem[p + W * i] BY <1>21, <2>3
  <2>8. new.heap.mem[p + W * i] = heap.mem[p + W * i]
    <3>1. p + W * i \in WordsFrom(p, kept * W) BY <1>12, <1>16, <1>39, WordIn
    <3>2. WordsFrom(p, kept * W) \subseteq Own(z, b) \cap Addr BY <1>2, <1>6, <1>16, AskedOwn
    <3>3. Own(z, b) \cap Addr \subseteq Safe(S, z, Fr, P) BY <1>6, OwnSafe
    <3> QED BY <1>4, <3>1, <3>2, <3>3 DEF SameOn
  <2> QED BY <2>4, <2>5, <2>6, <2>7, <2>8
<1>40. SamePrefix(p, q)
  <2>1. live'[q].n = n BY <1>17, <1>34, <1>36
  <2> QED BY <1>39, <2>1 DEF SamePrefix, kept
<1>41. q \in DOMAIN live' /\ DOMAIN live' = (DOMAIN live \ {p}) \cup {q} BY <1>34, <1>36
<1>42. Moved BY <1>34, <1>35, <1>38, <1>40, <1>41 DEF Moved
<1>43. IInv' BY <1>34 DEF IInv
<1> QED BY <1>42, <1>43

(* Block b keeps its place and has at least a bytes.                       *)
StaysTo(h, g, S, z, Fr, b, a, P, U, x, K) ==
    /\ HeapState(g, U, x, K, P)
    /\ U \ K = S \ Fr /\ \A q \in S \ Fr : q # b => x[q] = z[q]
    /\ a <= x[b]
    /\ SameOn(h, g, Safe(S, z, Fr, P) \cap Safe(U, x, K, P))

LEMMA Stays ==
    ASSUME NEW P, NEW S, NEW z, NEW Fr, NEW h, HeapState(h, S, z, Fr, P),
           NEW b \in Used(S, Fr, P), NEW a, Aligned(a), 3 * W <= a,
           a > z[b] => Nx(z, b) \in Fr /\ a <= z[b] + z[Nx(z, b)] + W
    PROVE  LET grown == block_mark_as_used(block_merge_next(h, b).heap, b)
               g == block_trim_used(IF a > z[b] THEN grown ELSE h, b, a)
           IN  \E U, x, K : StaysTo(h, g, S, z, Fr, b, a, P, U, x, K)
<1> DEFINE grown == block_mark_as_used(block_merge_next(h, b).heap, b)
           g == block_trim_used(IF a > z[b] THEN grown ELSE h, b, a)
<1>1. PoolsOK(P) /\ Chain(S, z, P) BY StateFacts DEF HeapState
<1>2. b \in S /\ b \notin Fr /\ b \notin Ends(P) BY DEF Used
<1>3. z[b] \in Nat /\ a \in Nat BY <1>1, <1>2, BlockPlace DEF Aligned
<1>4. CASE ~ (a > z[b])
  <2>1. g = block_trim_used(h, b, a) BY <1>4
  <2>2. a <= z[b] BY <1>3, <1>4
  <2> HIDE DEF g
  <2>3. PICK U, x, K : /\ ResizedTo(h, g, S, z, Fr, b, P, U, x, K)
                       /\ a <= x[b] /\ x[b] <= z[b] /\ SameOn(h, g, Safe(U, x, K, P))
    BY <2>1, <2>2, TrimUsed
  <2>4. StaysTo(h, g, S, z, Fr, b, a, P, U, x, K) BY <2>3 DEF StaysTo, ResizedTo, SameOn
  <2> QED BY <2>4 DEF g
<1>5. CASE a > z[b]
  <2>1. g = block_trim_used(grown, b, a) BY <1>5
  <2>2. Nx(z, b) \in Fr /\ a <= z[b] + z[Nx(z, b)] + W BY <1>5
  <2>3. \E T, y, G : /\ ResizedTo(h, grown, S, z, Fr, b, P, T, y, G)
                     /\ y[b] = z[b] + z[Nx(z, b)] + W
                     /\ SameOn(h, grown, Safe(S, z, Fr, P))
                     /\ Safe(S, z, Fr, P) \subseteq Safe(T, y, G, P)
    BY <2>2, GrowUsed
  <2> HIDE DEF g, grown
  <2>4. PICK T, y, G : /\ ResizedTo(h, grown, S, z, Fr, b, P, T, y, G)
                       /\ y[b] = z[b] + z[Nx(z, b)] + W
                       /\ SameOn(h, grown, Safe(S, z, Fr, P))
    BY <2>3
  <2>5. /\ HeapState(grown, T, y, G, P) /\ T \ G = S \ Fr
        /\ \A q \in S \ Fr : q # b => y[q] = z[q]
    BY <2>4 DEF ResizedTo
  <2>6. b \in Used(T, G, P) /\ a <= y[b] BY <1>2, <2>2, <2>4, <2>5 DEF Used
  <2>7. PICK U, x, K : /\ ResizedTo(grown, g, T, y, G, b, P, U, x, K)
                       /\ a <= x[b] /\ x[b] <= y[b] /\ SameOn(grown, g, Safe(U, x, K, P))
    BY <2>1, <2>5, <2>6, TrimUsed
  <2>8. /\ HeapState(g, U, x, K, P) /\ U \ K = T \ G
        /\ \A q \in T \ G : q # b => x[q] = y[q]
    BY <2>7 DEF ResizedTo
  <2>9. SameOn(h, g, Safe(S, z, Fr, P) \cap Safe(U, x, K, P)) BY <2>4, <2>7 DEF SameOn
  <2>10. StaysTo(h, g, S, z, Fr, b, a, P, U, x, K) BY <2>5, <2>7, <2>8, <2>9 DEF StaysTo
  <2> QED BY <2>10 DEF g, grown
<1> QED BY <1>4, <1>5

(* The users agree on the blocks but b.                                    *)
OnlyOne(l, m, S, z, Fr, P, b, U, x, K) ==
    /\ Users(l, S, z, Fr, P) /\ S \subseteq Nat /\ b \in Used(S, Fr, P)
    /\ U \ K = S \ Fr /\ \A q \in S \ Fr : q # b => x[q] = z[q]
    /\ DOMAIN m = DOMAIN l /\ Fits(x, b, m[b + 2 * W])
    /\ \A p \in DOMAIN m : p # b + 2 * W => m[p] = l[p]

LEMMA UsersResized ==
    ASSUME NEW P, NEW S, NEW z, NEW Fr, NEW l, NEW b, NEW U, NEW x, NEW K, NEW m,
           OnlyOne(l, m, S, z, Fr, P, b, U, x, K)
    PROVE  Users(m, U, x, K, P)
<1>0. /\ Users(l, S, z, Fr, P) /\ S \subseteq Nat /\ b \in Used(S, Fr, P)
      /\ U \ K = S \ Fr /\ \A q \in S \ Fr : q # b => x[q] = z[q]
      /\ DOMAIN m = DOMAIN l /\ Fits(x, b, m[b + 2 * W])
      /\ \A p \in DOMAIN m : p # b + 2 * W => m[p] = l[p]
  BY DEF OnlyOne
<1>1. Used(U, K, P) = Used(S, Fr, P) BY <1>0 DEF Used
<1>2. /\ DOMAIN l = {q + 2 * W : q \in Used(S, Fr, P)}
      /\ \A q \in Used(S, Fr, P) : Fits(z, q, l[q + 2 * W])
  BY <1>0 DEF Users
<1>3. ASSUME NEW q \in Used(S, Fr, P) PROVE Fits(x, q, m[q + 2 * W])
  <2>1. CASE q = b BY <1>0, <2>1
  <2>2. CASE q # b
    <3>1. q \in S /\ q \notin Fr /\ q \in Nat /\ b \in Nat BY <1>0 DEF Used
    <3>2. W \in Nat BY Layout
    <3>3. q + 2 * W # b + 2 * W BY <2>2, <3>1, <3>2
    <3>4. m[q + 2 * W] = l[q + 2 * W] BY <1>0, <1>2, <3>3
    <3>5. x[q] = z[q] BY <1>0, <2>2, <3>1
    <3>6. Fits(z, q, l[q + 2 * W]) BY <1>2
    <3> QED BY <3>4, <3>5, <3>6 DEF Fits
  <2> QED BY <2>1, <2>2
<1>4. DOMAIN m = {q + 2 * W : q \in Used(S, Fr, P)} BY <1>0, <1>2
<1> QED BY <1>1, <1>3, <1>4 DEF Users

(* Block b has another size where it is.                                   *)
LEMMA StaysStep ==
    ASSUME NEW S, NEW z, NEW Fr, Describes(heap, live, pools, S, z, Fr),
           NEW b \in Used(S, Fr, pools), NEW size \in Requests,
           adjust_request_size(size, ALIGN_SIZE) # 0, NEW g, NEW U, NEW x, NEW K,
           StaysTo(heap, g, S, z, Fr, b, adjust_request_size(size, ALIGN_SIZE), pools, U, x, K),
           b + 2 * W \in DOMAIN live,
           After(Fill(g, b + 2 * W, live[b + 2 * W].n, Words(size)),
                 With(Without(b + 2 * W), b + 2 * W, Asked(ALIGN_SIZE, size)), pools)
    PROVE  IInv' /\ Moved
<1> DEFINE P == pools
           p == b + 2 * W
           a == adjust_request_size(size, ALIGN_SIZE)
           n == Words(size)
           kept == live[p].n
           use == Asked(ALIGN_SIZE, size)
           f == Fill(g, p, kept, n)
           l == With(Without(p), p, use)
<1>1. /\ HeapState(heap, S, z, Fr, P) /\ Users(live, S, z, Fr, P) /\ Fronts(heap, P)
  BY DEF Describes
<1>2. PoolsOK(P) /\ Chain(S, z, P) BY <1>1, StateFacts DEF HeapState
<1>3. /\ HeapState(g, U, x, K, P)
      /\ U \ K = S \ Fr /\ \A q \in S \ Fr : q # b => x[q] = z[q]
      /\ a <= x[b]
      /\ SameOn(heap, g, Safe(S, z, Fr, P) \cap Safe(U, x, K, P))
  BY DEF StaysTo
<1>4. Chain(U, x, P) BY <1>3, StateFacts DEF HeapState
<1>5. b \in S /\ b \notin Fr /\ b \in U /\ b \notin K BY <1>3 DEF Used
<1>6. x[b] \in Nat /\ Aligned(b) /\ b \in Nat BY <1>2, <1>4, <1>5, BlockPlace
<1>7. W \in Nat \ {0} BY Layout
<1>8. p \in Nat BY <1>6, <1>7
<1>9. n \in Nat /\ n * W <= a /\ a \in Nat BY WordsFit, AdjustType
<1>10. kept \in Nat /\ kept * W <= z[b] BY <1>1 DEF Users, Fits
<1>11. use.n = n /\ use.align = ALIGN_SIZE BY DEF Asked
<1>12. After(f, l, P) OBVIOUS
<1>13. DOMAIN l = DOMAIN live /\ l[p] = use /\ \A q \in DOMAIN l : q # p => l[q] = live[q]
  BY DEF With, Without
<1> HIDE DEF a, n, kept, use, f, l
<1>14. n * W <= x[b]
  <2> DEFINE v == n * W
  <2>1. v \in Nat /\ v <= a BY <1>7, <1>9
  <2> HIDE DEF v
  <2>2. v <= x[b] BY <1>3, <1>6, <1>9, <2>1
  <2> QED BY <2>2 DEF v
<1>15. Filled(g, f, U, x, K, P, b, kept, n)
  BY <1>3, <1>5, <1>9, <1>10, <1>14, FillFacts DEF f
<1>16. /\ HeapState(f, U, x, K, P) /\ SameOn(g, f, Starts(P))
       /\ \A e \in U \ K : e # b => SameOn(g, f, Own(x, e) \cap Addr)
       /\ \A i \in 0 .. n - 1 : i < kept => f.mem[p + W * i] = g.mem[p + W * i]
  BY <1>15 DEF Filled
<1>17. Users(l, U, x, K, P)
  <2>1. Aligned(p) BY <1>6, AlignedSum, AlignedWords
  <2>2. p % use.align = 0 BY <1>11, <2>1, Layout DEF Aligned
  <2>3. Fits(x, b, use) BY <1>9, <1>11, <1>14, <2>2 DEF Fits
  <2>4. S \subseteq Nat BY <1>2, BlockPlace
  <2>5. U \ K = S \ Fr /\ \A q \in S \ Fr : q # b => x[q] = z[q] BY <1>3
  <2>6. DOMAIN l = DOMAIN live /\ l[p] = use /\ \A q \in DOMAIN l : q # p => l[q] = live[q]
    BY <1>13
  <2>7. Fits(x, b, l[p]) BY <2>3, <2>6
  <2>8. OnlyOne(live, l, S, z, Fr, P, b, U, x, K)
    BY <1>1, <2>4, <2>5, <2>6, <2>7 DEF OnlyOne
  <2> QED BY <2>8, UsersResized
<1>18. Starts(P) \subseteq Safe(S, z, Fr, P) /\ Starts(P) \subseteq Safe(U, x, K, P)
  BY <1>2, StartsSafe
<1>19. SameOn(heap, f, Starts(P)) BY <1>3, <1>16, <1>18 DEF SameOn
<1>20. \A pool \in P : f.mem[Lo(pool)] \in Garbage BY <1>1, <1>2, <1>19, FrontsKept
<1>21. /\ live' = l /\ pools' = P /\ Describes(heap', l, P, U, x, K)
       /\ \A e \in DOMAIN l : SameOn(f, heap', WordsFrom(e, l[e].n * W))
  BY <1>12, <1>16, <1>17, <1>20, AfterDescribes
<1>22. ASSUME NEW e \in DOMAIN live \ {p}
       PROVE  SameOn(heap, heap', WordsFrom(e, live[e].n * W))
  <2>1. PICK d \in Used(S, Fr, P) :
           e = d + 2 * W /\ d \in S /\ d \notin Fr /\ WordsFrom(e, live[e].n * W) \subseteq Own(z, d) \cap Addr
    BY HeldBlock
  <2>2. d # b /\ d \in U \ K /\ x[d] = z[d] BY <1>3, <2>1
  <2>3. Own(x, d) = Own(z, d) BY <2>2 DEF Own, Nx
  <2>4. Own(z, d) \cap Addr \subseteq Safe(S, z, Fr, P) BY <2>1, OwnSafe
  <2>5. Own(x, d) \cap Addr \subseteq Safe(U, x, K, P) BY <2>2, OwnSafe
  <2>6. SameOn(heap, g, Own(z, d) \cap Addr) BY <1>3, <2>3, <2>4, <2>5 DEF SameOn
  <2>7. SameOn(g, f, Own(z, d) \cap Addr) BY <1>16, <2>2, <2>3
  <2>8. SameOn(f, heap', WordsFrom(e, live[e].n * W)) BY <1>13, <1>21
  <2> QED BY <2>1, <2>6, <2>7, <2>8 DEF SameOn
<1>23. Keeping(DOMAIN live \ {p}) BY <1>13, <1>21, <1>22 DEF Keeping
<1>24. ASSUME NEW i \in Nat, i < kept, i < n PROVE heap'.mem[p + W * i] = heap.mem[p + W * i]
  <2>1. i \in 0 .. n - 1 BY <1>9, <1>24
  <2>2. p + W * i \in WordsFrom(p, n * W) /\ p + W * i \in WordsFrom(p, kept * W)
    BY <1>8, <1>9, <1>10, <1>24, WordIn
  <2>3. heap'.mem[p + W * i] = f.mem[p + W * i]
    <3>1. p \in DOMAIN l /\ l[p].n = n BY <1>11, <1>13
    <3>2. SameOn(f, heap', WordsFrom(p, n * W)) BY <1>21, <3>1
    <3> QED BY <2>2, <3>2 DEF SameOn
  <2>4. f.mem[p + W * i] = g.mem[p + W * i] BY <1>16, <1>24, <2>1
  <2>5. WordsFrom(p, n * W) \subseteq Own(x, b) \cap Addr BY <1>2, <1>4, <1>5, <1>9, <1>14, AskedOwn
  <2>6. WordsFrom(p, kept * W) \subseteq Own(z, b) \cap Addr BY <1>2, <1>5, <1>10, AskedOwn
  <2>7. Own(z, b) \cap Addr \subseteq Safe(S, z, Fr, P) BY <1>5, OwnSafe
  <2>8. Own(x, b) \cap Addr \subseteq Safe(U, x, K, P) BY <1>5, OwnSafe
  <2>9. g.mem[p + W * i] = heap.mem[p + W * i]
    BY <1>3, <2>2, <2>5, <2>6, <2>7, <2>8 DEF SameOn
  <2> QED BY <2>3, <2>4, <2>9
<1>25. SamePrefix(p, p)
  <2>1. live'[p].n = n BY <1>11, <1>13, <1>21
  <2> QED BY <1>24, <2>1 DEF SamePrefix, kept
<1>26. p \in DOMAIN live' /\ DOMAIN live' = (DOMAIN live \ {p}) \cup {p} BY <1>13, <1>21
<1>27. Moved BY <1>21, <1>23, <1>25, <1>26 DEF Moved
<1>28. IInv' BY <1>21 DEF IInv
<1> QED BY <1>27, <1>28

(* What tlsf_realloc reads of a block it is given.                         *)
LEMMA ReadBlock ==
    ASSUME NEW P, NEW S, NEW z, NEW Fr, NEW h, HeapState(h, S, z, Fr, P),
           NEW b \in Used(S, Fr, P)
    PROVE  /\ b \in S /\ b \notin Fr /\ b \in Nat /\ z[b] \in Nat /\ z[Nx(z, b)] \in Nat
           /\ block_from_ptr(b + 2 * W) = b /\ block_next(h, b) = Nx(z, b)
           /\ block_size(h, b) = z[b] /\ block_size(h, Nx(z, b)) = z[Nx(z, b)]
           /\ block_is_free(h, Nx(z, b)) <=> Nx(z, b) \in Fr
<1>1. ListState(h, S, z, Fr, Fr, P) BY DEF HeapState
<1>2. PoolsOK(P) /\ Chain(S, z, P) BY <1>1, StateFacts
<1>3. b \in S /\ b \notin Fr /\ b \notin Ends(P) BY DEF Used
<1>4. b \in Nat /\ z[b] \in Nat /\ Nx(z, b) \in S BY <1>2, <1>3, BlockPlace
<1>5. z[Nx(z, b)] \in Nat BY <1>2, <1>4, BlockPlace
<1>6. block_size(h, b) = z[b] /\ block_next(h, b) = Nx(z, b) BY <1>1, <1>3, BlockHead
<1>7. /\ block_size(h, Nx(z, b)) = z[Nx(z, b)]
      /\ block_is_free(h, Nx(z, b)) <=> Nx(z, b) \in Fr
  BY <1>1, <1>4, BlockHead
<1>8. block_from_ptr(b + 2 * W) = b BY <1>4, Layout DEF block_from_ptr
<1> QED BY <1>3, <1>4, <1>5, <1>6, <1>7, <1>8

(* A block has to move.                                                    *)
MustMove(z, Fr, b, a) ==
    a > z[b] /\ (Nx(z, b) \notin Fr \/ a > z[b] + z[Nx(z, b)] + W)

(* The branches of tlsf_realloc for a block that is held.                  *)
LEMMA ResizedIs ==
    ASSUME NEW P, NEW S, NEW z, NEW Fr, NEW h, HeapState(h, S, z, Fr, P),
           NEW b \in Used(S, Fr, P), NEW size
    PROVE  LET a     == adjust_request_size(size, ALIGN_SIZE)
               new   == tlsf_malloc(h, size)
               grown == block_mark_as_used(block_merge_next(h, b).heap, b)
           IN  Resized(h, b + 2 * W, size) =
                 IF MustMove(z, Fr, b, a)
                 THEN IF new.ptr = NULL THEN [heap |-> h, ptr |-> NULL]
                      ELSE [heap |-> tlsf_free(CopyWords(new.heap, new.ptr, b + 2 * W,
                                         IF z[b] < size THEN z[b] ELSE size), b + 2 * W),
                            ptr  |-> new.ptr]
                 ELSE [heap |-> block_trim_used(IF a > z[b] THEN grown ELSE h, b, a),
                       ptr  |-> b + 2 * W]
<1> DEFINE a     == adjust_request_size(size, ALIGN_SIZE)
           p     == b + 2 * W
           next  == block_next(h, b)
           combined == block_size(h, b) + block_size(h, next) + block_header_overhead
<1>1. /\ block_from_ptr(p) = b /\ block_next(h, b) = Nx(z, b)
      /\ block_size(h, b) = z[b] /\ block_size(h, Nx(z, b)) = z[Nx(z, b)]
      /\ block_is_free(h, Nx(z, b)) <=> Nx(z, b) \in Fr
  BY ReadBlock
<1>2. combined = z[b] + z[Nx(z, b)] + W BY <1>1, Layout
<1>3. (a > block_size(h, b) /\ (~ block_is_free(h, next) \/ a > combined)) <=> MustMove(z, Fr, b, a)
  BY <1>1, <1>2 DEF MustMove
<1> QED BY <1>1, <1>3 DEF Resized

(* A block that is asked to have another size.                             *)
LEMMA ResizedStep ==
    ASSUME NEW S, NEW z, NEW Fr, Describes(heap, live, pools, S, z, Fr),
           NEW p \in DOMAIN live, NEW size \in Requests,
           adjust_request_size(size, ALIGN_SIZE) # 0,
           Returned(Resized(heap, p, size), Without(p), live[p].n, Asked(ALIGN_SIZE, size))
    PROVE  IInv' /\ (NoChange \/ Moved)
<1> DEFINE a     == adjust_request_size(size, ALIGN_SIZE)
           new   == tlsf_malloc(heap, size)
           grown(b) == block_mark_as_used(block_merge_next(heap, b).heap, b)
           r     == Resized(heap, p, size)
           use   == Asked(ALIGN_SIZE, size)
<1>1. HeapState(heap, S, z, Fr, pools) BY DEF Describes
<1>2. PICK b \in Used(S, Fr, pools) : p = b + 2 * W BY HeldBlock
<1>3. b \in Nat /\ z[b] \in Nat /\ z[Nx(z, b)] \in Nat BY <1>1, ReadBlock
<1>4. W \in Nat \ {0} /\ NULL = 0 BY Layout
<1>5. p # NULL BY <1>2, <1>3, <1>4
<1>6. r = IF MustMove(z, Fr, b, a)
          THEN IF new.ptr = NULL THEN [heap |-> heap, ptr |-> NULL]
               ELSE [heap |-> tlsf_free(CopyWords(new.heap, new.ptr, b + 2 * W,
                                  IF z[b] < size THEN z[b] ELSE size), b + 2 * W),
                     ptr  |-> new.ptr]
          ELSE [heap |-> block_trim_used(IF a > z[b] THEN grown(b) ELSE heap, b, a),
                ptr  |-> b + 2 * W]
  BY <1>1, <1>2, ResizedIs
<1>7. Returned(r, Without(p), live[p].n, use) OBVIOUS
<1>8. use.n = Words(size) BY DEF Asked
<1>9. Aligned(a) /\ 3 * W <= a /\ a \in Nat BY AdjustRequest DEF Aligned
<1> HIDE DEF a, new, grown, r, use
<1>10. CASE MustMove(z, Fr, b, a) /\ new.ptr = NULL
  <2>1. r.heap = heap /\ r.ptr = NULL BY <1>6, <1>10
  <2>2. After(heap, live, pools) BY <1>7, <2>1 DEF Returned
  <2> QED BY <2>2, NothingStep
<1>11. CASE MustMove(z, Fr, b, a) /\ new.ptr # NULL
  <2> DEFINE k == tlsf_free(CopyWords(new.heap, new.ptr, b + 2 * W,
                                  IF z[b] < size THEN z[b] ELSE size), b + 2 * W)
  <2>1. r.heap = k /\ r.ptr = new.ptr BY <1>6, <1>11
  <2>2. After(Fill(k, new.ptr, live[b + 2 * W].n, Words(size)),
              With(Without(b + 2 * W), new.ptr, use), pools)
    BY <1>2, <1>7, <1>8, <1>11, <2>1 DEF Returned
  <2>3. \E c, T, y, G : Gives(heap, new, S, z, Fr, a, pools, c, T, y, G)
    BY <1>11, MallocGives DEF new, a
  <2>4. PICK c, T, y, G : Gives(heap, new, S, z, Fr, a, pools, c, T, y, G) BY <2>3
  <2>5. b + 2 * W \in DOMAIN live BY <1>2
  <2> QED BY <2>2, <2>4, <2>5, MovedStep DEF a, use
<1>12. CASE ~ MustMove(z, Fr, b, a)
  <2> DEFINE g == block_trim_used(IF a > z[b] THEN grown(b) ELSE heap, b, a)
  <2>1. r.heap = g /\ r.ptr = b + 2 * W BY <1>6, <1>12
  <2>2. a > z[b] => Nx(z, b) \in Fr /\ a <= z[b] + z[Nx(z, b)] + W
    BY <1>3, <1>4, <1>9, <1>12 DEF MustMove
  <2>3. \E U, x, K : StaysTo(heap, g, S, z, Fr, b, a, pools, U, x, K)
    BY <1>1, <1>9, <2>2, Stays DEF grown
  <2>4. PICK U, x, K : StaysTo(heap, g, S, z, Fr, b, a, pools, U, x, K) BY <2>3
  <2>5. After(Fill(g, b + 2 * W, live[b + 2 * W].n, Words(size)),
              With(Without(b + 2 * W), b + 2 * W, use), pools)
    BY <1>2, <1>5, <1>7, <1>8, <2>1 DEF Returned
  <2>6. b + 2 * W \in DOMAIN live BY <1>2
  <2> HIDE DEF g
  <2> QED BY <2>4, <2>5, <2>6, StaysStep DEF a, use
<1> QED BY <1>10, <1>11, <1>12

(* malloc, memalign, free and realloc.                                     *)
LEMMA CallStep ==
    ASSUME IInv,
           \/ \E size \in Sizes : Malloc(size)
           \/ \E align \in Aligns, size \in Sizes : Memalign(align, size)
           \/ \E p \in DOMAIN live \cup {NULL} : Free(p)
           \/ \E p \in DOMAIN live \cup {NULL}, size \in Sizes : Realloc(p, size)
    PROVE  IInv' /\ UserStep
<1>1. PICK S, z, Fr : Describes(heap, live, pools, S, z, Fr) BY DEF IInv
<1>2. Sizes \subseteq Requests BY TlsfMemory
<1>3. NULL \notin DOMAIN live
  <2> SUFFICES ASSUME NULL \in DOMAIN live PROVE FALSE OBVIOUS
  <2>1. PICK b \in Used(S, Fr, pools) : NULL = b + 2 * W /\ b \in Nat BY <1>1, HeldBlock
  <2> QED BY <2>1, Layout
<1>4. ASSUME NEW size \in Sizes, Malloc(size) PROVE IInv' /\ UserStep
  <2>1. Returned(tlsf_malloc(heap, size), live, 0, Asked(ALIGN_SIZE, size)) BY <1>4 DEF Malloc
  <2> QED BY <1>1, <1>2, <2>1, MallocReturns DEF UserStep
<1>5. ASSUME NEW align \in Aligns, NEW size \in Sizes, Memalign(align, size)
      PROVE  IInv' /\ UserStep
  <2>1. Returned(tlsf_memalign(heap, align, size), live, 0, Asked(align, size))
    BY <1>5 DEF Memalign
  <2> QED BY <1>1, <1>2, <2>1, MemalignReturns DEF UserStep
<1>6. ASSUME NEW p \in DOMAIN live \cup {NULL}, Free(p) PROVE IInv' /\ UserStep
  <2>1. After(tlsf_free(heap, p), Without(p), pools) BY <1>6 DEF Free
  <2>2. CASE p = NULL BY <1>1, <2>1, <2>2, FreeNull DEF UserStep
  <2>3. CASE p \in DOMAIN live BY <1>1, <2>1, <2>3, ReleasedStep DEF UserStep
  <2> QED BY <2>2, <2>3
<1>7. ASSUME NEW p \in DOMAIN live \cup {NULL}, NEW size \in Sizes, Realloc(p, size)
      PROVE  IInv' /\ UserStep
  <2> DEFINE r == tlsf_realloc(heap, p, size)
  <2>1. /\ p = NULL \/ size = 0 \/ adjust_request_size(size, ALIGN_SIZE) # 0
        /\ IF p # NULL /\ size = 0 THEN After(r.heap, Without(p), pools)
           ELSE Returned(r, Without(p), IF p = NULL THEN 0 ELSE live[p].n,
                         Asked(ALIGN_SIZE, size))
    BY <1>7 DEF Realloc
  <2>2. CASE p = NULL
    <3>1. r = tlsf_malloc(heap, size) BY <2>2 DEF tlsf_realloc
    <3> HIDE DEF r
    <3>2. Returned(r, Without(NULL), 0, Asked(ALIGN_SIZE, size)) BY <2>1, <2>2
    <3>3. \A q, use : With(Without(NULL), q, use) = With(live, q, use)
      <4>1. TAKE q, use
      <4>2. DOMAIN Without(NULL) = DOMAIN live /\ \A e \in DOMAIN live : Without(NULL)[e] = live[e]
        BY <1>3 DEF Without
      <4> QED BY <4>2 DEF With
    <3>4. Returned(r, live, 0, Asked(ALIGN_SIZE, size)) BY <3>2, <3>3 DEF Returned
    <3> QED BY <1>1, <1>2, <3>1, <3>4, MallocReturns DEF UserStep
  <2>3. CASE p # NULL /\ size = 0
    <3>1. r = [heap |-> tlsf_free(heap, p), ptr |-> NULL] BY <2>3 DEF tlsf_realloc
    <3>2. r.heap = tlsf_free(heap, p) BY <3>1
    <3> HIDE DEF r
    <3>3. After(tlsf_free(heap, p), Without(p), pools) BY <2>1, <2>3, <3>2
    <3>4. p \in DOMAIN live BY <2>3
    <3> QED BY <1>1, <3>3, <3>4, ReleasedStep DEF UserStep
  <2>4. CASE p # NULL /\ size # 0
    <3>1. r = Resized(heap, p, size) BY <2>4 DEF tlsf_realloc
    <3> HIDE DEF r
    <3>2. Returned(r, Without(p), live[p].n, Asked(ALIGN_SIZE, size)) BY <2>1, <2>4
    <3>3. p \in DOMAIN live /\ adjust_request_size(size, ALIGN_SIZE) # 0 BY <2>1, <2>4
    <3> QED BY <1>1, <1>2, <3>1, <3>2, <3>3, ResizedStep DEF UserStep
  <2> QED BY <2>2, <2>3, <2>4
<1> QED BY <1>4, <1>5, <1>6, <1>7

(* Writing the same word, or the same head, to two heaps that differ only  *)
(* at the addresses of A.                                                  *)
LEMMA PutAround ==
    ASSUME NEW h \in HeapType, NEW k, NEW A, Wrote(h, k, A), NEW a \in Addr, NEW v \in Nat
    PROVE  Wrote(Put(h, a, v), Put(k, a, v), A) /\ Put(h, a, v) \in HeapType
<1> DEFINE g == Put(h, a, v)
           m == Put(k, a, v)
<1>1. k \in HeapType BY DEF Wrote
<1>2. Wrote(h, g, {a}) /\ g.mem[a] = v BY PutFacts
<1>3. Wrote(k, m, {a}) /\ m.mem[a] = v BY <1>1, PutFacts
<1> HIDE DEF g, m
<1>4. ASSUME NEW x \in Addr, x \notin A PROVE m.mem[x] = g.mem[x]
  <2>1. CASE x = a BY <1>2, <1>3, <2>1
  <2>2. CASE x # a BY <1>2, <1>3, <1>4, <2>2 DEF Wrote
  <2> QED BY <2>1, <2>2
<1>5. Wrote(g, m, A) /\ g \in HeapType BY <1>2, <1>3, <1>4 DEF Wrote
<1> QED BY <1>5 DEF g, m

LEMMA HeadsAre ==
    ASSUME NEW h \in HeapType, NEW c \in ClassIds, NEW b \in Addr
    PROVE  LET g == WithHead(h, c, b) IN
           /\ g \in HeapType /\ g.mem = h.mem /\ g.fl_bitmap = h.fl_bitmap \cup {c.fl}
           /\ g.sl_bitmap = [h.sl_bitmap EXCEPT ![c.fl] = h.sl_bitmap[c.fl] \cup {c.sl}]
           /\ g.blocks = [h.blocks EXCEPT ![c.fl] = [h.blocks[c.fl] EXCEPT ![c.sl] = b]]
<1> DEFINE g == WithHead(h, c, b)
           k == [h EXCEPT !.blocks = [h.blocks EXCEPT ![c.fl] = [h.blocks[c.fl] EXCEPT ![c.sl] = b]],
                          !.fl_bitmap = h.fl_bitmap \cup {c.fl},
                          !.sl_bitmap = [h.sl_bitmap EXCEPT ![c.fl] = h.sl_bitmap[c.fl] \cup {c.sl}]]
<1>0. c.fl \in FL /\ c.sl \in SL BY DEF ClassIds
<1>1. g = k BY DEF HeapType, WithHead
<1>2. k \in HeapType BY <1>0 DEF HeapType
<1>3. /\ k.mem = h.mem /\ k.fl_bitmap = h.fl_bitmap \cup {c.fl}
      /\ k.sl_bitmap = [h.sl_bitmap EXCEPT ![c.fl] = h.sl_bitmap[c.fl] \cup {c.sl}]
      /\ k.blocks = [h.blocks EXCEPT ![c.fl] = [h.blocks[c.fl] EXCEPT ![c.sl] = b]]
  BY DEF HeapType
<1> HIDE DEF k, g
<1> QED BY <1>1, <1>2, <1>3 DEF g

LEMMA HeadAround ==
    ASSUME NEW h \in HeapType, NEW k, NEW A, Wrote(h, k, A), NEW c \in ClassIds, NEW b \in Addr
    PROVE  Wrote(WithHead(h, c, b), WithHead(k, c, b), A) /\ WithHead(h, c, b) \in HeapType
<1> DEFINE g == WithHead(h, c, b)
           m == WithHead(k, c, b)
<1>1. k \in HeapType BY DEF Wrote
<1>2. /\ g \in HeapType /\ g.mem = h.mem /\ g.fl_bitmap = h.fl_bitmap \cup {c.fl}
      /\ g.sl_bitmap = [h.sl_bitmap EXCEPT ![c.fl] = h.sl_bitmap[c.fl] \cup {c.sl}]
      /\ g.blocks = [h.blocks EXCEPT ![c.fl] = [h.blocks[c.fl] EXCEPT ![c.sl] = b]]
  BY HeadsAre
<1>3. /\ m \in HeapType /\ m.mem = k.mem /\ m.fl_bitmap = k.fl_bitmap \cup {c.fl}
      /\ m.sl_bitmap = [k.sl_bitmap EXCEPT ![c.fl] = k.sl_bitmap[c.fl] \cup {c.sl}]
      /\ m.blocks = [k.blocks EXCEPT ![c.fl] = [k.blocks[c.fl] EXCEPT ![c.sl] = b]]
  BY <1>1, HeadsAre
<1> HIDE DEF g, m
<1>4. /\ k.fl_bitmap = h.fl_bitmap /\ k.sl_bitmap = h.sl_bitmap /\ k.blocks = h.blocks
      /\ \A x \in Addr : x \notin A => k.mem[x] = h.mem[x]
  BY DEF Wrote
<1>5. m.fl_bitmap = g.fl_bitmap /\ m.sl_bitmap = g.sl_bitmap /\ m.blocks = g.blocks
  BY <1>2, <1>3, <1>4
<1>6. Wrote(g, m, A) BY <1>2, <1>3, <1>4, <1>5 DEF Wrote
<1> QED BY <1>2, <1>6 DEF g, m

LEMMA InsertAround ==
    ASSUME NEW h \in HeapType, NEW k, NEW A, Wrote(h, k, A), NEW c \in ClassIds, NEW b \in Addr,
           b + 2 * W \in Addr, b + 3 * W \in Addr, h.blocks[c.fl][c.sl] + 3 * W \in Addr,
           h.blocks[c.fl][c.sl] \in Addr
    PROVE  /\ Wrote(insert_free_block(h, b, c), insert_free_block(k, b, c), A)
           /\ insert_free_block(h, b, c) \in HeapType
<1> DEFINE n == h.blocks[c.fl][c.sl]
           h1 == Put(h, b + 2 * W, n)
           h2 == Put(h1, b + 3 * W, block_null)
           h3 == Put(h2, n + 3 * W, b)
           k1 == Put(k, b + 2 * W, n)
           k2 == Put(k1, b + 3 * W, block_null)
           k3 == Put(k2, n + 3 * W, b)
<1>1. k.blocks[c.fl][c.sl] = n BY DEF Wrote
<1>2. insert_free_block(h, b, c) = WithHead(h3, c, b)
  BY DEF insert_free_block, SetLinks, WithHead
<1>3. insert_free_block(k, b, c) = WithHead(k3, c, b)
  BY <1>1 DEF insert_free_block, SetLinks, WithHead
<1>4. n \in Nat /\ b \in Nat /\ block_null \in Nat BY AddrNat, Layout, TlsfMemory
<1>5. b + 2 * W \in Addr /\ b + 3 * W \in Addr /\ n + 3 * W \in Addr OBVIOUS
<1> HIDE DEF n
<1>6. Wrote(h1, k1, A) /\ h1 \in HeapType BY <1>4, <1>5, PutAround
<1> HIDE DEF h1, k1
<1>7. Wrote(h2, k2, A) /\ h2 \in HeapType BY <1>4, <1>5, <1>6, PutAround
<1> HIDE DEF h2, k2
<1>8. Wrote(h3, k3, A) /\ h3 \in HeapType BY <1>4, <1>5, <1>7, PutAround
<1> HIDE DEF h3, k3
<1>9. Wrote(WithHead(h3, c, b), WithHead(k3, c, b), A) /\ WithHead(h3, c, b) \in HeapType
  BY <1>8, HeadAround
<1> QED BY <1>2, <1>3, <1>9

(* The header behind the last block of a new pool.                         *)
Sealed(h, b) ==
    LET last == block_next(h, b)
    IN  block_set_prev_free(
            block_set_used(block_set_size(block_link_next(h, b), last, 0), last), last)

SealedIs(h, g, b, n) ==
    /\ Wrote(h, g, {n, n + W}) /\ g.mem[n] = b
    /\ block_size(g, n) = 0 /\ ~ block_is_free(g, n) /\ block_is_prev_free(g, n)

LEMMA Seal ==
    ASSUME NEW h \in HeapType, NEW b \in Nat, NEW n \in Addr, n + W \in Addr, block_next(h, b) = n
    PROVE  SealedIs(h, Sealed(h, b), b, n)
<1> DEFINE h1 == block_link_next(h, b)
           h2 == block_set_size(h1, n, 0)
           h3 == block_set_used(h2, n)
           g == block_set_prev_free(h3, n)
<1>1. Sealed(h, b) = g BY DEF Sealed
<1>2. Wrote(h, h1, {n}) /\ h1.mem[n] = b BY LinkNext
<1>3. h1 \in HeapType BY <1>2, HeapTypeOfWrote
<1> HIDE DEF h1
<1>4. Wrote(h1, h2, {n + W}) /\ block_size(h2, n) = 0 BY <1>3, SetSize, AlignedWords
<1>5. h2 \in HeapType BY <1>4, HeapTypeOfWrote
<1> HIDE DEF h2
<1>6. Wrote(h2, h3, {n + W}) /\ block_size(h3, n) = 0 /\ ~ block_is_free(h3, n)
  BY <1>4, <1>5, SetUsed
<1>7. h3 \in HeapType BY <1>6, HeapTypeOfWrote
<1> HIDE DEF h3
<1>8. /\ Wrote(h3, g, {n + W}) /\ block_size(g, n) = 0 /\ ~ block_is_free(g, n)
      /\ block_is_prev_free(g, n)
  BY <1>6, <1>7, SetPrevFree
<1> HIDE DEF g
<1>9. Wrote(h1, h3, {n + W} \cup {n + W}) BY <1>4, <1>6, WroteBoth
<1>10. Wrote(h1, g, ({n + W} \cup {n + W}) \cup {n + W}) BY <1>8, <1>9, WroteBoth
<1>11. Wrote(h1, g, {n + W}) BY <1>10, WroteMore
<1>12. Wrote(h, g, {n} \cup {n + W}) BY <1>2, <1>11, WroteBoth
<1>13. Wrote(h, g, {n, n + W}) BY <1>12, WroteMore
<1>14. n # n + W
  <2>1. n \in Nat BY AddrNat
  <2> QED BY <2>1, Layout
<1>15. g.mem[n] = b BY <1>2, <1>11, <1>14 DEF Wrote
<1> QED BY <1>1, <1>8, <1>13, <1>15 DEF SealedIs

(* The free block of a new pool.                                           *)
LEMMA FirstBlock ==
    ASSUME NEW h \in HeapType, NEW b, b + W \in Addr, NEW size, Aligned(size)
    PROVE  LET g == block_set_prev_used(block_set_free(block_set_size(h, b, size), b), b) IN
           /\ Wrote(h, g, {b + W}) /\ block_size(g, b) = size
           /\ block_is_free(g, b) /\ ~ block_is_prev_free(g, b)
<1> DEFINE h1 == block_set_size(h, b, size)
           h2 == block_set_free(h1, b)
           g == block_set_prev_used(h2, b)
<1>1. Wrote(h, h1, {b + W}) /\ block_size(h1, b) = size BY SetSize
<1>2. h1 \in HeapType BY <1>1, HeapTypeOfWrote
<1> HIDE DEF h1
<1>3. Wrote(h1, h2, {b + W}) /\ block_size(h2, b) = size /\ block_is_free(h2, b)
  BY <1>1, <1>2, SetFree
<1>4. h2 \in HeapType BY <1>3, HeapTypeOfWrote
<1> HIDE DEF h2
<1>5. /\ Wrote(h2, g, {b + W}) /\ block_size(g, b) = size /\ block_is_free(g, b)
      /\ ~ block_is_prev_free(g, b)
  BY <1>3, <1>4, SetPrevUsed
<1> HIDE DEF g
<1>6. Wrote(h, h2, {b + W} \cup {b + W}) BY <1>1, <1>3, WroteBoth
<1>7. Wrote(h, g, ({b + W} \cup {b + W}) \cup {b + W}) BY <1>5, <1>6, WroteBoth
<1>8. Wrote(h, g, {b + W}) BY <1>7, WroteMore
<1> QED BY <1>5, <1>8 DEF g, h1, h2

(* The heads of a heap that has one more pool, all of it free.             *)
LEMMA NewPoolRep ==
    ASSUME NEW P, NEW S, NEW z, NEW Fr, NEW h, HeapState(h, S, z, Fr, P), NEW pool, pool \notin P,
           PoolsOK(P \cup {pool}), NEW k, NEW A, A = {Lo(pool) + W, Hi(pool), Hi(pool) + W},
           Wrote(h, k, A), k.mem[Hi(pool)] = Lo(pool),
           block_size(k, Lo(pool)) = Hi(pool) - Lo(pool) - W,
           block_is_free(k, Lo(pool)), ~ block_is_prev_free(k, Lo(pool)),
           block_size(k, Hi(pool)) = 0, ~ block_is_free(k, Hi(pool)),
           block_is_prev_free(k, Hi(pool))
    PROVE  LET T == S \cup {Lo(pool), Hi(pool)}
               y == PoolSizes(S, z, pool)
               G == Fr \cup {Lo(pool)}
               Q == P \cup {pool}
           IN  /\ ListState(k, T, y, G, Fr, Q) /\ SameOn(h, k, Safe(T, y, G, Q))
               /\ Coalesced(y, G)
<1> DEFINE l == Lo(pool)
           u == Hi(pool)
           T == S \cup {l, u}
           y == PoolSizes(S, z, pool)
           G == Fr \cup {l}
           Q == P \cup {pool}
<1>1. /\ PoolsOK(P) /\ Chain(S, z, P) /\ Fr \subseteq S \ Ends(P) /\ h \in HeapType
      /\ Rep(h, S, z, Fr) /\ Lists(h, Fr, z) /\ Coalesced(z, Fr)
  BY StateFacts DEF HeapState
<1>2. AddPoolIs(S, z, pool, P) BY <1>1, ChainAddPool
<1>3. /\ Chain(T, y, Q)
      /\ l \notin S /\ u \notin S /\ l # u
      /\ y[l] = u - l - W /\ y[u] = 0 /\ Nx(y, l) = u
      /\ \A c \in S : y[c] = z[c] /\ Nx(y, c) = Nx(z, c)
      /\ \A c \in S : c \notin Ends(P) <=> c \notin Ends(Q)
      /\ l \notin Ends(Q)
  BY <1>2 DEF AddPoolIs
<1>4. PoolsOK(Q) /\ u \in Ends(Q) /\ l \in Starts(Q) BY DEF Ends, Starts
<1>5. G \subseteq T \ Ends(Q) /\ l \in G /\ l \in T /\ u \in T BY <1>1, <1>3
<1>6. u \notin G BY <1>4, <1>5
<1>7. k \in HeapType BY HeapTypeOfWrote
<1>8. /\ \A x \in Addr : x \notin {l + W, u, u + W} => k.mem[x] = h.mem[x]
      /\ k.fl_bitmap = h.fl_bitmap /\ k.sl_bitmap = h.sl_bitmap /\ k.blocks = h.blocks
  BY DEF Wrote
<1>9. /\ k.mem[u] = l /\ block_size(k, l) = u - l - W /\ block_is_free(k, l)
      /\ ~ block_is_prev_free(k, l) /\ block_size(k, u) = 0 /\ ~ block_is_free(k, u)
      /\ block_is_prev_free(k, u)
  OBVIOUS
<1>9a. PoolsOK(Q) /\ Chain(T, y, Q) /\ G \subseteq T \ Ends(Q) /\ l \in G BY <1>3, <1>4, <1>5
<1> HIDE DEF l, u, T, y, G, Q
<1>10. /\ l + W \notin Safe(T, y, G, Q) /\ (\A c \in T : c # l => c + W # l + W)
       /\ (\A a \in G : Nx(y, a) # l + W)
  BY <1>3, <1>4, <1>5, HeadApart
<1>11. /\ u + W \notin Safe(T, y, G, Q) /\ (\A c \in T : c # u => c + W # u + W)
       /\ (\A a \in G : Nx(y, a) # u + W)
  BY <1>3, <1>4, <1>5, HeadApart
<1>12. /\ u \notin Safe(T, y, G, Q) /\ (\A c \in T : c + W # u)
       /\ (\A a \in G : a # l => Nx(y, a) # u)
  <2>1. /\ Nx(y, l) \notin Safe(T, y, G, Q) /\ (\A c \in T : c + W # Nx(y, l))
        /\ (\A a \in G : a # l => Nx(y, a) # Nx(y, l))
    BY <1>9a, TailApart
  <2> QED BY <1>3, <2>1
<1>13. SameOn(h, k, Safe(T, y, G, Q))
  <2>1. Safe(T, y, G, Q) \subseteq Addr BY DEF Safe
  <2> QED BY <1>8, <1>10, <1>11, <1>12, <2>1 DEF SameOn
<1>14. Behind(y, G) = Behind(z, Fr) \cup {u}
  <2>1. \A a \in Fr : Nx(y, a) = Nx(z, a) BY <1>1, <1>3
  <2> QED BY <1>3, <2>1 DEF Behind, G
<1>15. ASSUME NEW c \in T PROVE HeadIs(k, c, y, G)
  <2>1. CASE c = l
    <3>1. l \notin Behind(y, G) BY <1>3, <1>4, <1>5, BehindIs
    <3> QED BY <1>3, <1>5, <1>9, <2>1, <3>1 DEF HeadIs
  <2>2. CASE c = u
    <3>1. u \in Behind(y, G) BY <1>14
    <3> QED BY <1>3, <1>6, <1>9, <2>2, <3>1 DEF HeadIs
  <2>3. CASE c \in S
    <3>1. HeadIs(h, c, z, Fr) /\ c # l /\ c # u BY <1>1, <1>3, <2>3 DEF Rep
    <3>2. c + W \in Addr BY <1>1, <2>3, BlockPlace
    <3>3. k.mem[c + W] = h.mem[c + W] BY <1>8, <1>10, <1>11, <1>12, <3>1, <3>2
    <3>4. /\ block_size(k, c) = block_size(h, c) /\ block_is_free(k, c) = block_is_free(h, c)
          /\ block_is_prev_free(k, c) = block_is_prev_free(h, c)
      BY <3>3, SameHead
    <3>5. y[c] = z[c] BY <1>3, <2>3
    <3>6. c \in G <=> c \in Fr BY <3>1 DEF G
    <3>7. c \in Behind(y, G) <=> c \in Behind(z, Fr) BY <1>14, <3>1
    <3> QED BY <3>1, <3>4, <3>5, <3>6, <3>7 DEF HeadIs
  <2> QED BY <2>1, <2>2, <2>3 DEF T
<1>16. ASSUME NEW a \in G PROVE k.mem[Nx(y, a)] = a
  <2>1. CASE a = l BY <1>3, <1>9, <2>1
  <2>2. CASE a # l
    <3>1. a \in Fr /\ a \in S /\ a \notin Ends(P) BY <1>1, <2>2 DEF G
    <3>2. h.mem[Nx(z, a)] = a /\ Nx(y, a) = Nx(z, a) BY <1>1, <1>3, <3>1 DEF Rep
    <3>3. Nx(z, a) \in Addr BY <1>1, <3>1, BlockPlace
    <3> QED BY <1>8, <1>10, <1>11, <1>12, <2>2, <3>2, <3>3
  <2> QED BY <2>1, <2>2
<1>17. Rep(k, T, y, G) BY <1>15, <1>16 DEF Rep
<1>18. ASSUME NEW b \in Fr
       PROVE  k.mem[b + 2 * W] = h.mem[b + 2 * W] /\ k.mem[b + 3 * W] = h.mem[b + 3 * W]
  <2>1. b + 2 * W \in LinkWords(G) /\ b + 3 * W \in LinkWords(G) BY DEF LinkWords, G
  <2>2. ASSUME NEW x \in LinkWords(G) PROVE k.mem[x] = h.mem[x]
    <3>1. x \in Addr /\ (\A c \in T : c + W # x) /\ (\A a \in G : Nx(y, a) # x)
      BY <1>3, <1>4, <1>5, LinkApart
    <3>2. x # l + W /\ x # u + W /\ x # u BY <1>3, <1>5, <3>1
    <3> QED BY <1>8, <3>1, <3>2
  <2> QED BY <2>1, <2>2
<1>19. SameLists(h, k, Fr) BY <1>8, <1>18 DEF SameLists
<1>20. \A b \in Fr : y[b] = z[b] BY <1>1, <1>3
<1>21. Lists(k, Fr, y) BY <1>1, <1>19, <1>20, ListsSame
<1>22. Fr \subseteq G BY DEF G
<1>23. ListState(k, T, y, G, Fr, Q) BY <1>3, <1>4, <1>5, <1>7, <1>17, <1>21, <1>22 DEF ListState
<1>24. Coalesced(y, G)
  <2> SUFFICES ASSUME NEW a \in G PROVE Nx(y, a) \notin G BY DEF Coalesced
  <2>1. CASE a = l BY <1>3, <1>6, <2>1
  <2>2. CASE a # l
    <3>1. a \in Fr /\ a \in S /\ a \notin Ends(P) BY <1>1, <2>2 DEF G
    <3>2. Nx(z, a) \in S BY <1>1, <3>1, BlockPlace
    <3>3. Nx(z, a) \notin Fr BY <1>1, <3>1 DEF Coalesced
    <3> QED BY <1>3, <3>1, <3>2, <3>3 DEF G
  <2> QED BY <2>1, <2>2
<1> QED BY <1>13, <1>23, <1>24 DEF l, u, T, y, G, Q

(* A pool is added: one more free block, in its list.                      *)
Added(h, g, S, z, Fr, P, pool) ==
    LET T == S \cup {Lo(pool), Hi(pool)}
        y == PoolSizes(S, z, pool)
        G == Fr \cup {Lo(pool)}
        Q == P \cup {pool}
    IN  /\ HeapState(g, T, y, G, Q) /\ SameOn(h, g, Safe(T, y, G, Q))
        /\ Changed(h, g, {Lo(pool) + W, Hi(pool), Hi(pool) + W} \cup LinkWords(G))

(* tlsf_add_pool.                                                          *)
LEMMA AddsPool ==
    ASSUME NEW P, NEW S, NEW z, NEW Fr, NEW h, HeapState(h, S, z, Fr, P), NEW pool, pool \notin P,
           PoolsOK(P \cup {pool})
    PROVE  Added(h, tlsf_add_pool(h, pool, PoolBytes(pool)), S, z, Fr, P, pool)
<1> DEFINE l == Lo(pool)
           u == Hi(pool)
           T == S \cup {l, u}
           y == PoolSizes(S, z, pool)
           G == Fr \cup {l}
           Q == P \cup {pool}
           size == PoolSize(PoolBytes(pool))
           h1 == block_set_prev_used(block_set_free(block_set_size(h, l, size), l), l)
           k == Sealed(h1, l)
           f1 == block_insert(h1, l)
           f == Sealed(f1, l)
           c == Class(y, l)
<1>1. /\ PoolsOK(P) /\ Chain(S, z, P) /\ h \in HeapType BY StateFacts DEF HeapState
<1>2. AddPoolIs(S, z, pool, P) BY <1>1, ChainAddPool
<1>3. Chain(T, y, Q) /\ Nx(y, l) = u /\ y[l] = u - l - W /\ l \notin S /\ l \notin Ends(Q)
  BY <1>2 DEF AddPoolIs
<1>4. PoolsOK(Q) /\ l \in T /\ u \in T OBVIOUS
<1>5. /\ Aligned(l) /\ Aligned(u) /\ l + 4 * W <= u /\ size = u - l - W /\ pool - W = l
  <2>1. pool \in Q OBVIOUS
  <2> QED BY <1>4, <2>1, Pools DEF Lo
<1>6. /\ l \in Nat /\ y[l] \in Nat /\ Aligned(y[l]) /\ l \in Addr /\ l + W \in Addr
  BY <1>3, <1>4, BlockPlace
<1>7. u \in Nat /\ u \in Addr /\ u + W \in Addr BY <1>3, <1>4, BlockPlace
<1>8. size = y[l] BY <1>3, <1>5
<1>9. tlsf_add_pool(h, pool, PoolBytes(pool)) = f
  <2>1. PoolFits(PoolBytes(pool)) BY <1>4 DEF PoolsOK
  <2>2. pool - block_header_overhead = l BY <1>5, Layout
  <2> QED BY <2>1, <2>2 DEF tlsf_add_pool, Sealed
<1> HIDE DEF T, y, G, Q, size, l, u
<1>10. /\ Wrote(h, h1, {l + W}) /\ block_size(h1, l) = size
       /\ block_is_free(h1, l) /\ ~ block_is_prev_free(h1, l)
  BY <1>1, <1>6, <1>8, FirstBlock
<1>11. h1 \in HeapType BY <1>10, HeapTypeOfWrote
<1> HIDE DEF h1
<1>12. block_next(h1, l) = u
  <2>1. block_next(h1, l) = l + W + block_size(h1, l) BY <1>6, <1>8, <1>10, NextOfSize
  <2> QED BY <1>3, <1>8, <1>10, <2>1 DEF Nx
<1>13. SealedIs(h1, k, l, u) BY <1>6, <1>7, <1>11, <1>12, Seal
<1>14. /\ Wrote(h1, k, {u, u + W}) /\ k.mem[u] = l
       /\ block_size(k, u) = 0 /\ ~ block_is_free(k, u) /\ block_is_prev_free(k, u)
  BY <1>13 DEF SealedIs
<1> HIDE DEF k
<1>15. Wrote(h, k, {l + W} \cup {u, u + W}) BY <1>10, <1>14, WroteBoth
<1>16. Wrote(h, k, {l + W, u, u + W}) BY <1>15, WroteMore
<1>17. l + W # u /\ l + W # u + W BY <1>5, <1>6, <1>7, Layout
<1>18. /\ block_size(k, l) = u - l - W /\ block_is_free(k, l) /\ ~ block_is_prev_free(k, l)
  <2>1. l + W \notin {u, u + W} BY <1>17
  <2>2. /\ block_size(k, l) = block_size(h1, l) /\ block_is_free(k, l) = block_is_free(h1, l)
        /\ block_is_prev_free(k, l) = block_is_prev_free(h1, l)
    BY <1>6, <1>14, <2>1, SameHeadIs
  <2> QED BY <1>5, <1>10, <2>2
<1>19. ListState(k, T, y, G, Fr, Q) /\ SameOn(h, k, Safe(T, y, G, Q)) /\ Coalesced(y, G)
  <2> DEFINE A == {Lo(pool) + W, Hi(pool), Hi(pool) + W}
  <2>1. /\ Wrote(h, k, A) /\ k.mem[Hi(pool)] = Lo(pool)
        /\ block_size(k, Lo(pool)) = Hi(pool) - Lo(pool) - W
        /\ block_is_free(k, Lo(pool)) /\ ~ block_is_prev_free(k, Lo(pool))
        /\ block_size(k, Hi(pool)) = 0 /\ ~ block_is_free(k, Hi(pool))
        /\ block_is_prev_free(k, Hi(pool))
    BY <1>14, <1>16, <1>18 DEF l, u
  <2> HIDE DEF A
  <2> QED BY <2>1, NewPoolRep DEF T, y, G, Q, A, l, u
<1>20. l \in G /\ l \notin Fr
  <2>1. Fr \subseteq S BY StateFacts DEF HeapState
  <2> QED BY <1>3, <2>1 DEF G
<1> DEFINE k1 == insert_free_block(k, l, c)
<1>21. /\ ListState(k1, T, y, G, Fr \cup {l}, Q) /\ SameOn(k, k1, Safe(T, y, G, Q))
       /\ Changed(k, k1, LinkWords(G))
  BY <1>19, <1>20, Insert
<1>22. ListState(k1, T, y, G, G, Q) BY <1>21 DEF G
<1>23. f1 = insert_free_block(h1, l, c) BY <1>8, <1>10 DEF block_insert, Class
<1>24. c \in ClassIds /\ c.fl \in FL /\ c.sl \in SL BY <1>19, <1>20, ListFacts
<1>25. /\ l + 2 * W \in Addr /\ l + 3 * W \in Addr
       /\ h1.blocks[c.fl][c.sl] + 3 * W \in Addr /\ h1.blocks[c.fl][c.sl] \in Addr
  <2>1. h1.blocks = k.blocks BY <1>14 DEF Wrote
  <2>2. HeadOK(k, Fr, y, c.fl, c.sl) BY <1>19, <1>24 DEF ListState, Lists
  <2>3. k.blocks[c.fl][c.sl] \in Fr \cup {block_null} BY <2>2 DEF HeadOK
  <2>4. k.blocks[c.fl][c.sl] \in G \cup {block_null} BY <2>3 DEF G
  <2>5. PoolsOK(Q) /\ Chain(T, y, Q) /\ G \subseteq T \ Ends(Q) BY <1>19, StateFacts
  <2> DEFINE n == k.blocks[c.fl][c.sl]
  <2>6. n + 3 * W \in Addr /\ n \in Addr
    <3>1. n \in G \cup {block_null} BY <2>4
    <3> HIDE DEF n
    <3> QED BY <2>5, <3>1, LinkPlaces
  <2>7. l \in G \cup {block_null} BY <1>20
  <2>8. l + 2 * W \in Addr /\ l + 3 * W \in Addr BY <2>5, <2>7, LinkPlaces
  <2> QED BY <2>1, <2>6, <2>8
<1>26. Wrote(f1, k1, {u, u + W}) /\ f1 \in HeapType
  <2>1. /\ Wrote(insert_free_block(h1, l, c), insert_free_block(k, l, c), {u, u + W})
        /\ insert_free_block(h1, l, c) \in HeapType
    BY <1>6, <1>11, <1>14, <1>24, <1>25, InsertAround
  <2> QED BY <1>23, <2>1
<1> HIDE DEF f1, k1, c
<1>27. /\ PoolsOK(Q) /\ Chain(T, y, Q) /\ G \subseteq T \ Ends(Q) /\ Rep(k1, T, y, G)
       /\ Lists(k1, G, y)
  BY <1>22, StateFacts
<1>28. block_next(f1, l) = u
  <2>1. l + W \notin {u, u + W} BY <1>17
  <2>2. block_size(k1, l) = block_size(f1, l) BY <1>6, <1>26, <2>1, SameHeadIs
  <2>3. block_size(k1, l) = y[l] BY <1>4, <1>27 DEF Rep, HeadIs, T
  <2>4. block_next(f1, l) = l + W + block_size(f1, l) BY <1>6, <2>2, <2>3, NextOfSize
  <2> QED BY <1>3, <2>2, <2>3, <2>4 DEF Nx
<1>29. SealedIs(f1, f, l, u) BY <1>6, <1>7, <1>26, <1>28, Seal
<1>30. /\ Wrote(f1, f, {u, u + W}) /\ f.mem[u] = l
       /\ block_size(f, u) = 0 /\ ~ block_is_free(f, u) /\ block_is_prev_free(f, u)
  BY <1>29 DEF SealedIs
<1> HIDE DEF f
<1>31. /\ f \in HeapType /\ \A x \in Addr : x \notin {u, u + W} => f.mem[x] = k1.mem[x]
       /\ f.fl_bitmap = k1.fl_bitmap /\ f.sl_bitmap = k1.sl_bitmap /\ f.blocks = k1.blocks
  BY <1>26, <1>30 DEF Wrote
<1>32. u \in Ends(Q) BY DEF Ends, u, Q
<1>33. u \notin G /\ u \in T BY <1>27, <1>32 DEF T
<1>34. /\ u + W \notin Safe(T, y, G, Q) /\ (\A e \in T : e # u => e + W # u + W)
       /\ (\A a \in G : Nx(y, a) # u + W)
  BY <1>27, <1>33, HeadApart
<1>35. /\ u \notin Safe(T, y, G, Q) /\ (\A e \in T : e + W # u)
       /\ (\A a \in G : a # l => Nx(y, a) # u)
  <2>1. /\ Nx(y, l) \notin Safe(T, y, G, Q) /\ (\A e \in T : e + W # Nx(y, l))
        /\ (\A a \in G : a # l => Nx(y, a) # Nx(y, l))
    BY <1>20, <1>27, TailApart
  <2> QED BY <1>3, <2>1
<1>36. ASSUME NEW e \in T PROVE HeadIs(f, e, y, G)
  <2>0. HeadIs(k1, e, y, G) BY <1>27 DEF Rep
  <2>1. CASE e = u
    <3>1. u \in Behind(y, G) BY <1>3, <1>20 DEF Behind
    <3>2. y[u] = 0 BY <1>27, <1>32, <1>33, BlockPlace
    <3> QED BY <1>30, <1>33, <2>1, <3>1, <3>2 DEF HeadIs
  <2>2. CASE e # u
    <3>1. e + W \in Addr BY <1>27, BlockPlace
    <3>2. f.mem[e + W] = k1.mem[e + W] BY <1>31, <1>34, <1>35, <2>2, <3>1
    <3>3. /\ block_size(f, e) = block_size(k1, e) /\ block_is_free(f, e) = block_is_free(k1, e)
          /\ block_is_prev_free(f, e) = block_is_prev_free(k1, e)
      BY <3>2, SameHead
    <3> QED BY <2>0, <3>3 DEF HeadIs
  <2> QED BY <2>1, <2>2
<1>37. ASSUME NEW a \in G PROVE f.mem[Nx(y, a)] = a
  <2>1. CASE a = l BY <1>3, <1>30, <2>1
  <2>2. CASE a # l
    <3>1. k1.mem[Nx(y, a)] = a BY <1>27 DEF Rep
    <3>2. a \in T /\ a \notin Ends(Q) BY <1>27
    <3>3. Nx(y, a) \in Addr BY <1>27, <3>2, BlockPlace
    <3> QED BY <1>31, <1>34, <1>35, <2>2, <3>1, <3>3
  <2> QED BY <2>1, <2>2
<1>38. Rep(f, T, y, G) BY <1>36, <1>37 DEF Rep
<1>39. ASSUME NEW b \in G
       PROVE  f.mem[b + 2 * W] = k1.mem[b + 2 * W] /\ f.mem[b + 3 * W] = k1.mem[b + 3 * W]
  <2>1. b + 2 * W \in LinkWords(G) /\ b + 3 * W \in LinkWords(G) BY DEF LinkWords
  <2>2. ASSUME NEW x \in LinkWords(G) PROVE f.mem[x] = k1.mem[x]
    <3>1. x \in Addr /\ (\A e \in T : e + W # x) /\ (\A a \in G : Nx(y, a) # x)
      BY <1>27, LinkApart
    <3>2. x # u + W /\ x # u BY <1>3, <1>20, <1>33, <3>1
    <3> QED BY <1>31, <3>1, <3>2
  <2> QED BY <2>1, <2>2
<1>40. SameLists(k1, f, G) BY <1>31, <1>39 DEF SameLists
<1>41. Lists(f, G, y) BY <1>27, <1>40, ListsSame
<1>42. HeapState(f, T, y, G, Q)
  BY <1>19, <1>27, <1>31, <1>38, <1>41 DEF HeapState, ListState
<1>43. SameOn(k1, f, Safe(T, y, G, Q))
  <2>1. Safe(T, y, G, Q) \subseteq Addr BY DEF Safe
  <2> QED BY <1>31, <1>34, <1>35, <2>1 DEF SameOn
<1>44. SameOn(h, f, Safe(T, y, G, Q)) BY <1>19, <1>21, <1>43 DEF SameOn
<1>45. Changed(h, f, {l + W, u, u + W} \cup LinkWords(G))
  <2>1. ASSUME NEW x \in Addr, x \notin {l + W, u, u + W} \cup LinkWords(G)
        PROVE  f.mem[x] = h.mem[x]
    <3>1. k.mem[x] = h.mem[x] BY <1>16, <2>1 DEF Wrote
    <3>2. k1.mem[x] = k.mem[x] BY <1>21, <2>1 DEF Changed
    <3> QED BY <1>31, <2>1, <3>1, <3>2
  <2> QED BY <1>31, <2>1 DEF Changed
<1> QED BY <1>9, <1>42, <1>44, <1>45 DEF Added, T, y, G, Q, l, u

(* Pools change and the users' blocks do not.                              *)
LEMMA UsersStay ==
    ASSUME NEW l, NEW S, NEW z, NEW Fr, NEW P, NEW T, NEW y, NEW G, NEW Q, Users(l, S, z, Fr, P),
           Used(T, G, Q) = Used(S, Fr, P), \A b \in Used(S, Fr, P) : y[b] = z[b]
    PROVE  Users(l, T, y, G, Q)
BY DEF Users, Fits

LEMMA PoolsStep ==
    ASSUME NEW S, NEW z, NEW Fr, Describes(heap, live, pools, S, z, Fr),
           NEW g, NEW T, NEW y, NEW G, NEW Q, HeapState(g, T, y, G, Q), Users(live, T, y, G, Q),
           \A pool \in Q : g.mem[Lo(pool)] \in Garbage,
           SameOn(heap, g, Safe(S, z, Fr, pools)), After(g, live, Q)
    PROVE  IInv' /\ PoolsOnly
<1>1. /\ live' = live /\ pools' = Q /\ Describes(heap', live, Q, T, y, G)
      /\ \A p \in DOMAIN live : SameOn(g, heap', WordsFrom(p, live[p].n * W))
  BY AfterDescribes
<1>2. ASSUME NEW p \in DOMAIN live PROVE SameOn(heap, heap', WordsFrom(p, live[p].n * W))
  <2>1. PICK c \in Used(S, Fr, pools) :
           c \in S /\ c \notin Fr /\ WordsFrom(p, live[p].n * W) \subseteq Own(z, c) \cap Addr
    BY HeldBlock
  <2>2. Own(z, c) \cap Addr \subseteq Safe(S, z, Fr, pools) BY <2>1, OwnSafe
  <2> QED BY <1>1, <2>1, <2>2 DEF SameOn
<1>3. PoolsOnly BY <1>1, <1>2 DEF PoolsOnly, Keeping
<1>4. IInv' BY <1>1 DEF IInv
<1> QED BY <1>3, <1>4

(* Adding and removing a pool keeps the invariant and all blocks of users. *)
LEMMA AddPoolStep ==
    ASSUME IInv, AddPool
    PROVE  IInv' /\ PoolsOnly
<1>1. PICK S, z, Fr : Describes(heap, live, pools, S, z, Fr) BY DEF IInv
<1> DEFINE e == Extra.mem
           P == pools
           Q == P \cup {e}
           T == S \cup {Lo(e), Hi(e)}
           y == PoolSizes(S, z, e)
           G == Fr \cup {Lo(e)}
           g == tlsf_add_pool(heap, e, Extra.bytes)
<1>2. /\ HeapState(heap, S, z, Fr, P) /\ Users(live, S, z, Fr, P) /\ Fronts(heap, P)
  BY <1>1 DEF Describes
<1>3. /\ PoolsOK(P) /\ Chain(S, z, P) /\ Fr \subseteq S \ Ends(P) BY <1>2, StateFacts DEF HeapState
<1>4. e \notin P /\ PoolFits(Extra.bytes) /\ After(g, live, Q) BY DEF AddPool
<1>5. PoolBytes(e) = Extra.bytes
  <2>1. Aligned(ARENA) /\ Aligned(Bytes) /\ Aligned(Extra.mem) /\ Bytes >= 7 * W
        /\ Extra.mem >= ARENA + Bytes + W
    BY Places
  <2>2. ARENA \in Nat /\ Bytes \in Nat /\ Extra.mem \in Nat BY <2>1 DEF Aligned
  <2>3. tlsf_get_pool = ARENA + 5 * W /\ W \in Nat \ {0} BY Layout
  <2>4. e # tlsf_get_pool BY <2>1, <2>2, <2>3
  <2> QED BY <2>4 DEF PoolBytes
<1>6. PoolsOK(Q)
  <2>1. P \subseteq {tlsf_get_pool, Extra.mem} /\ \A pool \in P : PoolFits(PoolBytes(pool))
    BY <1>3 DEF PoolsOK
  <2>2. Q \subseteq {tlsf_get_pool, Extra.mem} BY <2>1
  <2>3. \A pool \in Q : PoolFits(PoolBytes(pool)) BY <1>4, <1>5, <2>1
  <2> QED BY <2>2, <2>3 DEF PoolsOK
<1>7. Added(heap, g, S, z, Fr, P, e)
  <2>1. Added(heap, tlsf_add_pool(heap, e, PoolBytes(e)), S, z, Fr, P, e)
    BY <1>2, <1>4, <1>6, AddsPool
  <2> QED BY <1>5, <2>1
<1>8. HeapState(g, T, y, G, Q) /\ SameOn(heap, g, Safe(T, y, G, Q)) BY <1>7 DEF Added
<1>9. AddPoolIs(S, z, e, P) BY <1>3, <1>4, <1>6, ChainAddPool
<1>10. /\ Lo(e) \notin S /\ Hi(e) \notin S
       /\ \A c \in S : y[c] = z[c] /\ Nx(y, c) = Nx(z, c)
       /\ \A c \in S : c \notin Ends(P) <=> c \notin Ends(Q)
  BY <1>9 DEF AddPoolIs
<1>11. Hi(e) \in Ends(Q) BY DEF Ends
<1> HIDE DEF g, y
<1>12. Used(T, G, Q) = Used(S, Fr, P)
  <2>1. ASSUME NEW c \in Used(T, G, Q) PROVE c \in Used(S, Fr, P)
    <3>1. c \in T /\ c \notin G /\ c \notin Ends(Q) BY DEF Used
    <3>2. c \in S /\ c \notin Fr BY <1>11, <3>1
    <3> QED BY <1>10, <3>1, <3>2 DEF Used
  <2>2. ASSUME NEW c \in Used(S, Fr, P) PROVE c \in Used(T, G, Q)
    <3>1. c \in S /\ c \notin Fr /\ c \notin Ends(P) BY DEF Used
    <3>2. c \in T /\ c \notin G /\ c \notin Ends(Q) BY <1>10, <3>1
    <3> QED BY <3>2 DEF Used
  <2> QED BY <2>1, <2>2
<1>13. \A b \in Used(S, Fr, P) : y[b] = z[b] BY <1>10 DEF Used
<1> HIDE DEF T, G, Q
<1>14. Users(live, T, y, G, Q) BY <1>2, <1>12, <1>13, UsersStay
<1>15. ASSUME NEW pool \in Q PROVE g.mem[Lo(pool)] \in Garbage
  <2>1. heap.mem[Lo(pool)] \in Garbage BY <1>2 DEF Fronts, Q
  <2>2. Lo(pool) \in Safe(T, y, G, Q) BY <1>6, StartsSafe DEF Starts
  <2> QED BY <1>8, <2>1, <2>2 DEF SameOn
<1>16. Safe(S, z, Fr, P) \subseteq Safe(T, y, G, Q)
  <2> SUFFICES ASSUME NEW x \in Safe(S, z, Fr, P) PROVE x \in Safe(T, y, G, Q) OBVIOUS
  <2>1. x \in Addr BY DEF Safe
  <2>2. CASE x \in Starts(P) BY <2>1, <2>2 DEF Safe, Starts, Q
  <2>3. CASE x \notin Starts(P)
    <3>1. PICK q \in S \ Fr : q + W < x /\ x <= Nx(z, q) BY <2>3 DEF Safe
    <3>2. q \in T \ G /\ Nx(y, q) = Nx(z, q) BY <1>10, <3>1 DEF T, G
    <3> QED BY <2>1, <3>1, <3>2 DEF Safe
  <2> QED BY <2>2, <2>3
<1>17. SameOn(heap, g, Safe(S, z, Fr, P)) BY <1>8, <1>16 DEF SameOn
<1> QED BY <1>1, <1>4, <1>8, <1>14, <1>15, <1>17, PoolsStep

LEMMA RemovePoolStep ==
    ASSUME IInv, RemovePool
    PROVE  IInv' /\ PoolsOnly
<1>1. PICK S, z, Fr : Describes(heap, live, pools, S, z, Fr) BY DEF IInv
<1> DEFINE e == Extra.mem
           l == Lo(e)
           u == Hi(e)
           P == pools
           Q == P \ {e}
           T == S \ {l, u}
           F == Fr \ {l}
           g == block_remove(heap, l)
<1>2. /\ HeapState(heap, S, z, Fr, P) /\ Users(live, S, z, Fr, P) /\ Fronts(heap, P)
  BY <1>1 DEF Describes
<1>3. ListState(heap, S, z, Fr, Fr, P) /\ Coalesced(z, Fr) BY <1>2 DEF HeapState
<1>4. PoolsOK(P) /\ Chain(S, z, P) BY <1>3, StateFacts
<1>5. Extra.mem - block_header_overhead = l BY Layout DEF Lo
<1>6. /\ e \in P /\ block_is_free(heap, l) /\ block_is_last(heap, block_next(heap, l))
      /\ After(g, live, Q)
  BY <1>5 DEF RemovePool, tlsf_remove_pool
<1>7. l \in S /\ u \in S BY <1>4, <1>6 DEF Chain
<1>8. l \in Fr /\ block_next(heap, l) = Nx(z, l) BY <1>3, <1>6, <1>7, BlockHead
<1>9. l \notin Ends(P) BY <1>3, <1>8, StateFacts
<1>10. Nx(z, l) \in S BY <1>4, <1>7, <1>9, BlockPlace
<1>11. Nx(z, l) \in Ends(P) BY <1>3, <1>6, <1>8, <1>10, BlockHead
<1>12. Nx(z, l) = u
  <2>1. Aligned(Lo(e)) /\ Aligned(Hi(e)) /\ Lo(e) + 4 * W <= Hi(e) BY <1>4, <1>6, Pools
  <2>2. l <= l /\ l <= u BY <2>1, Layout DEF Aligned
  <2>3. l \in InPool(S, e) BY <1>7, <2>2 DEF InPool
  <2>4. Nx(z, l) \in InPool(S, e) BY <1>4, <1>6, <1>9, <2>3, LastInPool
  <2> QED BY <1>4, <1>6, <1>11, <2>4, LastInPool
<1>13. ListState(g, S, z, Fr, F, P) /\ SameOn(heap, g, Safe(S, z, Fr, P))
  BY <1>3, <1>8, BlockRemove
<1> HIDE DEF g
<1>14. /\ Fr \subseteq S \ Ends(P) /\ g \in HeapType /\ Rep(g, S, z, Fr) /\ Lists(g, F, z)
  BY <1>13, StateFacts
<1>15. Chain(T, z, Q) BY <1>4, <1>6, <1>12, ChainRemovePool
<1>16. PoolsOK(Q) BY <1>4 DEF PoolsOK
<1>17. u \in Ends(P) BY <1>6 DEF Ends
<1>18. Ends(P) = Ends(Q) \cup {u} BY <1>6 DEF Ends
<1>19. F \subseteq T \ Ends(Q) BY <1>14, <1>17, <1>18
<1>20. ASSUME NEW c \in T PROVE HeadIs(g, c, z, F)
  <2>1. c \in S /\ c # l /\ c # u OBVIOUS
  <2>2. HeadIs(g, c, z, Fr) BY <1>14, <2>1 DEF Rep
  <2>3. c \in F <=> c \in Fr BY <2>1
  <2>4. c \in Behind(z, F) <=> c \in Behind(z, Fr) BY <1>12, <2>1 DEF Behind
  <2> QED BY <2>2, <2>3, <2>4 DEF HeadIs
<1>21. Rep(g, T, z, F) BY <1>14, <1>20 DEF Rep
<1>22. HeapState(g, T, z, F, Q)
  <2>1. Coalesced(z, F) BY <1>3 DEF Coalesced
  <2>2. ListState(g, T, z, F, F, Q) BY <1>14, <1>15, <1>16, <1>19, <1>21 DEF ListState
  <2> QED BY <2>1, <2>2 DEF HeapState
<1>23. Used(T, F, Q) = Used(S, Fr, P) BY <1>8, <1>18 DEF Used
<1>24. Users(live, T, z, F, Q) BY <1>2, <1>23, UsersStay
<1>25. ASSUME NEW pool \in Q PROVE g.mem[Lo(pool)] \in Garbage
  <2>1. heap.mem[Lo(pool)] \in Garbage BY <1>2 DEF Fronts
  <2>2. Lo(pool) \in Safe(S, z, Fr, P) BY <1>4, StartsSafe DEF Starts
  <2> QED BY <1>13, <2>1, <2>2 DEF SameOn
<1> HIDE DEF Q, T, F
<1> QED BY <1>1, <1>6, <1>13, <1>22, <1>24, <1>25, PoolsStep

(* control_construct leaves empty lists, and no words changed but two.     *)
Constructed(h, memory) ==
    /\ h \in HeapType /\ h.fl_bitmap = {} /\ (\A i \in FL : h.sl_bitmap[i] = {})
    /\ \A i \in FL, j \in SL : h.blocks[i][j] = block_null
    /\ \A x \in Addr : x \notin {ARENA + 2 * W, ARENA + 3 * W} => h.mem[x] = memory[x]

LEMMA Construct ==
    ASSUME NEW memory \in [Addr -> Nat]
    PROVE  Constructed(control_construct(memory), memory)
<1> DEFINE r == [mem |-> memory, fl_bitmap |-> {}, sl_bitmap |-> [i \in FL |-> {}],
                 blocks |-> [i \in FL |-> [j \in SL |-> block_null]]]
           r1 == Put(r, block_null + 2 * W, block_null)
           r2 == Put(r1, block_null + 3 * W, block_null)
<1>1. control_construct(memory) = r2 BY DEF control_construct, SetLinks
<1>2. Aligned(ARENA) /\ Aligned(Bytes) /\ Bytes >= 7 * W /\ block_null = ARENA BY Places, Layout
<1>3. ARENA \in Nat /\ Bytes \in Nat /\ W \in Nat \ {0} BY <1>2, Layout DEF Aligned
<1>4. Aligned(ARENA + 2 * W) /\ Aligned(ARENA + 3 * W) BY <1>2, AlignedSum, AlignedWords
<1>5. /\ ARENA <= ARENA + 2 * W /\ ARENA + 2 * W < ARENA + Bytes
      /\ ARENA <= ARENA + 3 * W /\ ARENA + 3 * W < ARENA + Bytes
      /\ ARENA <= ARENA /\ ARENA < ARENA + Bytes
  BY <1>2, <1>3
<1>6. block_null \in Addr /\ block_null + 2 * W \in Addr /\ block_null + 3 * W \in Addr
  BY <1>2, <1>4, <1>5, AddrIs
<1>7. /\ r \in HeapType /\ r.fl_bitmap = {} /\ (\A i \in FL : r.sl_bitmap[i] = {})
      /\ (\A i \in FL, j \in SL : r.blocks[i][j] = block_null) /\ r.mem = memory
  <2>1. [i \in FL |-> [j \in SL |-> block_null]] \in [FL -> [SL -> Addr]] BY <1>6
  <2>2. [i \in FL |-> {}] \in [FL -> SUBSET SL] OBVIOUS
  <2>3. {} \in SUBSET FL OBVIOUS
  <2>4. r \in HeapType BY <2>1, <2>2, <2>3 DEF HeapType
  <2> QED BY <2>4
<1> HIDE DEF r
<1>8. Wrote(r, r1, {block_null + 2 * W}) BY <1>2, <1>3, <1>6, <1>7, PutFacts
<1>9. r1 \in HeapType BY <1>8, HeapTypeOfWrote
<1> HIDE DEF r1
<1>10. Wrote(r1, r2, {block_null + 3 * W}) BY <1>2, <1>3, <1>6, <1>9, PutFacts
<1> HIDE DEF r2
<1>11. Wrote(r, r2, {block_null + 2 * W} \cup {block_null + 3 * W}) BY <1>8, <1>10, WroteBoth
<1> QED BY <1>1, <1>2, <1>7, <1>11 DEF Wrote, Constructed

(* A heap without pools.                                                   *)
LEMMA EmptyState ==
    ASSUME NEW h, NEW memory, Constructed(h, memory)
    PROVE  HeapState(h, {}, <<>>, {}, {})
<1>1. PoolsOK({}) BY DEF PoolsOK
<1>2. Chain({}, <<>>, {}) BY DEF Chain
<1>3. Rep(h, {}, <<>>, {}) BY DEF Rep
<1>4. Linked(h, {}, <<>>, [e \in {} |-> 0]) BY DEF Linked
<1>5. Lists(h, {}, <<>>) BY <1>4 DEF Lists, HeadOK, Constructed
<1>6. h \in HeapType BY DEF Constructed
<1>7. Coalesced(<<>>, {}) BY DEF Coalesced
<1> QED BY <1>1, <1>2, <1>3, <1>5, <1>6, <1>7 DEF HeapState, ListState

(* tlsf_create_with_pool establishes the invariant.                        *)
LEMMA InitInv == Init => IInv
<1> SUFFICES ASSUME Init PROVE IInv OBVIOUS
<1>1. PICK v \in Garbage : heap = tlsf_create_with_pool([a \in Addr |-> v]) BY DEF Init
<1>2. v \in Nat BY TlsfMemory
<1> DEFINE memory == [a \in Addr |-> v]
           h == control_construct(memory)
           e == tlsf_get_pool
           n == Bytes - tlsf_size
<1>3. memory \in [Addr -> Nat] /\ \A x \in Addr : memory[x] = v BY <1>2
<1> HIDE DEF memory
<1>4. Constructed(h, memory) BY <1>3, Construct
<1>5. HeapState(h, {}, <<>>, {}, {}) BY <1>4, EmptyState
<1>6. heap = tlsf_add_pool(h, e, n) BY <1>1 DEF tlsf_create_with_pool, memory
<1>7. PoolBytes(e) = n BY DEF PoolBytes
<1>8. live = <<>> /\ pools = IF PoolFits(n) THEN {e} ELSE {} BY DEF Init
<1>9. \A x \in Addr : x \notin {ARENA + 2 * W, ARENA + 3 * W} => h.mem[x] = v
  BY <1>3, <1>4 DEF Constructed
<1> HIDE DEF h
<1> DEFINE x == Lo(Extra.mem)
<1>10. /\ ARENA \in Nat /\ Bytes \in Nat /\ Extra.mem \in Nat /\ Extra.bytes \in Nat
       /\ W \in Nat \ {0}
       /\ Bytes >= 7 * W /\ Extra.mem >= ARENA + Bytes + W /\ Extra.bytes >= 2 * W
  BY Places, Layout DEF Aligned
<1>11. x \in Nat /\ x >= ARENA + Bytes /\ x = Extra.mem - W BY <1>10 DEF Lo
<1>12. x \in Addr
  <2>1. Aligned(Extra.mem) /\ Aligned(W) /\ W <= Extra.mem BY <1>10, Places, AlignedWords
  <2>2. Aligned(x) BY <1>11, <2>1, AlignedDiff
  <2>3. Extra.mem - W <= x /\ x < Extra.mem + Extra.bytes BY <1>10, <1>11
  <2> QED BY <2>2, <2>3, AddrIs
<1>13. x # ARENA + 2 * W /\ x # ARENA + 3 * W BY <1>10, <1>11
<1>14. h.mem[x] = v BY <1>9, <1>12, <1>13
<1>15. CASE ~ PoolFits(n)
  <2>1. heap = h /\ pools = {} BY <1>6, <1>8, <1>15 DEF tlsf_add_pool
  <2>2. Used({}, {}, {}) = {} BY DEF Used
  <2>3. Users(live, {}, <<>>, {}, {})
    <3>1. DOMAIN live = {} BY <1>8
    <3> QED BY <2>2, <3>1 DEF Users
  <2>4. Fronts(heap, pools) BY <1>14, <2>1 DEF Fronts
  <2>5. Describes(heap, live, pools, {}, <<>>, {}) BY <1>5, <2>1, <2>3, <2>4 DEF Describes
  <2> QED BY <2>5 DEF IInv
<1>16. CASE PoolFits(n)
  <2> DEFINE P == {}
             Q == P \cup {e}
             T == {} \cup {Lo(e), Hi(e)}
             y == PoolSizes({}, <<>>, e)
             G == {} \cup {Lo(e)}
  <2>1. pools = {e} BY <1>8, <1>16
  <2>2. PoolsOK(Q) BY <1>7, <1>16 DEF PoolsOK
  <2>3. Added(h, heap, {}, <<>>, {}, P, e)
    <3>1. e \notin P OBVIOUS
    <3>2. Added(h, tlsf_add_pool(h, e, PoolBytes(e)), {}, <<>>, {}, P, e)
      BY <1>5, <2>2, <3>1, AddsPool
    <3> QED BY <1>6, <1>7, <3>2
  <2>4. /\ HeapState(heap, T, y, G, Q) /\ SameOn(h, heap, Safe(T, y, G, Q))
        /\ Changed(h, heap, {Lo(e) + W, Hi(e), Hi(e) + W} \cup LinkWords(G))
    BY <2>3 DEF Added
  <2>5. Used(T, G, Q) = {} BY DEF Used, Ends
  <2>6. Users(live, T, y, G, Q)
    <3>1. DOMAIN live = {} BY <1>8
    <3> HIDE DEF T, y, G, Q
    <3> QED BY <2>5, <3>1 DEF Users
  <2>7. Lo(e) = ARENA + 4 * W /\ Hi(e) = ARENA + Bytes - 2 * W
    <3>1. e = ARENA + 5 * W /\ tlsf_size = 5 * W BY Layout
    <3>2. Lo(e) = e - W /\ Hi(e) = e + n - 2 * W BY <1>7 DEF Lo, Hi
    <3> QED BY <1>10, <3>1, <3>2
  <2>8. heap.mem[x] \in Garbage
    <3>1. /\ x # Lo(e) + W /\ x # Hi(e) /\ x # Hi(e) + W
          /\ x # Lo(e) + 2 * W /\ x # Lo(e) + 3 * W
      <4> DEFINE lo == Lo(e)
                 hi == Hi(e)
      <4>1. lo = ARENA + 4 * W /\ hi = ARENA + Bytes - 2 * W BY <2>7
      <4>2. x \in Nat /\ x >= ARENA + Bytes BY <1>11
      <4>a. lo + 4 * W <= hi BY <2>2, Pools
      <4> HIDE DEF lo, hi, x, e
      <4>3. x # lo + W /\ x # lo + 2 * W /\ x # lo + 3 * W BY <1>10, <4>1, <4>2, <4>a
      <4>4. x # hi /\ x # hi + W BY <1>10, <4>1, <4>2
      <4> QED BY <4>3, <4>4 DEF lo, hi
    <3>2. x \notin LinkWords(G) BY <1>13, <3>1 DEF LinkWords
    <3> HIDE DEF x, G
    <3>3. heap.mem[x] = h.mem[x] BY <1>12, <2>4, <3>1, <3>2 DEF Changed
    <3> QED BY <1>14, <3>3
  <2>9. heap.mem[Lo(e)] \in Garbage
    <3>1. Lo(e) \in Safe(T, y, G, Q)
      <4>1. Lo(e) \in Starts(Q) BY DEF Starts
      <4> HIDE DEF T, y, G, Q
      <4> QED BY <2>2, <4>1, StartsSafe
    <3>2. heap.mem[Lo(e)] = h.mem[Lo(e)] BY <2>4, <3>1 DEF SameOn
    <3>3. Lo(e) \in Addr BY <3>1 DEF Safe
    <3>4. Lo(e) # ARENA + 2 * W /\ Lo(e) # ARENA + 3 * W BY <1>10, <2>7
    <3> QED BY <1>9, <3>2, <3>3, <3>4
  <2>10. Q = pools BY <2>1
  <2>11. Fronts(heap, Q) BY <2>8, <2>9 DEF Fronts
  <2> HIDE DEF T, y, G, Q
  <2>12. Describes(heap, live, pools, T, y, G) BY <2>4, <2>6, <2>10, <2>11 DEF Describes
  <2> QED BY <2>12 DEF IInv
<1> QED BY <1>15, <1>16

(* Every call keeps the invariant, and is for the users what UserStep      *)
(* says.                                                                   *)
LEMMA NextInv == IInv /\ [Next]_vars => IInv' /\ (UserStep \/ UNCHANGED vars)
<1> SUFFICES ASSUME IInv, [Next]_vars PROVE IInv' /\ (UserStep \/ UNCHANGED vars) OBVIOUS
<1>1. CASE \/ \E size \in Sizes : Malloc(size)
           \/ \E align \in Aligns, size \in Sizes : Memalign(align, size)
           \/ \E p \in DOMAIN live \cup {NULL} : Free(p)
           \/ \E p \in DOMAIN live \cup {NULL}, size \in Sizes : Realloc(p, size)
  BY <1>1, CallStep
<1>2. CASE AddPool BY <1>2, AddPoolStep DEF UserStep
<1>3. CASE RemovePool BY <1>3, RemovePoolStep DEF UserStep
<1>4. CASE UNCHANGED vars BY <1>4 DEF IInv, vars
<1> QED BY <1>1, <1>2, <1>3, <1>4 DEF Next

(* Whatever is called, and in whatever order, memory always describes      *)
(* blocks that tile the pools, the lists hold exactly the free ones, no    *)
(* two of them are neighbours, and the users hold the others.              *)
THEOREM HeapInvariant == Spec => []IInv
<1>1. IInv /\ [Next]_vars => IInv' BY NextInv
<1> QED BY <1>1, InitInv, PTL DEF Spec

(* The heap is always sound: tlsf_check and tlsf_check_pool would find no  *)
(* fault after any sequence of malloc, memalign, realloc, free,            *)
(* tlsf_add_pool and tlsf_remove_pool.                                     *)
THEOREM HeapStaysSound == Spec => []HeapSound
<1>1. IInv => HeapSound
  <2> SUFFICES ASSUME IInv PROVE HeapSound OBVIOUS
  <2>1. PICK S, z, Fr : Describes(heap, live, pools, S, z, Fr) BY DEF IInv
  <2> QED BY <2>1, DescribedSound
<1> QED BY <1>1, HeapInvariant, PTL

(* malloc and memalign never return NULL while a free block is as large as *)
(* the request rounded up to a size class.                                 *)
THEOREM RefusalsAreJustified == Spec => []RefusesOnlyWhenFull
BY HeapStaysSound, SoundHeapRefusesOnlyWhenFull, PTL

-----------------------------------------------------------------------------
(* The users' view of the heap.                                            *)
Block(h, l, p) ==
    [align |-> l[p].align, words |-> [i \in 1 .. l[p].n |-> h.mem[p + W * (i - 1)]]]

HeldBy(h, l) == [p \in DOMAIN l |-> Block(h, l, p)]
OwnedBy(P)   == UNION {PoolWords(pool) : pool \in P}
SpanOf(l, p) == {p + W * (i - 1) : i \in 1 .. l[p].n}

(* Users' words lie in pools.                                              *)
LEMMA PoolWordsAre ==
    ASSUME NEW P, PoolsOK(P), NEW pool \in P
    PROVE  /\ PoolWords(pool) = {x \in Nat : Aligned(x) /\ pool <= x /\ x < pool + PoolBytes(pool)}
           /\ PoolWords(pool) \subseteq Addr
<1> DEFINE n == PoolBytes(pool)
<1>1. PoolWords(pool) = WordsFrom(pool, n) BY DEF PoolWords, PoolBytes
<1>2. Aligned(pool) /\ Aligned(n) BY Pools
<1>3. PoolWords(pool) = {x \in Nat : Aligned(x) /\ pool <= x /\ x < pool + n}
  BY <1>1, <1>2, WordsFromIs
<1>4. ASSUME NEW x \in PoolWords(pool) PROVE x \in Addr
  <2>1. x \in Nat /\ Aligned(x) /\ pool <= x /\ x < pool + n BY <1>3
  <2>2. Aligned(pool + n) BY <1>2, AlignedSum
  <2>3. x + W <= pool + n BY <2>1, <2>2, AlignedGap
  <2>4. pool \in Nat /\ n \in Nat /\ W \in Nat \ {0} BY <1>2, Layout DEF Aligned
  <2>5. Lo(pool) = pool - W /\ Hi(pool) = pool + n - 2 * W BY DEF Lo, Hi
  <2> HIDE DEF n
  <2>6. Lo(pool) <= x /\ x <= Hi(pool) + W BY <2>1, <2>3, <2>4, <2>5
  <2>7. \A a : Aligned(a) /\ Lo(pool) <= a /\ a <= Hi(pool) + W => a \in Addr BY Pools
  <2> QED BY <2>1, <2>6, <2>7
<1> QED BY <1>3, <1>4

LEMMA OwnInPool ==
    ASSUME NEW P, PoolsOK(P), NEW S, NEW z, Chain(S, z, P), NEW b \in S, b \notin Ends(P)
    PROVE  Own(z, b) \cap Addr \subseteq OwnedBy(P)
<1> SUFFICES ASSUME NEW x \in Own(z, b), x \in Addr PROVE x \in OwnedBy(P) OBVIOUS
<1>1. PICK pool \in P : Lo(pool) <= b /\ Nx(z, b) <= Hi(pool) BY InOnePool
<1> DEFINE n == PoolBytes(pool)
<1>2. x \in Nat /\ b + W < x /\ x <= Nx(z, b) BY DEF Own
<1>3. Aligned(x) BY AddrIs
<1>4. b \in Nat /\ Nx(z, b) \in Nat BY BlockPlace
<1>5. Aligned(pool) /\ Aligned(n) /\ Lo(pool) = pool - W /\ Hi(pool) = pool + n - 2 * W
  BY Pools DEF Lo, Hi
<1>6. pool \in Nat /\ n \in Nat /\ W \in Nat \ {0} BY <1>5, Layout DEF Aligned
<1> HIDE DEF n
<1>7. pool <= x /\ x < pool + n BY <1>1, <1>2, <1>4, <1>5, <1>6
<1>8. x \in PoolWords(pool) BY <1>2, <1>3, <1>7, PoolWordsAre DEF n
<1> QED BY <1>8 DEF OwnedBy

(* A held block is aligned, in a pool, and apart from the others.          *)
WellHeld(l, P, p) ==
    /\ p % l[p].align = 0 /\ SpanOf(l, p) \subseteq OwnedBy(P)
    /\ \A q \in DOMAIN l \ {p} : SpanOf(l, p) \cap SpanOf(l, q) = {}

LEMMA SpanIs ==
    ASSUME NEW l, NEW p \in Nat, l[p].n \in Nat
    PROVE  SpanOf(l, p) = WordsFrom(p, l[p].n * W)
<1> DEFINE n == l[p].n
<1>1. WordsFrom(p, n * W) = {p + W * i : i \in 0 .. n - 1} BY WordsOf
<1>2. ASSUME NEW i \in 1 .. n PROVE i - 1 \in 0 .. n - 1 BY SMT
<1>3. ASSUME NEW i \in 0 .. n - 1 PROVE i + 1 \in 1 .. n /\ (i + 1) - 1 = i BY SMT
<1>4. SpanOf(l, p) = {p + W * (i - 1) : i \in 1 .. n} BY DEF SpanOf
<1> HIDE DEF n
<1>5. ASSUME NEW x \in SpanOf(l, p) PROVE x \in WordsFrom(p, n * W)
  <2>1. PICK i \in 1 .. n : x = p + W * (i - 1) BY <1>4
  <2> QED BY <1>1, <1>2, <2>1
<1>6. ASSUME NEW x \in WordsFrom(p, n * W) PROVE x \in SpanOf(l, p)
  <2>1. PICK i \in 0 .. n - 1 : x = p + W * i BY <1>1
  <2> QED BY <1>3, <1>4, <2>1
<1> QED BY <1>5, <1>6 DEF n

(* The invariant places all blocks of the users well.                      *)
LEMMA AllWellHeld ==
    ASSUME NEW h, NEW l, NEW P, NEW S, NEW z, NEW Fr, Describes(h, l, P, S, z, Fr)
    PROVE  \A p \in DOMAIN l : WellHeld(l, P, p) /\ p \in Nat /\ l[p].n \in Nat
<1> SUFFICES ASSUME NEW p \in DOMAIN l PROVE WellHeld(l, P, p) /\ p \in Nat /\ l[p].n \in Nat
    OBVIOUS
<1>1. HeapState(h, S, z, Fr, P) BY DEF Describes
<1>2. PoolsOK(P) /\ Chain(S, z, P) BY <1>1, StateFacts DEF HeapState
<1>3. ASSUME NEW e \in DOMAIN l
      PROVE  /\ e \in Nat /\ l[e].n \in Nat /\ e % l[e].align = 0
             /\ \E b \in S : e = b + 2 * W /\ b \notin Ends(P) /\ SpanOf(l, e) \subseteq Own(z, b) \cap Addr
  <2>1. PICK b \in Used(S, Fr, P) :
              /\ e = b + 2 * W /\ b \in S /\ b \notin Fr /\ b \notin Ends(P) /\ b \in Nat
              /\ l[e].n \in Nat /\ l[e].n * W <= z[b] /\ e % l[e].align = 0
              /\ WordsFrom(e, l[e].n * W) \subseteq Own(z, b) \cap Addr
    BY HeldBlock
  <2>2. e \in Nat BY <2>1, Layout
  <2>3. SpanOf(l, e) = WordsFrom(e, l[e].n * W) BY <2>1, <2>2, SpanIs
  <2> QED BY <2>1, <2>2, <2>3
<1>4. PICK b \in S : p = b + 2 * W /\ b \notin Ends(P) /\ SpanOf(l, p) \subseteq Own(z, b) \cap Addr
  BY <1>3
<1>5. SpanOf(l, p) \subseteq OwnedBy(P) BY <1>2, <1>4, OwnInPool
<1>6. ASSUME NEW q \in DOMAIN l \ {p} PROVE SpanOf(l, p) \cap SpanOf(l, q) = {}
  <2>1. PICK c \in S : q = c + 2 * W /\ c \notin Ends(P) /\ SpanOf(l, q) \subseteq Own(z, c) \cap Addr
    BY <1>3
  <2>2. b # c BY <1>4, <2>1
  <2>3. Own(z, b) \cap Own(z, c) = {} BY <1>2, <2>2, OwnApart
  <2> QED BY <1>4, <2>1, <2>3
<1> QED BY <1>3, <1>5, <1>6 DEF WellHeld

(* A block that was kept has the same contents for the contract.           *)
LEMMA KeptBlock ==
    ASSUME NEW h, NEW g, NEW l, NEW m, NEW p \in Nat, l[p].n \in Nat, m[p] = l[p],
           SameOn(h, g, WordsFrom(p, l[p].n * W))
    PROVE  Block(g, m, p) = Block(h, l, p)
<1> DEFINE n == l[p].n
<1>1. WordsFrom(p, n * W) = {p + W * i : i \in 0 .. n - 1} BY WordsOf
<1>2. ASSUME NEW i \in 1 .. n PROVE g.mem[p + W * (i - 1)] = h.mem[p + W * (i - 1)]
  <2>1. i - 1 \in 0 .. n - 1 BY SMT
  <2>2. p + W * (i - 1) \in WordsFrom(p, n * W) BY <1>1, <2>1
  <2> QED BY <2>2 DEF SameOn
<1>3. [i \in 1 .. n |-> g.mem[p + W * (i - 1)]] = [i \in 1 .. n |-> h.mem[p + W * (i - 1)]]
  BY <1>2
<1> QED BY <1>3 DEF Block

Seen == IInv /\ IInv'

LEMMA KeptBlocks ==
    ASSUME Seen, NEW Q, Keeping(Q)
    PROVE  \A q \in Q : q \in DOMAIN live /\ q \in DOMAIN live'
                        /\ Block(heap', live', q) = Block(heap, live, q)
<1> SUFFICES ASSUME NEW q \in Q
    PROVE  q \in DOMAIN live /\ q \in DOMAIN live' /\ Block(heap', live', q) = Block(heap, live, q)
    OBVIOUS
<1>1. PICK S, z, Fr : Describes(heap, live, pools, S, z, Fr) BY DEF Seen, IInv
<1>2. /\ q \in DOMAIN live /\ q \in DOMAIN live' /\ live'[q] = live[q]
      /\ SameOn(heap, heap', WordsFrom(q, live[q].n * W))
  BY DEF Keeping
<1>3. q \in Nat /\ live[q].n \in Nat BY <1>1, <1>2, AllWellHeld
<1>4. Block(heap', live', q) = Block(heap, live, q) BY <1>2, <1>3, KeptBlock
<1> QED BY <1>2, <1>4

(* The contract's variables and actions, in the terms above.               *)
LEMMA HeldAre ==
    ASSUME NEW h, NEW l
    PROVE  /\ DOMAIN HeldBy(h, l) = DOMAIN l
           /\ \A p \in DOMAIN l : HeldBy(h, l)[p] = Block(h, l, p)
BY DEF HeldBy

LEMMA BlockAre ==
    ASSUME NEW h, NEW l, NEW p
    PROVE  /\ Block(h, l, p).align = l[p].align
           /\ DOMAIN Block(h, l, p).words = 1 .. l[p].n
           /\ \A i \in 1 .. l[p].n : Block(h, l, p).words[i] = h.mem[p + W * (i - 1)]
           /\ Contract!Span(p, Block(h, l, p).words) = SpanOf(l, p)
<1>1. /\ Block(h, l, p).align = l[p].align
      /\ Block(h, l, p).words = [i \in 1 .. l[p].n |-> h.mem[p + W * (i - 1)]] BY DEF Block
<1>2. /\ DOMAIN Block(h, l, p).words = 1 .. l[p].n
      /\ \A i \in 1 .. l[p].n : Block(h, l, p).words[i] = h.mem[p + W * (i - 1)] BY <1>1
<1>3. Contract!Span(p, Block(h, l, p).words) = SpanOf(l, p) BY <1>2 DEF Contract!Span, SpanOf
<1> QED BY <1>1, <1>2, <1>3

LEMMA ViewIs ==
    /\ Contract!vars = <<OwnedBy(pools), HeldBy(heap, live)>>
    /\ Contract!Init <=> OwnedBy(pools) \subseteq Addr /\ HeldBy(heap, live) = <<>>
<1>1. Contract!vars = <<OwnedBy(pools), HeldBy(heap, live)>>
  BY DEF Contract!vars, HeldBy, Block, OwnedBy
<1>2. Contract!Init <=> OwnedBy(pools) \subseteq Addr /\ HeldBy(heap, live) = <<>>
  BY DEF Contract!Init, HeldBy, Block, OwnedBy
<1> QED BY <1>1, <1>2

LEMMA StepsAre ==
    LET H == HeldBy(heap, live)  G == HeldBy(heap', live')  O == OwnedBy(pools)  N == OwnedBy(pools')
        Kept(Q)  == \A q \in Q : q \in DOMAIN G /\ G[q] = H[q]
        Placed(p) == /\ p % G[p].align = 0
                     /\ Contract!Span(p, G[p].words) \subseteq O
                     /\ \A q \in DOMAIN G \ {p} :
                           Contract!Span(p, G[p].words) \cap Contract!Span(q, G[q].words) = {}
    IN  /\ Contract!Allocate <=>
              \E p \in DOMAIN G \ DOMAIN H :
                 DOMAIN G = DOMAIN H \cup {p} /\ Kept(DOMAIN H) /\ Placed(p) /\ N = O
        /\ Contract!Free <=>
              \E p \in DOMAIN H : DOMAIN G = DOMAIN H \ {p} /\ Kept(DOMAIN H \ {p}) /\ N = O
        /\ Contract!Resize <=>
              \E p \in DOMAIN H, q \in DOMAIN G :
                 /\ DOMAIN G = (DOMAIN H \ {p}) \cup {q}
                 /\ q = p \/ q \notin DOMAIN H
                 /\ Kept(DOMAIN H \ {p})
                 /\ Placed(q)
                 /\ \A i \in DOMAIN H[p].words \cap DOMAIN G[q].words : G[q].words[i] = H[p].words[i]
                 /\ N = O
        /\ Contract!ChangePools <=>
              /\ G = H /\ N \subseteq Addr
              /\ \A p \in DOMAIN H : Contract!Span(p, H[p].words) \subseteq N
<1> USE DEF HeldBy, Block, OwnedBy
<1> QED BY DEF Contract!Allocate, Contract!Free, Contract!Resize, Contract!ChangePools,
          Contract!Keeps, Contract!WellPlaced

(* What a call may be for the users is a step of the contract.             *)
LEMMA UserStepRefines ==
    ASSUME Seen, UserStep
    PROVE  Contract!Next \/ UNCHANGED Contract!vars
<1> DEFINE H == HeldBy(heap, live)
           G == HeldBy(heap', live')
           O == OwnedBy(pools)
           N == OwnedBy(pools')
           Kept(Q) == \A q \in Q : q \in DOMAIN G /\ G[q] = H[q]
           Placed(p) == /\ p % G[p].align = 0
                        /\ Contract!Span(p, G[p].words) \subseteq O
                        /\ \A q \in DOMAIN G \ {p} :
                              Contract!Span(p, G[p].words) \cap Contract!Span(q, G[q].words) = {}
<1>1. DOMAIN H = DOMAIN live /\ \A p \in DOMAIN live : H[p] = Block(heap, live, p)
  BY HeldAre
<1>2. DOMAIN G = DOMAIN live' /\ \A p \in DOMAIN live' : G[p] = Block(heap', live', p)
  BY HeldAre
<1>3. ASSUME NEW Q, Keeping(Q) PROVE Kept(Q)
  <2> SUFFICES ASSUME NEW q \in Q PROVE q \in DOMAIN G /\ G[q] = H[q] OBVIOUS
  <2>1. q \in DOMAIN live /\ q \in DOMAIN live' /\ Block(heap', live', q) = Block(heap, live, q)
    BY <1>3, KeptBlocks
  <2> HIDE DEF H, G
  <2> QED BY <1>1, <1>2, <2>1
<1>4. ASSUME NEW p \in DOMAIN live', pools' = pools PROVE Placed(p)
  <2>1. PICK S, z, Fr : Describes(heap', live', pools', S, z, Fr) BY DEF Seen, IInv
  <2>2. \A q \in DOMAIN live' : WellHeld(live', pools', q) BY <2>1, AllWellHeld
  <2>3. /\ p % live'[p].align = 0 /\ SpanOf(live', p) \subseteq OwnedBy(pools)
        /\ \A q \in DOMAIN live' \ {p} : SpanOf(live', p) \cap SpanOf(live', q) = {}
    BY <1>4, <2>2 DEF WellHeld
  <2>4. ASSUME NEW q \in DOMAIN live'
        PROVE  G[q].align = live'[q].align /\ Contract!Span(q, G[q].words) = SpanOf(live', q)
    <3>1. G[q] = Block(heap', live', q) BY <1>2
    <3> HIDE DEF G
    <3> QED BY <3>1, BlockAre
  <2> HIDE DEF G
  <2> QED BY <1>2, <2>3, <2>4
<1>5. O \subseteq Addr /\ N \subseteq Addr
  <2>1. PICK S, z, Fr : Describes(heap, live, pools, S, z, Fr) BY DEF Seen, IInv
  <2>2. PICK S2, z2, Fr2 : Describes(heap', live', pools', S2, z2, Fr2) BY DEF Seen, IInv
  <2>3. PoolsOK(pools) BY <2>1, StateFacts DEF Describes, HeapState
  <2>4. PoolsOK(pools') BY <2>2, StateFacts DEF Describes, HeapState
  <2>5. \A pool \in pools : PoolWords(pool) \subseteq Addr BY <2>3, PoolWordsAre
  <2>6. \A pool \in pools' : PoolWords(pool) \subseteq Addr BY <2>4, PoolWordsAre
  <2> QED BY <2>5, <2>6 DEF OwnedBy
<1>6. ASSUME DOMAIN live' = DOMAIN live, Keeping(DOMAIN live) PROVE G = H
  <2>1. \A q \in DOMAIN live : Block(heap', live', q) = Block(heap, live, q)
    BY <1>6, KeptBlocks
  <2> QED BY <1>6, <2>1 DEF HeldBy
<1>7. CASE NoChange
  <2>1. G = H /\ N = O BY <1>6, <1>7 DEF NoChange
  <2>2. Contract!vars' = <<N, G>> BY DEF Contract!vars, HeldBy, Block, OwnedBy
  <2>3. Contract!vars = <<O, H>> BY ViewIs
  <2> HIDE DEF H, G, O, N
  <2> QED BY <2>1, <2>2, <2>3
<1>8. CASE Given
  <2>1. PICK p \in DOMAIN live' \ DOMAIN live :
            DOMAIN live' = DOMAIN live \cup {p} /\ Keeping(DOMAIN live)
    BY <1>8 DEF Given
  <2>2. N = O /\ Kept(DOMAIN live) /\ Placed(p) BY <1>3, <1>4, <1>8, <2>1 DEF Given
  <2> HIDE DEF H, G, O, N
  <2>3. \E x \in DOMAIN G \ DOMAIN H :
            DOMAIN G = DOMAIN H \cup {x} /\ Kept(DOMAIN H) /\ Placed(x) /\ N = O
    BY <1>1, <1>2, <2>1, <2>2
  <2>4. Contract!Allocate BY <2>3, StepsAre DEF H, G, O, N
  <2> QED BY <2>4 DEF Contract!Next
<1>9. CASE Released
  <2>1. PICK p \in DOMAIN live : DOMAIN live' = DOMAIN live \ {p} /\ Keeping(DOMAIN live \ {p})
    BY <1>9 DEF Released
  <2>2. N = O /\ Kept(DOMAIN live \ {p}) BY <1>3, <1>9, <2>1 DEF Released
  <2> HIDE DEF H, G, O, N
  <2>3. \E x \in DOMAIN H : DOMAIN G = DOMAIN H \ {x} /\ Kept(DOMAIN H \ {x}) /\ N = O
    BY <1>1, <1>2, <2>1, <2>2
  <2>4. Contract!Free BY <2>3, StepsAre DEF H, G, O, N
  <2> QED BY <2>4 DEF Contract!Next
<1>10. CASE Moved
  <2>1. PICK p \in DOMAIN live, q \in DOMAIN live' :
            /\ DOMAIN live' = (DOMAIN live \ {p}) \cup {q}
            /\ q = p \/ q \notin DOMAIN live
            /\ Keeping(DOMAIN live \ {p}) /\ SamePrefix(p, q)
    BY <1>10 DEF Moved
  <2>2. N = O /\ Kept(DOMAIN live \ {p}) /\ Placed(q) BY <1>3, <1>4, <1>10, <2>1 DEF Moved
  <2>3. live[p].n \in Nat /\ live'[q].n \in Nat
    <3>1. PICK S, z, Fr : Describes(heap, live, pools, S, z, Fr) BY DEF Seen, IInv
    <3>2. PICK S2, z2, Fr2 : Describes(heap', live', pools', S2, z2, Fr2) BY DEF Seen, IInv
    <3>3. live[p].n \in Nat BY <3>1, AllWellHeld
    <3>4. live'[q].n \in Nat BY <3>2, AllWellHeld
    <3> QED BY <3>3, <3>4
  <2>4. H[p] = Block(heap, live, p) /\ G[q] = Block(heap', live', q) BY <1>1, <1>2
  <2> HIDE DEF H, G, O, N
  <2>5. /\ DOMAIN H[p].words = 1 .. live[p].n
        /\ \A i \in 1 .. live[p].n : H[p].words[i] = heap.mem[p + W * (i - 1)]
    BY <2>4, BlockAre
  <2>6. /\ DOMAIN G[q].words = 1 .. live'[q].n
        /\ \A i \in 1 .. live'[q].n : G[q].words[i] = heap'.mem[q + W * (i - 1)]
    BY <2>4, BlockAre
  <2>7. ASSUME NEW i \in DOMAIN H[p].words \cap DOMAIN G[q].words
        PROVE  G[q].words[i] = H[p].words[i]
    <3>1. i \in 1 .. live[p].n /\ i \in 1 .. live'[q].n BY <2>5, <2>6
    <3>2. i - 1 \in Nat /\ i - 1 < live[p].n /\ i - 1 < live'[q].n BY <2>3, <3>1
    <3>3. heap'.mem[q + W * (i - 1)] = heap.mem[p + W * (i - 1)] BY <2>1, <3>2 DEF SamePrefix
    <3> QED BY <2>5, <2>6, <3>1, <3>3
  <2>8. \E x \in DOMAIN H, y \in DOMAIN G :
            /\ DOMAIN G = (DOMAIN H \ {x}) \cup {y}
            /\ y = x \/ y \notin DOMAIN H
            /\ Kept(DOMAIN H \ {x})
            /\ Placed(y)
            /\ \A i \in DOMAIN H[x].words \cap DOMAIN G[y].words : G[y].words[i] = H[x].words[i]
            /\ N = O
    <3> HIDE DEF Kept, Placed
    <3> QED BY <1>1, <1>2, <2>1, <2>2, <2>7
  <2>9. Contract!Resize BY <2>8, StepsAre DEF H, G, O, N
  <2> QED BY <2>9 DEF Contract!Next
<1>11. CASE PoolsOnly
  <2>1. G = H BY <1>6, <1>11 DEF PoolsOnly
  <2>2. ASSUME NEW p \in DOMAIN H PROVE Contract!Span(p, H[p].words) \subseteq N
    <3>1. PICK S, z, Fr : Describes(heap', live', pools', S, z, Fr) BY DEF Seen, IInv
    <3>2. p \in DOMAIN live' BY <1>1, <1>11, <2>2 DEF PoolsOnly
    <3>3. SpanOf(live', p) \subseteq N BY <3>1, <3>2, AllWellHeld DEF WellHeld
    <3>4. G[p] = Block(heap', live', p) BY <1>2, <3>2
    <3> HIDE DEF H, G, O, N
    <3>5. Contract!Span(p, G[p].words) = SpanOf(live', p) BY <3>4, BlockAre
    <3> QED BY <2>1, <3>3, <3>5
  <2> HIDE DEF H, G, O, N
  <2>3. G = H /\ N \subseteq Addr /\ \A p \in DOMAIN H : Contract!Span(p, H[p].words) \subseteq N
    BY <1>5, <2>1, <2>2
  <2>4. Contract!ChangePools BY <2>3, StepsAre DEF H, G, O, N
  <2> QED BY <2>4 DEF Contract!Next
<1> QED BY <1>7, <1>8, <1>9, <1>10, <1>11 DEF UserStep

LEMMA InitRefines == Init => Contract!Init
<1> SUFFICES ASSUME Init PROVE Contract!Init OBVIOUS
<1>1. PICK S, z, Fr : Describes(heap, live, pools, S, z, Fr) BY InitInv DEF IInv
<1>2. PoolsOK(pools) BY <1>1, StateFacts DEF Describes, HeapState
<1>3. \A pool \in pools : PoolWords(pool) \subseteq Addr BY <1>2, PoolWordsAre
<1>4. OwnedBy(pools) \subseteq Addr BY <1>3 DEF OwnedBy
<1>5. live = <<>> BY DEF Init
<1>6. HeldBy(heap, live) = <<>> BY <1>5 DEF HeldBy
<1> QED BY <1>4, <1>6, ViewIs

(* tlsf.c implements HeapContract: no call ever moves, overlaps, misaligns *)
(* or overwrites a block that a user holds, except the one realloc was     *)
(* called for, whose contents are kept as far as both sizes go.            *)
THEOREM HeapKeepsItsContract == Spec => ImplementsHeap
<1>1. ASSUME IInv, IInv', [Next]_vars PROVE [Contract!Next]_(Contract!vars)
  <2>1. CASE UserStep BY <1>1, <2>1, UserStepRefines DEF Seen
  <2>2. CASE UNCHANGED vars
    <3>1. pools' = pools /\ heap' = heap /\ live' = live BY <2>2 DEF vars
    <3>2. Contract!vars' = Contract!vars BY <3>1 DEF Contract!vars
    <3> QED BY <3>2
  <2> QED BY <1>1, <2>1, <2>2, NextInv
<1> QED BY <1>1, InitRefines, HeapInvariant, PTL DEF Spec, ImplementsHeap, Contract!Spec

=============================================================================
