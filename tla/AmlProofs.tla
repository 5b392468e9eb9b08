------------------------------ MODULE AmlProofs ------------------------------
(***************************************************************************)
(* Proofs about aml.c, for every tree below 2^28 bytes: the two ways it    *)
(* computes a PkgLength agree, aml_node_size is defined on every tree, and *)
(* aml_node_serialize fills the buffer of that size and writes packages    *)
(* that nest the way the nodes do.                                         *)
(***************************************************************************)
EXTENDS Aml, SequenceTheorems, WellFoundedInduction, TLAPS

-----------------------------------------------------------------------------
(* PkgLength *)

(* Splitting a length into its low 4 bits and the bytes above them.        *)
LEMMA Nibbles ==
    ASSUME NEW len \in Nat
    PROVE  /\ len % 16 \in 0 .. 15
           /\ (len \div 16) % 256 \in 0 .. 255
           /\ (len \div 4096) % 256 \in 0 .. 255
           /\ len = (len % 16) + 16 * (len \div 16)
           /\ len \div 16 = ((len \div 16) % 256) + 256 * (len \div 4096)
           /\ len \div 4096 = ((len \div 4096) % 256) + 256 * (len \div 1048576)
           /\ len \div 16 \in Nat /\ len \div 4096 \in Nat /\ len \div 1048576 \in Nat
<1>1. \A n \in Nat : n % 16 \in 0 .. 15 /\ n % 256 \in 0 .. 255
  BY SMT
<1>2. \A n \in Nat : n = (n % 16) + 16 * (n \div 16)
  BY SMT
<1>3. \A n \in Nat : n = (n % 256) + 256 * (n \div 256)
  BY SMT
<1>4. len \div 16 \in Nat /\ len \div 4096 \in Nat /\ len \div 1048576 \in Nat
  BY SMT
<1>5. len \div 4096 = (len \div 16) \div 256
  BY SMT
<1>6. len \div 1048576 = (len \div 4096) \div 256
  BY SMT
<1> QED
  BY <1>1, <1>2, <1>3, <1>4, <1>5, <1>6, SMT

(* A lead byte names the number of bytes that follow it.                   *)
LEMMA LeadByte ==
    ASSUME NEW n \in 0 .. 15
    PROVE  /\ (64 + n) \div 64 = 1  /\ (64 + n) % 16 = n
           /\ (128 + n) \div 64 = 2 /\ (128 + n) % 16 = n
           /\ (192 + n) \div 64 = 3 /\ (192 + n) % 16 = n
  BY SMT

(* aml_node_serialize writes as many bytes as aml_node_size counted, and   *)
(* they are read back as the length of the package: the body and the       *)
(* PkgLength itself.                                                       *)
THEOREM PkgLengthAgrees ==
    ASSUME NEW body \in Nat, body < 268435452
    PROVE  LET len == body + PkgLengthSize(body)
           IN  /\ Len(PkgLength(len)) = PkgLengthSize(body)
               /\ DecodePkgLength(PkgLength(len)) = len
<1> DEFINE len == body + PkgLengthSize(body)
<1> DEFINE low == len % 16
           b2 == (len \div 16) % 256
           b3 == (len \div 4096) % 256
           b4 == (len \div 1048576) % 256
<1> SUFFICES /\ Len(PkgLength(len)) = PkgLengthSize(body)
             /\ DecodePkgLength(PkgLength(len)) = len
  OBVIOUS
<1>1. \/ body < 63 /\ PkgLengthSize(body) = 1 /\ len = body + 1
      \/ body >= 63 /\ body < 4094 /\ PkgLengthSize(body) = 2 /\ len = body + 2
      \/ body >= 4094 /\ body < 1048573 /\ PkgLengthSize(body) = 3 /\ len = body + 3
      \/ body >= 1048573 /\ PkgLengthSize(body) = 4 /\ len = body + 4
  BY SMT DEF PkgLengthSize
<1> HIDE DEF len
<1>2. /\ len \in Nat
      /\ \/ PkgLengthSize(body) = 1 /\ len < 64
         \/ PkgLengthSize(body) = 2 /\ len >= 64 /\ len < 4096
         \/ PkgLengthSize(body) = 3 /\ len >= 4096 /\ len < 1048576
         \/ PkgLengthSize(body) = 4 /\ len >= 1048576 /\ len < 268435456
  BY <1>1, SMT
<1>3. /\ low \in 0 .. 15 /\ b2 \in 0 .. 255 /\ b3 \in 0 .. 255
      /\ len = low + 16 * (len \div 16)
      /\ len \div 16 = b2 + 256 * (len \div 4096)
      /\ len \div 4096 = b3 + 256 * (len \div 1048576)
      /\ len \div 16 \in Nat /\ len \div 4096 \in Nat /\ len \div 1048576 \in Nat
  BY <1>2, Nibbles, SMT
<1>4. CASE PkgLengthSize(body) = 1
  <2>1. len < 64 /\ PkgLength(len) = <<len>>
    BY <1>2, <1>4, SMT DEF PkgLength
  <2>2. len \div 64 = 0
    BY <1>2, <2>1, SMT
  <2> QED
    BY <1>4, <2>1, <2>2, SMT DEF DecodePkgLength, FollowBytes
<1>5. CASE PkgLengthSize(body) = 2
  <2>1. len >= 64 /\ len < 4096 /\ PkgLength(len) = <<64 + low, b2>>
    BY <1>2, <1>5, SMT DEF PkgLength
  <2>2. len \div 4096 = 0
    BY <1>2, <2>1, SMT
  <2> HIDE DEF low, b2, b3, b4
  <2>3. low + 16 * b2 = len
    BY <1>2, <1>3, <2>2, SMT
  <2>4. Len(PkgLength(len)) = 2 /\ PkgLength(len)[1] = 64 + low /\ PkgLength(len)[2] = b2
    BY <2>1, SMT
  <2>5. (64 + low) \div 64 = 1 /\ (64 + low) % 16 = low
    BY <1>3, LeadByte, SMT
  <2> QED
    BY <1>5, <2>3, <2>4, <2>5, SMT DEF DecodePkgLength, FollowBytes
<1>6. CASE PkgLengthSize(body) = 3
  <2>1. len >= 4096 /\ len < 1048576 /\ PkgLength(len) = <<128 + low, b2, b3>>
    BY <1>2, <1>6, SMT DEF PkgLength
  <2>2. len \div 1048576 = 0
    BY <1>2, <2>1, SMT
  <2> HIDE DEF low, b2, b3, b4
  <2>3. low + 16 * b2 + 4096 * b3 = len
    BY <1>2, <1>3, <2>2, SMT
  <2>4. Len(PkgLength(len)) = 3 /\ PkgLength(len)[1] = 128 + low
        /\ PkgLength(len)[2] = b2 /\ PkgLength(len)[3] = b3
    BY <2>1, SMT
  <2>5. (128 + low) \div 64 = 2 /\ (128 + low) % 16 = low
    BY <1>3, LeadByte, SMT
  <2> QED
    BY <1>6, <2>3, <2>4, <2>5, SMT DEF DecodePkgLength, FollowBytes
<1>7. CASE PkgLengthSize(body) = 4
  <2>1. len >= 1048576 /\ len < 268435456 /\ PkgLength(len) = <<192 + low, b2, b3, b4>>
    BY <1>2, <1>7, SMT DEF PkgLength
  <2>2. b4 = len \div 1048576
    BY <1>2, <2>1, SMT
  <2> HIDE DEF low, b2, b3, b4
  <2>3. low + 16 * b2 + 4096 * b3 + 1048576 * b4 = len
    BY <1>2, <1>3, <2>2, SMT
  <2>4. Len(PkgLength(len)) = 4 /\ PkgLength(len)[1] = 192 + low
        /\ PkgLength(len)[2] = b2 /\ PkgLength(len)[3] = b3 /\ PkgLength(len)[4] = b4
    BY <2>1, SMT
  <2>5. (192 + low) \div 64 = 3 /\ (192 + low) % 16 = low
    BY <1>3, LeadByte, SMT
  <2> QED
    BY <1>7, <2>3, <2>4, <2>5, SMT DEF DecodePkgLength, FollowBytes
<1> QED
  BY <1>2, <1>4, <1>5, <1>6, <1>7, SMT

-----------------------------------------------------------------------------
(* aml_node_size *)

(* Induction over the natural numbers, for a set instead of a predicate.   *)
LEMMA SetInduction ==
    ASSUME NEW S, 0 \in S, \A n \in Nat : n \in S => n + 1 \in S
    PROVE  Nat \subseteq S
<1> DEFINE R == {ss \in Nat \X Nat : ss[1] < ss[2]}
           A == Nat \ S
<1>1. IsWellFoundedOn(R, Nat)
  BY NatLessThanWellFounded, Zenon DEF OpToRel
<1>2. SUFFICES ASSUME A # {} PROVE FALSE
  OBVIOUS
<1>3. \E m \in A : \A n \in A : <<n, m>> \notin R
  BY <1>1, <1>2, WFMin
<1>4. PICK m \in A : \A n \in A : <<n, m>> \notin R
  BY <1>3
<1>5. m \in Nat /\ m # 0 /\ m \notin S
  BY <1>4
<1>6. m - 1 \in Nat /\ m - 1 < m /\ (m - 1) + 1 = m
  BY <1>5, SMT
<1>7. m - 1 \in A
  BY <1>5, <1>6
<1>8. <<m - 1, m>> \in R
  BY <1>5, <1>6
<1> QED
  BY <1>4, <1>7, <1>8

(* PrefixSums satisfies its recursive definition.                          *)
LEMMA PrefixSumsDef ==
    ASSUME NEW s, NEW n \in Nat, Len(s) = n, \A i \in 1 .. n : s[i] \in Nat
    PROVE  /\ PrefixSums(s) \in [0 .. n -> Nat]
           /\ PrefixSums(s)[0] = 0
           /\ \A k \in 1 .. n : PrefixSums(s)[k] = PrefixSums(s)[k - 1] + s[k]
           /\ \A j, k \in 0 .. n : j <= k => PrefixSums(s)[j] <= PrefixSums(s)[k]
<1> DEFINE Sums(f, m) == /\ f \in [0 .. n -> Nat]
                         /\ f[0] = 0
                         /\ \A k \in 1 .. n : k <= m => f[k] = f[k - 1] + s[k]
           S == {m \in Nat : m <= n => \E f : Sums(f, m)}
<1>1. 0 \in S
  <2>1. Sums([k \in 0 .. n |-> 0], 0)
    BY SMT
  <2> QED
    BY <2>1
<1>2. ASSUME NEW m \in Nat, m \in S PROVE m + 1 \in S
  <2>0. m + 1 \in Nat /\ (m + 1 <= n => m <= n)
    BY SMT
  <2> SUFFICES ASSUME m + 1 <= n PROVE \E f : Sums(f, m + 1)
    BY <2>0, Zenon
  <2>1. PICK f : Sums(f, m)
    BY <1>2, <2>0, Zenon
  <2> DEFINE g == [f EXCEPT ![m + 1] = f[m] + s[m + 1]]
  <2>2. m + 1 \in 1 .. n /\ m \in 0 .. n /\ f[m] \in Nat /\ s[m + 1] \in Nat
    BY <2>1, SMT
  <2>3. g \in [0 .. n -> Nat] /\ g[0] = 0
    BY <2>1, <2>2, SMT
  <2>4. ASSUME NEW k \in 1 .. n, k <= m + 1 PROVE g[k] = g[k - 1] + s[k]
    <3>1. CASE k = m + 1
      <4>1. g[m + 1] = f[m] + s[m + 1] /\ g[m] = f[m]
        BY <2>1, <2>2, SMT
      <4> QED
        BY <3>1, <4>1, SMT
    <3>2. CASE k <= m
      <4>1. g[k] = f[k] /\ g[k - 1] = f[k - 1]
        BY <2>1, <2>2, <3>2, SMT
      <4>2. f[k] = f[k - 1] + s[k]
        BY <2>1, <3>2
      <4> QED
        BY <4>1, <4>2
    <3> QED
      BY <2>4, <3>1, <3>2, SMT
  <2>5. Sums(g, m + 1)
    BY <2>3, <2>4
  <2> QED
    BY <2>5
<1> HIDE DEF S
<1>3. Nat \subseteq S
  BY <1>1, <1>2, SetInduction
<1>4. n \in S
  BY <1>3
<1>5. PICK f : Sums(f, n)
  BY <1>4 DEF S
<1>6. f = [k \in 0 .. Len(s) |-> IF k = 0 THEN 0 ELSE f[k - 1] + s[k]]
  <2>1. \A k \in 0 .. n : f[k] = IF k = 0 THEN 0 ELSE f[k - 1] + s[k]
    BY <1>5, SMT
  <2> QED
    BY <1>5, <2>1, Zenon
<1> DEFINE P == PrefixSums(s)
<1>7. P = [k \in 0 .. n |-> IF k = 0 THEN 0 ELSE P[k - 1] + s[k]]
  BY <1>6, Zenon DEF PrefixSums
<1> HIDE DEF P
<1>8. P[0] = 0 /\ \A k \in 1 .. n : P[k] = P[k - 1] + s[k]
  BY <1>7, SMT
<1> DEFINE T == {m \in Nat : m <= n =>
                    \A j \in 0 .. m : P[j] \in Nat /\ P[j] <= P[m]}
<1>9. 0 \in T
  BY <1>8, SMT
<1>10. ASSUME NEW m \in Nat, m \in T PROVE m + 1 \in T
  <2> SUFFICES ASSUME m + 1 <= n, NEW j \in 0 .. m + 1
               PROVE  P[j] \in Nat /\ P[j] <= P[m + 1]
    BY SMT
  <2>1. (\A i \in 0 .. m : P[i] \in Nat /\ P[i] <= P[m]) /\ m + 1 \in 1 .. n
    BY <1>10, SMT
  <2>2. P[m + 1] = P[m] + s[m + 1] /\ s[m + 1] \in Nat
    BY <1>8, <2>1, SMT
  <2>3. P[m + 1] \in Nat /\ P[m] <= P[m + 1]
    BY <2>1, <2>2, SMT
  <2> QED
    BY <2>1, <2>3, SMT
<1> HIDE DEF T
<1>11. Nat \subseteq T
  BY <1>9, <1>10, SetInduction
<1>12. \A m \in 0 .. n : \A j \in 0 .. m : P[j] \in Nat /\ P[j] <= P[m]
  BY <1>11, SMT DEF T
<1>13. P \in [0 .. n -> Nat]
  <2>1. \A m \in 0 .. n : P[m] \in Nat
    BY <1>12, SMT
  <2> QED
    BY <1>7, <2>1, Zenon
<1>14. \A j, k \in 0 .. n : j <= k => P[j] <= P[k]
  BY <1>12, SMT
<1> QED
  BY <1>8, <1>13, <1>14 DEF P

(* What IsTree says about one node.                                        *)
LEMMA TreeNode ==
    ASSUME NEW t, IsTree(t), NEW n \in 1 .. Len(t)
    PROVE  /\ Len(t) \in Nat
           /\ t[n] \in Node
           /\ t[n].op = "ROOT" => n = 1
           /\ Len(t[n].children) \in Nat
           /\ \A i \in 1 .. Len(t[n].children) :
                 t[n].children[i] \in {0} \cup (n + 1 .. Len(t))
<1>1. t \in Seq(Node) /\ DOMAIN t = 1 .. Len(t) /\ Len(t) \in Nat
  BY SMT DEF IsTree
<1>2. t[n] \in Node /\ (t[n].op = "ROOT" => n = 1)
  BY <1>1, SMT DEF IsTree
<1>3. t[n].children \in Seq(Nat)
  BY <1>2 DEF Node
<1>4. DOMAIN t[n].children = 1 .. Len(t[n].children) /\ Len(t[n].children) \in Nat
  BY <1>3, SMT
<1> QED
  BY <1>1, <1>2, <1>4, Zenon DEF IsTree, NULL

(* The sums over the children of a node, from the sizes of the children.   *)
LEMMA ChildrenSizeDef ==
    ASSUME NEW t, IsTree(t), NEW n \in 1 .. Len(t), NEW f,
           \A m \in {0} \cup (n + 1 .. Len(t)) : f[m] \in Nat
    PROVE  LET P == ChildrenSize(t[n], f)
               N == Len(t[n].children)
           IN  /\ P \in [0 .. N -> Nat]
               /\ P[0] = 0
               /\ \A k \in 1 .. N : P[k] = P[k - 1] + f[t[n].children[k]]
               /\ \A j, k \in 0 .. N : j <= k => P[j] <= P[k]
<1> DEFINE N == Len(t[n].children)
           s == [i \in 1 .. N |-> f[t[n].children[i]]]
<1>1. N \in Nat /\ \A i \in 1 .. N : t[n].children[i] \in {0} \cup (n + 1 .. Len(t))
  BY TreeNode
<1>2. \A i \in 1 .. N : s[i] = f[t[n].children[i]] /\ s[i] \in Nat
  BY <1>1
<1> HIDE DEF N
<1>3. Len(s) = N
  BY <1>1, <1>2, SMT
<1>4. ChildrenSize(t[n], f) = PrefixSums(s)
  BY DEF ChildrenSize, N
<1> HIDE DEF s
<1> QED
  BY <1>1, <1>2, <1>3, <1>4, PrefixSumsDef DEF N

(* They depend on the sizes of the children only.                          *)
LEMMA ChildrenSizeSame ==
    ASSUME NEW t, IsTree(t), NEW n \in 1 .. Len(t), NEW f, NEW g,
           \A m \in {0} \cup (n + 1 .. Len(t)) : f[m] = g[m]
    PROVE  ChildrenSize(t[n], f) = ChildrenSize(t[n], g)
<1>1. \A i \in 1 .. Len(t[n].children) : f[t[n].children[i]] = g[t[n].children[i]]
  BY TreeNode, Zenon
<1>2. [i \in 1 .. Len(t[n].children) |-> f[t[n].children[i]]]
      = [i \in 1 .. Len(t[n].children) |-> g[t[n].children[i]]]
  BY <1>1, Zenon
<1> QED
  BY <1>2, Zenon DEF ChildrenSize

LEMMA SizeWithType ==
    ASSUME NEW node \in Node, NEW body \in Nat
    PROVE  SizeWith(node, body) \in Nat
<1>1. node.size \in Nat
  BY DEF Node
<1>2. PkgLengthSize(body) \in Nat
  BY SMT DEF PkgLengthSize
<1>3. body + 1 \in Nat /\ body + PkgLengthSize(body) + 1 \in Nat
  BY <1>2, SMT
<1> QED
  BY <1>1, <1>3, SMT DEF SizeWith

(* aml_node_size terminates on every tree with the size its code computes: *)
(* the children of a node are behind it.                                   *)
LEMMA SizeExists ==
    ASSUME NEW t, IsTree(t)
    PROVE  \E f \in [0 .. Len(t) -> Nat] :
              /\ f[0] = 0
              /\ \A n \in 1 .. Len(t) :
                    f[n] = SizeWith(t[n], ChildrenSize(t[n], f)[Len(t[n].children)])
<1> DEFINE N == Len(t)
           Of(f, n) == SizeWith(t[n], ChildrenSize(t[n], f)[Len(t[n].children)])
           Sizes(f, m) == /\ f \in [0 .. N -> Nat]
                          /\ f[0] = 0
                          /\ \A n \in 1 .. N : n + m > N => f[n] = Of(f, n)
           S == {m \in Nat : m <= N => \E f : Sizes(f, m)}
<1>1. N \in Nat
  BY SMT DEF IsTree
<1> HIDE DEF N, Of
<1>2. 0 \in S
  <2>1. Sizes([k \in 0 .. N |-> 0], 0)
    BY <1>1, SMT
  <2> QED
    BY <2>1
<1>3. ASSUME NEW m \in Nat, m \in S PROVE m + 1 \in S
  <2>1. m + 1 \in Nat /\ (m + 1 <= N => m <= N)
    BY <1>1, SMT
  <2> SUFFICES ASSUME m + 1 <= N PROVE \E f : Sizes(f, m + 1)
    BY <2>1, Zenon
  <2>2. PICK f : Sizes(f, m)
    BY <1>3, <2>1, Zenon
  <2> DEFINE x == N - m
             g == [f EXCEPT ![x] = Of(f, x)]
  <2>3. x \in 1 .. N /\ x # 0
    BY <1>1, SMT
  <2>4. Of(f, x) \in Nat
    <3>1. \A k \in {0} \cup (x + 1 .. Len(t)) : f[k] \in Nat
      BY <1>1, <2>2, <2>3, SMT DEF N
    <3>2. /\ ChildrenSize(t[x], f) \in [0 .. Len(t[x].children) -> Nat]
          /\ Len(t[x].children) \in Nat /\ t[x] \in Node
      BY <2>3, <3>1, ChildrenSizeDef, TreeNode DEF N
    <3>3. ChildrenSize(t[x], f)[Len(t[x].children)] \in Nat
      BY <3>2, SMT
    <3> QED
      BY <3>2, <3>3, SizeWithType DEF Of
  <2> HIDE DEF x
  <2>5. /\ g \in [0 .. N -> Nat] /\ g[0] = 0 /\ g[x] = Of(f, x)
        /\ \A k \in 0 .. N : k # x => g[k] = f[k]
    BY <2>2, <2>3, <2>4, SMT
  <2> HIDE DEF g
  <2>6. ASSUME NEW n \in 1 .. N, n + (m + 1) > N PROVE g[n] = Of(g, n)
    <3>1. \A k \in {0} \cup (n + 1 .. Len(t)) : f[k] = g[k]
      BY <1>1, <2>3, <2>5, <2>6, SMT DEF N, x
    <3>2. Of(f, n) = Of(g, n)
      <4>1. ChildrenSize(t[n], f) = ChildrenSize(t[n], g)
        <5>1. n \in 1 .. Len(t)
          BY DEF N
        <5> HIDE DEF Sizes, S
        <5> QED
          BY <3>1, <5>1, ChildrenSizeSame
      <4> QED
        BY <4>1, Zenon DEF Of
    <3>3. CASE n = x
      BY <2>5, <3>2, <3>3
    <3>4. CASE n # x
      <4>1. n + m > N /\ n \in 0 .. N
        BY <1>1, <2>6, <3>4, SMT DEF x
      <4> QED
        BY <2>2, <2>5, <3>2, <3>4, <4>1
    <3> QED
      BY <3>3, <3>4
  <2>7. Sizes(g, m + 1)
    BY <2>5, <2>6
  <2> QED
    BY <2>7
<1> HIDE DEF S
<1>4. Nat \subseteq S
  BY <1>2, <1>3, SetInduction
<1>5. N \in S
  BY <1>1, <1>4
<1>6. PICK f : Sizes(f, N)
  BY <1>1, <1>5 DEF S
<1>7. \A n \in 1 .. N : f[n] = Of(f, n)
  BY <1>1, <1>6, SMT
<1> QED
  BY <1>6, <1>7 DEF Of, N

LEMMA SizeDef ==
    ASSUME NEW t, IsTree(t)
    PROVE  /\ aml_node_size(t) \in [0 .. Len(t) -> Nat]
           /\ aml_node_size(t)[0] = 0
           /\ \A n \in 1 .. Len(t) : aml_node_size(t)[n] =
                 SizeWith(t[n], ChildrenSize(t[n], aml_node_size(t))[Len(t[n].children)])
<1> DEFINE N == Len(t)
           Of(f, n) == SizeWith(t[n], ChildrenSize(t[n], f)[Len(t[n].children)])
           size == aml_node_size(t)
<1>1. N \in Nat
  BY SMT DEF IsTree
<1>2. PICK f \in [0 .. N -> Nat] : f[0] = 0 /\ \A n \in 1 .. N : f[n] = Of(f, n)
  BY SizeExists, Zenon
<1>3. f = [n \in 0 .. Len(t) |->
              IF n = NULL THEN 0
              ELSE SizeWith(t[n], ChildrenSize(t[n], f)[Len(t[n].children)])]
  <2>1. \A n \in 0 .. N : n # 0 => n \in 1 .. N
    BY <1>1, SMT
  <2>2. \A n \in 0 .. N : f[n] = IF n = NULL THEN 0 ELSE Of(f, n)
    BY <1>2, <2>1, Zenon DEF NULL
  <2> QED
    BY <2>2, Zenon
<1>4. size = [n \in 0 .. N |-> IF n = NULL THEN 0 ELSE Of(size, n)]
  BY <1>3, Zenon DEF aml_node_size
<1> HIDE DEF size, Of
<1>5. size[0] = 0 /\ \A n \in 1 .. N : size[n] = Of(size, n)
  <2>1. 0 \in 0 .. N /\ \A n \in 1 .. N : n \in 0 .. N /\ n # 0
    BY <1>1, SMT
  <2> QED
    BY <1>4, <2>1, Zenon DEF NULL
<1> HIDE DEF N
<1> DEFINE S == {m \in Nat : \A n \in 1 .. N : n + m > N => size[n] \in Nat}
<1>6. 0 \in S
  BY <1>1, SMT
<1>7. ASSUME NEW m \in Nat, m \in S PROVE m + 1 \in S
  <2> SUFFICES ASSUME NEW x \in 1 .. N, x + (m + 1) > N PROVE size[x] \in Nat
    BY SMT
  <2>1. \A k \in {0} \cup (x + 1 .. Len(t)) : size[k] \in Nat
    BY <1>1, <1>5, <1>7, SMT DEF N
  <2>2. /\ ChildrenSize(t[x], size) \in [0 .. Len(t[x].children) -> Nat]
        /\ Len(t[x].children) \in Nat /\ t[x] \in Node
    BY <2>1, ChildrenSizeDef, TreeNode DEF N
  <2>3. ChildrenSize(t[x], size)[Len(t[x].children)] \in Nat
    BY <2>2, SMT
  <2> QED
    BY <1>5, <2>2, <2>3, SizeWithType DEF Of
<1> HIDE DEF S
<1>8. Nat \subseteq S
  BY <1>6, <1>7, SetInduction
<1>9. N \in S
  BY <1>1, <1>8
<1>10. \A n \in 0 .. N : size[n] \in Nat
  BY <1>1, <1>5, <1>9, SMT DEF S
<1>11. size \in [0 .. N -> Nat]
  BY <1>4, <1>10, Zenon
<1> QED
  BY <1>5, <1>11 DEF size, Of, N

-----------------------------------------------------------------------------
(* The writes of the serialiser *)

(* Sizes in a tree t: of the first k children of node n, of the bytes in   *)
(* front of them, and of the node.                                         *)
Sum(t, n, k) == ChildrenSize(t[n], aml_node_size(t))[k]

HeadBytes(t, n) ==
    IF t[n].op = "ROOT" THEN 0
    ELSE IF Container(t[n]) THEN 1 + PkgLengthSize(Sum(t, n, Len(t[n].children)))
    ELSE 1

Size(t, n) == aml_node_size(t)[n]

(* Where the node of a call begins and ends in the buffer.                 *)
Begin(t, c) ==
    IF c.head THEN c.pos - HeadBytes(t, c.node) - Sum(t, c.node, c.done) ELSE c.pos

End(t, c) == Begin(t, c) + Size(t, c.node)

Calls == [node : Nat, pos : Nat, done : Nat, head : BOOLEAN]

Kinds == {"data", "pkg", "ScopeOp", "IfOp", "ExternalOp", "ZeroOp"}

Chunks == [at : Nat, len : Nat, what : Kinds, depth : Nat, bytes : Seq(Nat)]

TypeOK ==
    /\ tree \in Trees
    /\ buffer_size \in {-1, Size(tree, 1)}
    /\ stack \in Seq(Calls)
    /\ chunks \in Seq(Chunks)
    /\ buffer_size = -1 => stack = <<>> /\ chunks = <<>>

(* A call that has written the head of its node is somewhere in the list   *)
(* of its children.                                                        *)
CallOK(t, c) ==
    /\ c.node \in 0 .. Len(t)
    /\ Begin(t, c) \in Nat
    /\ ~ c.head => c.done = 0
    /\ c.head => /\ c.node # NULL /\ t[c.node].op # "DATA"
                 /\ c.done \in 0 .. Len(t[c.node].children)

(* A call and the one it makes: for its next child, at its own position.   *)
Calling(t, c, d) ==
    /\ c.head
    /\ c.done < Len(t[c.node].children)
    /\ d.node = t[c.node].children[c.done + 1]
    /\ Begin(t, d) = c.pos

(* The stack is a path of the tree from its root, and the places of its    *)
(* nodes in the buffer lie in each other.                                  *)
StackOK(t, s) ==
    /\ \A i \in 1 .. Len(s) : CallOK(t, s[i])
    /\ \A i \in 1 .. Len(s) - 1 : Calling(t, s[i], s[i + 1])
    /\ \A i, j \in 1 .. Len(s) : i <= j => End(t, s[j]) <= End(t, s[i])
    /\ s # <<>> => s[1].node = 1 /\ Begin(t, s[1]) = 0

(* The bytes written so far, and chunks that follow each other.            *)
Bytes(ch) == IF ch = <<>> THEN 0 ELSE ch[Len(ch)].at + ch[Len(ch)].len

Tiled(ch) ==
    /\ \A i \in 1 .. Len(ch) : ch[i].at = IF i = 1 THEN 0 ELSE ch[i - 1].at + ch[i - 1].len
    /\ \A i \in 1 .. Len(ch) : ch[i].depth >= 1 /\ ch[i].at + ch[i].len <= Bytes(ch)

(* The end of a package according to its PkgLength.                        *)
PkgEnd(chunk) == chunk.at + DecodePkgLength(chunk.bytes)

(* The package of chunk i is being written by the call at its depth.       *)
Open(t, s, ch, i) ==
    /\ ch[i].depth <= Len(s)
    /\ s[ch[i].depth].head
    /\ End(t, s[ch[i].depth]) = PkgEnd(ch[i])
    /\ \A j \in i + 1 .. Len(ch) : ch[j].depth > ch[i].depth

(* The chunks of a complete package: those below it lie before its end,    *)
(* the others behind it.                                                   *)
Apart(ch, i) ==
    \A j \in i + 1 .. Len(ch) :
        IF \A k \in i + 1 .. j : ch[k].depth > ch[i].depth
        THEN ch[j].at + ch[j].len <= PkgEnd(ch[i])
        ELSE ch[j].at >= PkgEnd(ch[i])

(* The chunk written next is not below chunk i.                            *)
Left(s, ch, i) ==
    \/ \E k \in i + 1 .. Len(ch) : ch[k].depth <= ch[i].depth
    \/ Len(s) < ch[i].depth
    \/ Len(s) = ch[i].depth /\ ch[i].depth > 1 /\ ~ s[Len(s)].head

Closed(s, ch, i) ==
    PkgEnd(ch[i]) \in 0 .. Bytes(ch) /\ Apart(ch, i) /\ Left(s, ch, i)

Nested(t, s, ch) ==
    \A i \in 1 .. Len(ch) :
        ch[i].what = "pkg" => Open(t, s, ch, i) \/ Closed(s, ch, i)

AmlInv ==
    /\ TypeOK
    /\ StackOK(tree, stack)
    /\ Tiled(chunks)
    /\ stack # <<>> => Bytes(chunks) = Top.pos
    /\ Finished => Bytes(chunks) = buffer_size
    /\ Nested(tree, stack, chunks)

(* The sizes of the nodes of a tree.                                       *)
LEMMA TreeSize ==
    ASSUME NEW t, IsTree(t)
    PROVE  /\ Len(t) \in Nat /\ Len(t) >= 1
           /\ \A n \in 0 .. Len(t) : Size(t, n) \in Nat
           /\ Size(t, 0) = 0
<1>1. Len(t) \in Nat /\ Len(t) >= 1
  BY SMT DEF IsTree
<1> QED
  BY <1>1, SizeDef DEF Size

LEMMA NodeSize ==
    ASSUME NEW t, IsTree(t), NEW n \in 1 .. Len(t)
    PROVE  /\ Size(t, n) \in Nat
           /\ Len(t[n].children) \in Nat
           /\ Sum(t, n, 0) = 0
           /\ \A k \in 0 .. Len(t[n].children) :
                 Sum(t, n, k) \in Nat /\ Sum(t, n, k) <= Sum(t, n, Len(t[n].children))
           /\ \A k \in 0 .. Len(t[n].children) : k < Len(t[n].children) =>
                 /\ t[n].children[k + 1] \in {0} \cup (n + 1 .. Len(t))
                 /\ Size(t, t[n].children[k + 1]) \in Nat
                 /\ Sum(t, n, k + 1) = Sum(t, n, k) + Size(t, t[n].children[k + 1])
           /\ t[n].op = "DATA" => Size(t, n) = t[n].size
           /\ t[n].op # "DATA" =>
                 Size(t, n) = HeadBytes(t, n) + Sum(t, n, Len(t[n].children))
           /\ HeadBytes(t, n) \in Nat
<1> DEFINE N == Len(t[n].children)
           P == ChildrenSize(t[n], aml_node_size(t))
<1>1. /\ Len(t) \in Nat /\ \A m \in 0 .. Len(t) : Size(t, m) \in Nat
      /\ \A m : Size(t, m) = aml_node_size(t)[m]
  BY TreeSize DEF Size
<1>2. N \in Nat /\ t[n] \in Node
      /\ \A i \in 1 .. N : t[n].children[i] \in {0} \cup (n + 1 .. Len(t))
  BY TreeNode
<1>3. \A m \in {0} \cup (n + 1 .. Len(t)) : Size(t, m) \in Nat
  BY <1>1, SMT
<1>4. /\ P \in [0 .. N -> Nat] /\ P[0] = 0
      /\ \A k \in 1 .. N : P[k] = P[k - 1] + Size(t, t[n].children[k])
      /\ \A j, k \in 0 .. N : j <= k => P[j] <= P[k]
  <2>1. \A m \in {0} \cup (n + 1 .. Len(t)) : aml_node_size(t)[m] \in Nat
    BY <1>1, <1>3
  <2> HIDE DEF P, N
  <2>2. /\ P \in [0 .. N -> Nat] /\ P[0] = 0
        /\ \A k \in 1 .. N : P[k] = P[k - 1] + aml_node_size(t)[t[n].children[k]]
        /\ \A j, k \in 0 .. N : j <= k => P[j] <= P[k]
    BY <2>1, ChildrenSizeDef DEF P, N
  <2> QED
    BY <1>1, <2>2
<1>5. Size(t, n) = SizeWith(t[n], P[N])
  BY <1>1, SizeDef DEF Size
<1>6. \A k : Sum(t, n, k) = P[k]
  BY DEF Sum
<1> HIDE DEF N, P
<1>7. \A k \in 0 .. N : P[k] \in Nat /\ P[k] <= P[N]
  BY <1>2, <1>4, SMT
<1>8. ASSUME NEW k \in 0 .. N, k < N
      PROVE  /\ t[n].children[k + 1] \in {0} \cup (n + 1 .. Len(t))
             /\ Size(t, t[n].children[k + 1]) \in Nat
             /\ P[k + 1] = P[k] + Size(t, t[n].children[k + 1])
  <2>1. k + 1 \in 1 .. N /\ (k + 1) - 1 = k
    BY <1>2, <1>8, SMT
  <2> QED
    BY <1>2, <1>3, <1>4, <2>1
<1>9. /\ HeadBytes(t, n) = IF t[n].op = "ROOT" THEN 0
                         ELSE IF Container(t[n]) THEN 1 + PkgLengthSize(P[N]) ELSE 1
      /\ PkgLengthSize(P[N]) \in Nat
  BY <1>6, SMT DEF HeadBytes, PkgLengthSize, N
<1>10. P[N] \in Nat
  BY <1>2, <1>7, SMT
<1>11. t[n].op = "DATA" => Size(t, n) = t[n].size
  BY <1>5, SMT DEF SizeWith, Container
<1>12. t[n].op # "DATA" => Size(t, n) = HeadBytes(t, n) + P[N]
  BY <1>5, <1>9, <1>10, SMT DEF SizeWith, Container
<1>13. Size(t, n) \in Nat
  BY <1>1, SMT
<1>14. HeadBytes(t, n) \in Nat
  BY <1>9, SMT
<1> QED
  BY <1>2, <1>4, <1>6, <1>7, <1>8, <1>11, <1>12, <1>13, <1>14, Zenon DEF N

(* A call that is not finished ends behind its position.                   *)
LEMMA CallEnd ==
    ASSUME NEW t, IsTree(t), NEW c \in Calls, CallOK(t, c)
    PROVE  /\ Size(t, c.node) \in Nat
           /\ End(t, c) \in Nat /\ c.pos <= End(t, c) /\ Begin(t, c) <= c.pos
           /\ ~ c.head => Begin(t, c) = c.pos
           /\ c.head => /\ c.node \in 1 .. Len(t)
                        /\ c.pos = Begin(t, c) + HeadBytes(t, c.node) + Sum(t, c.node, c.done)
           /\ (c.head /\ c.done = Len(t[c.node].children)) => c.pos = End(t, c)
<1>1. /\ c.pos \in Nat /\ c.head \in BOOLEAN /\ c.node \in 0 .. Len(t) /\ Begin(t, c) \in Nat
      /\ Len(t) \in Nat /\ \A n \in 0 .. Len(t) : Size(t, n) \in Nat
  BY TreeSize DEF Calls, CallOK
<1>2. Size(t, c.node) \in Nat
  BY <1>1
<1>3. End(t, c) = Begin(t, c) + Size(t, c.node)
  BY DEF End
<1>4. CASE ~ c.head
  <2>1. Begin(t, c) = c.pos
    BY <1>4 DEF Begin
  <2> QED
    BY <1>1, <1>2, <1>3, <1>4, <2>1, SMT
<1>5. CASE c.head
  <2>1. c.node \in 1 .. Len(t) /\ t[c.node].op # "DATA"
        /\ c.done \in 0 .. Len(t[c.node].children)
    BY <1>1, <1>5, SMT DEF CallOK, NULL
  <2>2. Begin(t, c) = c.pos - HeadBytes(t, c.node) - Sum(t, c.node, c.done)
    BY <1>5 DEF Begin
  <2> DEFINE h == HeadBytes(t, c.node)
             s == Sum(t, c.node, c.done)
             a == Sum(t, c.node, Len(t[c.node].children))
  <2>3. h \in Nat /\ s \in Nat /\ s <= a /\ Size(t, c.node) = h + a /\ a \in Nat
    <3>1. Len(t[c.node].children) \in 0 .. Len(t[c.node].children)
      BY <2>1, NodeSize, SMT
    <3> QED
      BY <2>1, <3>1, NodeSize
  <2>4. c.done = Len(t[c.node].children) => s = a
    OBVIOUS
  <2> HIDE DEF h, s, a
  <2>5. c.pos = Begin(t, c) + h + s
    BY <1>1, <2>2, <2>3, SMT DEF h, s
  <2> QED
    BY <1>1, <1>2, <1>3, <1>5, <2>1, <2>3, <2>4, <2>5, SMT DEF h, s
<1> QED
  BY <1>1, <1>4, <1>5, Zenon

(* The innermost call of a part of the stack has moved on in its node.     *)
LEMMA TopMoves ==
    ASSUME NEW t, IsTree(t), NEW s \in Seq(Calls), NEW r \in Seq(Calls), StackOK(t, s),
           NEW k \in 1 .. Len(s), Len(r) = k,
           \A i \in 1 .. k - 1 : r[i] = s[i],
           r[k].node = s[k].node, Begin(t, r[k]) = Begin(t, s[k]), CallOK(t, r[k])
    PROVE  /\ StackOK(t, r)
           /\ \A i \in 1 .. k : End(t, r[i]) = End(t, s[i])
<1>1. Len(s) \in Nat /\ k \in Nat /\ k <= Len(s)
  BY SMT
<1>2. \A i \in 1 .. k : i < k \/ i = k
  BY SMT
<1>3. \A i \in 1 .. k : i < k => i \in 1 .. k - 1 /\ i \in 1 .. Len(s) - 1
  BY <1>1, SMT
<1>4. \A i \in 1 .. k : i \in 1 .. Len(s)
  BY <1>1, SMT
<1>5. \A i \in 1 .. k : r[i].node = s[i].node /\ Begin(t, r[i]) = Begin(t, s[i])
  BY <1>2, <1>3, Zenon
<1>6. \A i \in 1 .. k : End(t, r[i]) = End(t, s[i])
  BY <1>5 DEF End
<1>7. \A i \in 1 .. k : CallOK(t, r[i])
  BY <1>2, <1>3, <1>4, Zenon DEF StackOK
<1>8. ASSUME NEW i \in 1 .. k - 1 PROVE Calling(t, r[i], r[i + 1])
  <2>1. i \in 1 .. Len(s) - 1 /\ i + 1 \in 1 .. k
    BY <1>1, SMT
  <2>2. Calling(t, s[i], s[i + 1]) /\ r[i] = s[i]
    BY <2>1 DEF StackOK
  <2> QED
    BY <1>5, <2>1, <2>2 DEF Calling
<1>9. \A i, j \in 1 .. k : i <= j => End(t, r[j]) <= End(t, r[i])
  BY <1>4, <1>6 DEF StackOK
<1>10. r[1].node = 1 /\ Begin(t, r[1]) = 0
  <2>1. 1 \in 1 .. k /\ s # <<>>
    BY <1>1, SMT
  <2> QED
    BY <1>5, <2>1 DEF StackOK
<1> QED
  BY <1>6, <1>7, <1>8, <1>9, <1>10 DEF StackOK

(* The stack without its innermost element, the next one replaced.         *)
LEMMA PopSeq ==
    ASSUME NEW S, NEW s \in Seq(S), Len(s) > 1, NEW e \in S
    PROVE  LET r == Append(SubSeq(s, 1, Len(s) - 2), e) IN
           /\ r \in Seq(S) /\ Len(r) = Len(s) - 1 /\ r[Len(s) - 1] = e
           /\ \A i \in 1 .. Len(s) - 2 : r[i] = s[i]
<1> DEFINE L == Len(s) - 2
           p == SubSeq(s, 1, L)
           r == Append(p, e)
<1>1. L \in Nat /\ L + 1 = Len(s) - 1 /\ \A i \in 1 .. L : i \in 1 .. Len(s)
  BY SMT
<1>2. \A i \in 1 .. L : s[i] \in S
  BY <1>1, SMT
<1> HIDE DEF L
<1>3. p \in Seq(S) /\ Len(p) = L /\ \A i \in 1 .. L : p[i] = s[i]
  BY <1>1, <1>2, SMT
<1> HIDE DEF p
<1>4. r \in Seq(S) /\ Len(r) = L + 1 /\ r[L + 1] = e /\ \A i \in 1 .. L : r[i] = p[i]
  BY <1>1, <1>3, SMT
<1> QED
  BY <1>1, <1>3, <1>4 DEF L, p

(* The caller of a call that returns advances by the size of the child.    *)
Advanced(t, c, d) == [c EXCEPT !.pos = @ + aml_node_size(t)[d.node], !.done = @ + 1]

LEMMA CallerMoves ==
    ASSUME NEW t, IsTree(t), NEW c \in Calls, NEW d \in Calls,
           CallOK(t, c), CallOK(t, d), Calling(t, c, d)
    PROVE  /\ Advanced(t, c, d) \in Calls
           /\ CallOK(t, Advanced(t, c, d))
           /\ Advanced(t, c, d).node = c.node
           /\ Advanced(t, c, d).head = TRUE /\ c.head = TRUE
           /\ Advanced(t, c, d).pos = End(t, d)
           /\ Begin(t, Advanced(t, c, d)) = Begin(t, c)
<1>1. PICK e : e = Advanced(t, c, d)
  OBVIOUS
<1> DEFINE n == c.node
           k == c.done
           N == Len(t[n].children)
           z == Size(t, d.node)
<1>2. c.head /\ k < N /\ Begin(t, d) = c.pos /\ d.node = t[n].children[k + 1]
  BY DEF Calling
<1>3. /\ n \in 1 .. Len(t) /\ t[n].op # "DATA" /\ k \in 0 .. N
      /\ c.pos = Begin(t, c) + HeadBytes(t, n) + Sum(t, n, k)
      /\ c.pos \in Nat /\ k \in Nat /\ Begin(t, c) \in Nat /\ n # NULL /\ z \in Nat
      /\ n \in Nat /\ c.head \in BOOLEAN /\ n \in 0 .. Len(t)
  BY <1>2, CallEnd DEF CallOK, Calls
<1>4. /\ Sum(t, n, k + 1) = Sum(t, n, k) + z
      /\ Sum(t, n, k) \in Nat /\ HeadBytes(t, n) \in Nat /\ N \in Nat
  <2> HIDE DEF n, k, N
  <2>1. Sum(t, n, k + 1) = Sum(t, n, k) + Size(t, t[n].children[k + 1])
        /\ Sum(t, n, k) \in Nat /\ HeadBytes(t, n) \in Nat /\ N \in Nat
    BY <1>2, <1>3, NodeSize DEF N
  <2> QED
    BY <1>2, <2>1
<1>5. e = [c EXCEPT !.pos = c.pos + z, !.done = k + 1]
  BY <1>1 DEF Size, Advanced
<1> HIDE DEF z
<1>6. c.pos + z \in Nat /\ k + 1 \in Nat
  BY <1>3, SMT
<1>7. e \in Calls /\ e.node = n /\ e.pos = c.pos + z /\ e.done = k + 1 /\ e.head = c.head
  BY <1>5, <1>6 DEF Calls
<1> HIDE DEF n, k, N
<1>8. Begin(t, e) = Begin(t, c)
  <2>1. Begin(t, e) = (c.pos + z) - HeadBytes(t, n) - Sum(t, n, k + 1)
    BY <1>2, <1>7 DEF Begin
  <2> QED
    BY <1>3, <1>4, <2>1, SMT
<1>9. k + 1 \in 0 .. N
  BY <1>2, <1>3, <1>4, SMT
<1>10. CallOK(t, e)
  BY <1>2, <1>3, <1>7, <1>8, <1>9 DEF CallOK, N
<1>11. e.pos = End(t, d)
  BY <1>2, <1>7 DEF End, z
<1> QED
  BY <1>1, <1>2, <1>3, <1>7, <1>8, <1>10, <1>11, Zenon DEF n

(* A call returns: its caller stands behind it.                            *)
Popped(t, s) == Append(SubSeq(s, 1, Len(s) - 2), Advanced(t, s[Len(s) - 1], s[Len(s)]))

LEMMA PopCall ==
    ASSUME NEW t, IsTree(t), NEW s \in Seq(Calls), StackOK(t, s), Len(s) > 1
    PROVE  LET r == Popped(t, s) IN
           /\ r \in Seq(Calls) /\ Len(r) = Len(s) - 1
           /\ StackOK(t, r)
           /\ \A i \in 1 .. Len(r) : End(t, r[i]) = End(t, s[i]) /\ r[i].head = s[i].head
           /\ r[Len(r)].pos = End(t, s[Len(s)]) /\ r[Len(r)].head
<1> DEFINE r == Popped(t, s)
<1>1. PICK L : L = Len(s)
  OBVIOUS
<1>2. L \in Nat /\ L > 1 /\ L - 1 \in 1 .. L /\ L \in 1 .. L /\ L - 1 \in 1 .. L - 1
      /\ L - 2 \in Nat /\ (L - 1) + 1 = L /\ (L - 1) - 1 = L - 2
  BY <1>1, SMT
<1>3. PICK c : c = s[L - 1]
  OBVIOUS
<1>4. PICK d : d = s[L]
  OBVIOUS
<1>5. c \in Calls /\ d \in Calls /\ CallOK(t, c) /\ CallOK(t, d) /\ Calling(t, c, d)
  BY <1>1, <1>2, <1>3, <1>4 DEF StackOK
<1>6. PICK e : e = Advanced(t, c, d)
  OBVIOUS
<1>7. /\ e \in Calls /\ CallOK(t, e) /\ e.head
      /\ e.node = c.node /\ Begin(t, e) = Begin(t, c) /\ e.head = c.head
      /\ e.pos = End(t, d)
  <2>1. /\ Advanced(t, c, d) \in Calls
        /\ CallOK(t, Advanced(t, c, d))
        /\ Advanced(t, c, d).node = c.node
        /\ Advanced(t, c, d).head = TRUE /\ c.head = TRUE
        /\ Advanced(t, c, d).pos = End(t, d)
        /\ Begin(t, Advanced(t, c, d)) = Begin(t, c)
    BY <1>5, CallerMoves
  <2> QED
    BY <1>6, <2>1, Zenon
<1>8. r = Append(SubSeq(s, 1, Len(s) - 2), e)
  BY <1>1, <1>3, <1>4, <1>6, Zenon DEF Popped
<1> HIDE DEF r
<1>9. /\ r \in Seq(Calls) /\ Len(r) = L - 1 /\ r[L - 1] = e
      /\ \A i \in 1 .. L - 2 : r[i] = s[i]
  BY <1>1, <1>2, <1>7, <1>8, PopSeq
<1>10. StackOK(t, r) /\ \A i \in 1 .. L - 1 : End(t, r[i]) = End(t, s[i])
  <2>1. /\ L - 1 \in 1 .. Len(s) /\ \A i \in 1 .. (L - 1) - 1 : r[i] = s[i]
        /\ r[L - 1].node = s[L - 1].node /\ Begin(t, r[L - 1]) = Begin(t, s[L - 1])
        /\ CallOK(t, r[L - 1])
    BY <1>1, <1>2, <1>3, <1>7, <1>9, Zenon
  <2> QED
    BY <1>9, <2>1, TopMoves, Zenon
<1>11. \A i \in 1 .. L - 1 : r[i].head = s[i].head
  <2>1. \A i \in 1 .. L - 1 : i = L - 1 \/ i \in 1 .. L - 2
    BY <1>2, SMT
  <2> QED
    BY <1>3, <1>7, <1>9, <2>1, Zenon
<1> QED
  BY <1>1, <1>4, <1>7, <1>9, <1>10, <1>11, Zenon DEF r

(* A call for the next child.                                              *)
Pushed(t, s) ==
    Append(s, Call(t[s[Len(s)].node].children[s[Len(s)].done + 1], s[Len(s)].pos))

LEMMA PushCall ==
    ASSUME NEW t, IsTree(t), NEW s \in Seq(Calls), StackOK(t, s), s # <<>>,
           s[Len(s)].head, s[Len(s)].done < Len(t[s[Len(s)].node].children)
    PROVE  LET r == Pushed(t, s) IN
           /\ r \in Seq(Calls) /\ Len(r) = Len(s) + 1
           /\ StackOK(t, r)
           /\ \A i \in 1 .. Len(s) : r[i] = s[i]
           /\ r[Len(r)].head = FALSE /\ r[Len(r)].pos = s[Len(s)].pos
<1> DEFINE r == Pushed(t, s)
<1> HIDE DEF r
<1>1. PICK c : c = s[Len(s)]
  OBVIOUS
<1>2. c.head /\ c.done < Len(t[c.node].children)
  BY <1>1, Zenon
<1>3. PICK L : L = Len(s)
  OBVIOUS
<1>4. L \in Nat /\ L >= 1 /\ L \in 1 .. L /\ L + 1 \in Nat /\ 1 \in 1 .. L
  BY <1>3, SMT
<1>5. c \in Calls /\ CallOK(t, c)
  BY <1>1, <1>3, <1>4 DEF StackOK
<1>6. PICK m : m = t[c.node].children[c.done + 1]
  OBVIOUS
<1>7. PICK d : d = Call(m, c.pos)
  OBVIOUS
<1>8. /\ c.node \in 1 .. Len(t) /\ t[c.node].op # "DATA" /\ c.pos \in Nat
      /\ c.done \in 0 .. Len(t[c.node].children) /\ c.done \in Nat
      /\ Begin(t, c) \in Nat
      /\ c.pos = Begin(t, c) + HeadBytes(t, c.node) + Sum(t, c.node, c.done)
  BY <1>5, <1>2, CallEnd DEF CallOK, Calls
<1>9. PICK N : N = Len(t[c.node].children)
  OBVIOUS
<1>10. /\ N \in Nat /\ c.done < N /\ c.done \in 0 .. N
      /\ m \in {0} \cup (c.node + 1 .. Len(t)) /\ Size(t, m) \in Nat
      /\ Sum(t, c.node, c.done + 1) = Sum(t, c.node, c.done) + Size(t, m)
      /\ \A k \in 0 .. N : Sum(t, c.node, k) \in Nat /\ Sum(t, c.node, k) <= Sum(t, c.node, N)
      /\ Size(t, c.node) = HeadBytes(t, c.node) + Sum(t, c.node, N)
      /\ HeadBytes(t, c.node) \in Nat
  <2>1. PICK n : n = c.node
    OBVIOUS
  <2>2. PICK k : k = c.done
    OBVIOUS
  <2>3. n \in 1 .. Len(t) /\ t[n].op # "DATA" /\ k \in 0 .. Len(t[n].children)
        /\ k < Len(t[n].children)
    BY <1>8, <1>2, <2>1, <2>2, Zenon
  <2>4. /\ Len(t[n].children) \in Nat
        /\ t[n].children[k + 1] \in {0} \cup (n + 1 .. Len(t))
        /\ Size(t, t[n].children[k + 1]) \in Nat
        /\ Sum(t, n, k + 1) = Sum(t, n, k) + Size(t, t[n].children[k + 1])
    BY <2>3, NodeSize
  <2>5. /\ \A i \in 0 .. Len(t[n].children) :
              Sum(t, n, i) \in Nat /\ Sum(t, n, i) <= Sum(t, n, Len(t[n].children))
        /\ Size(t, n) = HeadBytes(t, n) + Sum(t, n, Len(t[n].children))
        /\ HeadBytes(t, n) \in Nat
    BY <2>3, NodeSize
  <2> QED
    BY <1>6, <1>9, <2>1, <2>2, <2>3, <2>4, <2>5, Zenon
<1>11. Len(t) \in Nat /\ m \in 0 .. Len(t) /\ m \in Nat
  <2>1. Len(t) \in Nat
    BY TreeSize
  <2>2. \A n \in 1 .. Len(t) : {0} \cup (n + 1 .. Len(t)) \subseteq 0 .. Len(t)
    BY <2>1, SMT
  <2>3. m \in 0 .. Len(t)
    BY <1>8, <1>10, <2>2, Zenon
  <2> QED
    BY <2>1, <2>3, SMT
<1>12. d \in Calls /\ d.node = m /\ d.pos = c.pos /\ d.done = 0 /\ d.head = FALSE
  BY <1>7, <1>8, <1>11 DEF Call, Calls
<1>13. Begin(t, d) = c.pos
  BY <1>12 DEF Begin
<1>14. CallOK(t, d)
  BY <1>8, <1>11, <1>12, <1>13 DEF CallOK
<1>15. End(t, d) <= End(t, c)
  <2>1. End(t, d) = c.pos + Size(t, m) /\ End(t, c) = Begin(t, c) + Size(t, c.node)
    BY <1>12, <1>13 DEF End
  <2>2. c.done + 1 \in 0 .. N /\ N \in 0 .. N
    <3>1. \A k \in 0 .. N : k < N => k + 1 \in 0 .. N /\ N \in 0 .. N
      BY <1>10, SMT
    <3> QED
      BY <1>10, <3>1, Zenon
  <2>3. Sum(t, c.node, c.done + 1) \in Nat /\ Sum(t, c.node, c.done + 1) <= Sum(t, c.node, N)
        /\ Sum(t, c.node, N) \in Nat /\ Sum(t, c.node, c.done) \in Nat
    BY <1>10, <2>2, Zenon
  <2> QED
    BY <1>8, <1>10, <2>1, <2>3, SMT
<1>16. r = Append(s, d)
  BY <1>1, <1>6, <1>7, Zenon DEF Pushed, r
<1>17. /\ r \in Seq(Calls) /\ Len(r) = L + 1 /\ r[L + 1] = d
       /\ \A i \in 1 .. L : r[i] = s[i]
  BY <1>3, <1>12, <1>16, SMT
<1>18. \A i \in 1 .. L + 1 : i \in 1 .. L \/ i = L + 1
  BY <1>4, SMT
<1>19. \A i \in 1 .. L + 1 : CallOK(t, r[i])
  BY <1>3, <1>14, <1>17, <1>18, Zenon DEF StackOK
<1>20. ASSUME NEW i \in 1 .. (L + 1) - 1 PROVE Calling(t, r[i], r[i + 1])
  <2>1. i = L \/ (i \in 1 .. L - 1 /\ i + 1 \in 1 .. L /\ i \in 1 .. L)
    BY <1>4, SMT
  <2>2. CASE i = L
    <3>1. r[i] = c /\ r[i + 1] = d
      BY <1>1, <1>3, <1>4, <1>17, <2>2, Zenon
    <3> QED
      BY <1>6, <1>12, <1>13, <1>2, <3>1 DEF Calling
  <2>3. CASE i \in 1 .. L - 1 /\ i + 1 \in 1 .. L /\ i \in 1 .. L
    BY <1>3, <1>17, <2>3, Zenon DEF StackOK
  <2> QED
    BY <2>1, <2>2, <2>3
<1>21. ASSUME NEW i \in 1 .. L + 1, NEW j \in 1 .. L + 1, i <= j
       PROVE  End(t, r[j]) <= End(t, r[i])
  <2>1. \A k \in 1 .. L : End(t, s[k]) \in Nat /\ k <= L
    <3>1. \A k \in 1 .. L : s[k] \in Calls /\ CallOK(t, s[k])
      BY <1>3 DEF StackOK
    <3> QED
      BY <1>4, <3>1, CallEnd, SMT
  <2>2. End(t, d) \in Nat /\ End(t, c) \in Nat
    BY <1>5, <1>12, <1>14, CallEnd
  <2>3. CASE i \in 1 .. L /\ j \in 1 .. L
    BY <1>3, <1>17, <1>21, <2>3, Zenon DEF StackOK
  <2>4. CASE i \in 1 .. L /\ j = L + 1
    <3>1. i <= L /\ L \in 1 .. L
      BY <1>4, <2>4, SMT
    <3>2. End(t, c) <= End(t, s[i])
      BY <1>1, <1>3, <2>4, <3>1, Zenon DEF StackOK
    <3>3. r[j] = d /\ r[i] = s[i] /\ End(t, s[i]) \in Nat
      BY <1>17, <2>1, <2>4, Zenon
    <3> QED
      BY <1>15, <2>2, <3>2, <3>3, SMT
  <2>5. CASE i = L + 1
    <3>1. j = i
      BY <1>4, <1>21, <2>5, SMT
    <3> QED
      BY <1>17, <2>2, <2>5, <3>1, SMT
  <2> QED
    BY <1>18, <2>3, <2>4, <2>5
<1>22. r[1].node = 1 /\ Begin(t, r[1]) = 0
  BY <1>4, <1>17, Zenon DEF StackOK
<1>23. StackOK(t, r)
  BY <1>17, <1>19, <1>20, <1>21, <1>22, Zenon DEF StackOK
<1> QED
  BY <1>1, <1>3, <1>12, <1>17, <1>23, Zenon DEF r

LEMMA SetSeq ==
    ASSUME NEW S, NEW s \in Seq(S), NEW k \in 1 .. Len(s), NEW e \in S
    PROVE  /\ [s EXCEPT ![k] = e] \in Seq(S) /\ Len([s EXCEPT ![k] = e]) = Len(s)
           /\ [s EXCEPT ![k] = e][k] = e
           /\ \A i \in 1 .. k - 1 : [s EXCEPT ![k] = e][i] = s[i]
  BY SMT

HeadWritten(c, b) == [c EXCEPT !.head = TRUE, !.pos = @ + b]

(* A call writes the head of its node.                                     *)
HeadDone(t, s) ==
    [s EXCEPT ![Len(s)] = HeadWritten(s[Len(s)], HeadBytes(t, s[Len(s)].node))]

LEMMA HeadCall ==
    ASSUME NEW t, IsTree(t), NEW s \in Seq(Calls), StackOK(t, s), s # <<>>,
           s[Len(s)].node # NULL, t[s[Len(s)].node].op # "DATA", ~ s[Len(s)].head
    PROVE  LET r == HeadDone(t, s) IN
           /\ r \in Seq(Calls) /\ Len(r) = Len(s)
           /\ StackOK(t, r)
           /\ End(t, r[Len(s)]) = End(t, s[Len(s)])
           /\ r[Len(s)].head = TRUE
           /\ r[Len(s)].pos = s[Len(s)].pos + HeadBytes(t, s[Len(s)].node)
<1> DEFINE r == HeadDone(t, s)
<1> HIDE DEF r
<1>1. PICK c : c = s[Len(s)]
  OBVIOUS
<1>2. PICK b : b = HeadBytes(t, c.node)
  OBVIOUS
<1>3. c.node # NULL /\ t[c.node].op # "DATA" /\ ~ c.head
  BY <1>1, Zenon
<1>4. PICK L : L = Len(s)
  OBVIOUS
<1>5. L \in Nat /\ L >= 1 /\ L \in 1 .. L
  BY <1>4, SMT
<1>6. c \in Calls /\ CallOK(t, c)
  BY <1>1, <1>4, <1>5 DEF StackOK
<1>7. c.node \in 1 .. Len(t) /\ c.pos \in Nat /\ c.done = 0 /\ Begin(t, c) = c.pos
      /\ c.node \in 0 .. Len(t) /\ c.node \in Nat
  <2>1. c.node \in 0 .. Len(t) /\ c.pos \in Nat /\ c.done = 0 /\ c.node \in Nat
    BY <1>6, <1>3 DEF CallOK, Calls
  <2> QED
    BY <1>3, <2>1, TreeSize, SMT DEF NULL, Begin
<1>8. b \in Nat /\ Sum(t, c.node, 0) = 0 /\ Len(t[c.node].children) \in Nat
  BY <1>7, <1>2, NodeSize
<1>9. PICK e : e = HeadWritten(c, b)
  OBVIOUS
<1>10. c.pos + b \in Nat
  BY <1>7, <1>8, SMT
<1>11. e \in Calls /\ e.node = c.node /\ e.pos = c.pos + b /\ e.done = 0 /\ e.head = TRUE
  BY <1>6, <1>7, <1>9, <1>10 DEF Calls, HeadWritten
<1>12. Begin(t, e) = Begin(t, c)
  <2>1. Begin(t, e) = (c.pos + b) - b - 0
    BY <1>8, <1>11, <1>2 DEF Begin
  <2> QED
    BY <1>7, <1>8, <2>1, SMT
<1>13. 0 \in 0 .. Len(t[c.node].children)
  BY <1>8, SMT
<1>14. CallOK(t, e)
  BY <1>7, <1>11, <1>12, <1>13, <1>3 DEF CallOK
<1>15. r = [s EXCEPT ![L] = e]
  BY <1>1, <1>4, <1>9, <1>2, Zenon DEF r, HeadDone
<1>16. /\ r \in Seq(Calls) /\ Len(r) = L /\ r[L] = e
       /\ \A i \in 1 .. L - 1 : r[i] = s[i]
  BY <1>4, <1>5, <1>11, <1>15, SetSeq
<1>17. /\ L \in 1 .. Len(s) /\ r[L].node = s[L].node /\ CallOK(t, r[L])
       /\ Begin(t, r[L]) = Begin(t, s[L])
  BY <1>1, <1>4, <1>5, <1>11, <1>12, <1>14, <1>16, Zenon
<1>18. StackOK(t, r)
  BY <1>16, <1>17, TopMoves
<1>19. End(t, r[L]) = End(t, s[L])
  BY <1>17 DEF End
<1> QED
  BY <1>1, <1>4, <1>11, <1>16, <1>18, <1>19, <1>2, Zenon DEF r

(* A chunk written where the last one ended.                               *)
LEMMA AddChunk ==
    ASSUME NEW ch \in Seq(Chunks), Tiled(ch), NEW x \in Chunks,
           x.at = Bytes(ch), x.depth >= 1
    PROVE  LET ch2 == Append(ch, x) IN
           /\ ch2 \in Seq(Chunks) /\ Len(ch2) = Len(ch) + 1 /\ Len(ch) \in Nat
           /\ ch2[Len(ch) + 1] = x /\ \A i \in 1 .. Len(ch) : ch2[i] = ch[i]
           /\ Bytes(ch) \in Nat /\ Bytes(ch2) = x.at + x.len
           /\ Tiled(ch2)
<1> DEFINE ch2 == Append(ch, x)
<1>1. PICK n : n = Len(ch)
  OBVIOUS
<1>2. /\ n \in Nat /\ ch2 \in Seq(Chunks) /\ Len(ch2) = n + 1 /\ ch2[n + 1] = x /\ ch2 # <<>>
      /\ \A i \in 1 .. n : ch2[i] = ch[i] /\ ch[i] \in Chunks
  BY <1>1, SMT
<1> HIDE DEF ch2
<1>3. x.at \in Nat /\ x.len \in Nat /\ \A i \in 1 .. n : ch[i].at \in Nat /\ ch[i].len \in Nat
  BY <1>2 DEF Chunks
<1>4. Bytes(ch2) = x.at + x.len
  BY <1>2 DEF Bytes
<1>5. \A i \in 1 .. n + 1 : i = n + 1 \/ i \in 1 .. n
  BY <1>2, SMT
<1>6. ASSUME NEW i \in 1 .. n + 1
      PROVE  ch2[i].at = IF i = 1 THEN 0 ELSE ch2[i - 1].at + ch2[i - 1].len
  <2>1. CASE i \in 1 .. n
    <3>1. ch[i].at = IF i = 1 THEN 0 ELSE ch[i - 1].at + ch[i - 1].len
      BY <1>1, <2>1 DEF Tiled
    <3>2. ch2[i] = ch[i] /\ (i # 1 => ch2[i - 1] = ch[i - 1])
      BY <1>2, <2>1, SMT
    <3> QED
      BY <3>1, <3>2
  <2>2. CASE i = n + 1 /\ n = 0
    <3>1. ch = <<>>
      BY <1>1, <2>2, EmptySeq
    <3> QED
      BY <1>2, <2>2, <3>1, SMT DEF Bytes
  <2>3. CASE i = n + 1 /\ n # 0
    <3>1. ch # <<>> /\ i # 1 /\ i - 1 = n /\ n \in 1 .. n
      BY <1>1, <1>2, <2>3, SMT
    <3>2. Bytes(ch) = ch[n].at + ch[n].len
      BY <1>1, <3>1 DEF Bytes
    <3> QED
      BY <1>2, <2>3, <3>1, <3>2
  <2> QED
    BY <1>5, <2>1, <2>2, <2>3
<1>7. ASSUME NEW i \in 1 .. n + 1
      PROVE  ch2[i].depth >= 1 /\ ch2[i].at + ch2[i].len <= Bytes(ch2)
  <2>1. CASE i \in 1 .. n
    <3>1. ch[i].depth >= 1 /\ ch[i].at + ch[i].len <= x.at /\ ch2[i] = ch[i]
      BY <1>1, <1>2, <2>1 DEF Tiled
    <3> QED
      BY <1>3, <1>4, <2>1, <3>1, SMT
  <2>2. CASE i = n + 1
    BY <1>2, <1>3, <1>4, <2>2, SMT
  <2> QED
    BY <1>5, <2>1, <2>2
<1> QED
  BY <1>1, <1>2, <1>3, <1>4, <1>6, <1>7 DEF Tiled, ch2

(* A chunk of the innermost call c, the head of whose node was not yet     *)
(* written, decides about all packages: it lies in those that are open and *)
(* separates those that are closed from what follows.                      *)
LEMMA AddNested ==
    ASSUME NEW t, NEW s, NEW r, NEW ch \in Seq(Chunks), Tiled(ch), Nested(t, s, ch),
           NEW L \in Nat, Len(s) = L, L >= 1, ~ s[L].head,
           Len(r) \in Nat, Len(r) >= L - 1,
           \A i \in 1 .. L - 1 : End(t, r[i]) = End(t, s[i]) /\ r[i].head = s[i].head,
           NEW x \in Chunks, x.at = Bytes(ch), x.depth = L,
           x.what = "pkg" => Len(r) >= L /\ r[L].head /\ End(t, r[L]) = PkgEnd(x),
           NEW ch2, ch2 = Append(ch, x)
    PROVE  Nested(t, r, ch2)
<1>1. PICK n : n = Len(ch)
  OBVIOUS
<1>2. /\ n \in Nat /\ Len(ch2) = n + 1 /\ ch2[n + 1] = x /\ ch2 \in Seq(Chunks)
      /\ \A i \in 1 .. n : ch2[i] = ch[i]
      /\ Bytes(ch) \in Nat /\ Bytes(ch2) = x.at + x.len
  <2>1. x.depth >= 1
    OBVIOUS
  <2> QED
    BY <1>1, <2>1, AddChunk
<1>3. /\ x.len \in Nat /\ x.at \in Nat
      /\ \A i \in 1 .. n : ch[i] \in Chunks /\ ch[i].depth \in Nat /\ ch[i].depth >= 1
  <2>1. \A i \in 1 .. n : ch[i] \in Chunks
    BY <1>1, ElementOfSeq
  <2>2. x.len \in Nat /\ x.at \in Nat /\ \A i \in 1 .. n : ch[i].depth \in Nat
    BY <2>1 DEF Chunks
  <2>3. \A i \in 1 .. n : ch[i].depth >= 1
    BY <1>1 DEF Tiled
  <2> QED
    BY <2>1, <2>2, <2>3
<1>4. SUFFICES ASSUME NEW i \in 1 .. n + 1, ch2[i].what = "pkg"
               PROVE  Open(t, r, ch2, i) \/ Closed(r, ch2, i)
  BY <1>2, Zenon DEF Nested
<1>5. i = n + 1 \/ i \in 1 .. n
  BY <1>2, SMT
<1>6. CASE i = n + 1
  <2>1. ch2[i] = x /\ \A j \in i + 1 .. Len(ch2) : FALSE
    BY <1>2, <1>6, SMT
  <2>2. Open(t, r, ch2, i)
    BY <1>4, <2>1 DEF Open
  <2> QED
    BY <2>2
<1>7. CASE i \in 1 .. n
  <2>1. PICK D : D = ch[i].depth
    OBVIOUS
  <2>2. ch2[i] = ch[i] /\ D \in Nat /\ D >= 1 /\ i \in Nat /\ i >= 1 /\ i <= n
    BY <1>2, <1>3, <1>7, <2>1, SMT
  <2>3. \A j \in i + 1 .. n : j \in 1 .. n /\ ch2[j] = ch[j]
    BY <1>2, <2>2, SMT
  <2>4. \A j \in i + 1 .. n + 1 : j = n + 1 \/ j \in i + 1 .. n
    BY <1>2, <2>2, SMT
  <2>5. Open(t, s, ch, i) \/ Closed(s, ch, i)
    BY <1>1, <1>4, <1>7, <2>2, Zenon DEF Nested
  <2>6. CASE Open(t, s, ch, i)
    <3>1. /\ D <= L /\ s[D].head /\ End(t, s[D]) = PkgEnd(ch[i])
          /\ \A j \in i + 1 .. n : ch[j].depth > D
      BY <1>1, <2>1, <2>6 DEF Open
    <3>2. D # L
      BY <3>1, Zenon
    <3>3. D \in 1 .. L - 1 /\ D <= Len(r) /\ L > D
      BY <2>2, <3>1, <3>2, SMT
    <3>4. r[D].head /\ End(t, r[D]) = PkgEnd(ch[i])
      BY <3>1, <3>3
    <3>5. \A j \in i + 1 .. n + 1 : ch2[j].depth > D
      BY <1>2, <2>3, <2>4, <3>1, <3>3, Zenon
    <3> QED
      BY <1>2, <2>1, <2>2, <3>3, <3>4, <3>5, Zenon DEF Open
  <2>7. CASE Closed(s, ch, i)
    <3>1. PkgEnd(ch[i]) \in 0 .. Bytes(ch) /\ Apart(ch, i) /\ Left(s, ch, i)
      BY <2>7 DEF Closed
    <3>2. \E k \in i + 1 .. n + 1 : ch2[k].depth <= D
      <4>1. CASE \E k \in i + 1 .. n : ch[k].depth <= D
        <5>1. \A k \in i + 1 .. n : k \in i + 1 .. n + 1
          BY <1>2, <2>2, SMT
        <5> QED
          BY <2>3, <4>1, <5>1, Zenon
      <4>2. CASE L <= D
        <5>1. n + 1 \in i + 1 .. n + 1 /\ ch2[n + 1].depth <= D
          BY <1>2, <2>2, <4>2, SMT
        <5> QED
          BY <5>1
      <4> QED
        <5>1. (\E k \in i + 1 .. n : ch[k].depth <= D) \/ L < D \/ L = D
          BY <1>1, <2>1, <3>1, Zenon DEF Left
        <5>2. L < D \/ L = D => L <= D
          BY <2>2, SMT
        <5> QED
          BY <4>1, <4>2, <5>1, <5>2
    <3>3. PkgEnd(ch2[i]) \in 0 .. Bytes(ch2) /\ x.at >= PkgEnd(ch2[i])
      BY <1>2, <1>3, <2>2, <3>1, SMT
    <3>4. ASSUME NEW j \in i + 1 .. n + 1
          PROVE  IF \A k \in i + 1 .. j : ch2[k].depth > ch2[i].depth
                 THEN ch2[j].at + ch2[j].len <= PkgEnd(ch2[i])
                 ELSE ch2[j].at >= PkgEnd(ch2[i])
      <4>1. CASE j = n + 1
        <5>1. PICK k \in i + 1 .. n + 1 : ch2[k].depth <= D
          BY <3>2
        <5>2. ch2[k].depth \in Nat
          <6>1. k \in 1 .. n + 1
            BY <1>2, <2>2, SMT
          <6>2. ch2[k] \in Chunks
            BY <1>2, <6>1, SMT
          <6> QED
            BY <6>2 DEF Chunks
        <5>3. ~ (ch2[k].depth > ch2[i].depth)
          <6>1. \A a, b \in Nat : a <= b => ~ (a > b)
            BY SMT
          <6>2. ch2[i].depth = D
            BY <2>1, <2>2, Zenon
          <6> QED
            BY <2>2, <5>1, <5>2, <6>1, <6>2, Zenon
        <5> QED
          BY <1>2, <3>3, <4>1, <5>3, Zenon
      <4>2. CASE j \in i + 1 .. n
        <5>1. \A k \in i + 1 .. j : k \in i + 1 .. n
          BY <1>2, <2>2, <4>2, SMT
        <5>2. \A k \in i + 1 .. j : ch2[k] = ch[k]
          BY <2>3, <5>1, Zenon
        <5>3. IF \A k \in i + 1 .. j : ch[k].depth > ch[i].depth
              THEN ch[j].at + ch[j].len <= PkgEnd(ch[i])
              ELSE ch[j].at >= PkgEnd(ch[i])
          BY <1>1, <3>1, <4>2, Zenon DEF Apart
        <5> QED
          BY <2>2, <2>3, <4>2, <5>2, <5>3, Zenon
      <4> QED
        BY <2>4, <4>1, <4>2
    <3>5. Apart(ch2, i)
      BY <1>2, <3>4, Zenon DEF Apart
    <3>6. Left(r, ch2, i)
      BY <1>2, <2>1, <2>2, <3>2, Zenon DEF Left
    <3> QED
      BY <3>3, <3>5, <3>6 DEF Closed
  <2> QED
    BY <2>5, <2>6, <2>7
<1> QED
  BY <1>5, <1>6, <1>7

(* The innermost call returns: its package, when it has one, is complete.  *)
LEMMA PopNested ==
    ASSUME NEW t, NEW s, NEW r, NEW ch \in Seq(Chunks), Tiled(ch), Nested(t, s, ch),
           NEW L \in Nat, Len(s) = L, L >= 1, Len(r) = L - 1,
           \A i \in 1 .. L - 1 : End(t, r[i]) = End(t, s[i]) /\ r[i].head = s[i].head,
           End(t, s[L]) = Bytes(ch), Bytes(ch) \in Nat
    PROVE  Nested(t, r, ch)
<1>1. SUFFICES ASSUME NEW i \in 1 .. Len(ch), ch[i].what = "pkg"
               PROVE  Open(t, r, ch, i) \/ Closed(r, ch, i)
  BY DEF Nested
<1>2. PICK D : D = ch[i].depth
  OBVIOUS
<1>3. D \in Nat /\ D >= 1 /\ Len(ch) \in Nat
  <2>1. ch[i] \in Chunks /\ Len(ch) \in Nat
    BY ElementOfSeq, LenProperties
  <2> QED
    BY <1>2, <2>1 DEF Chunks, Tiled
<1>4. Open(t, s, ch, i) \/ Closed(s, ch, i)
  BY <1>1 DEF Nested
<1>5. CASE Open(t, s, ch, i)
  <2>1. /\ D <= L /\ s[D].head /\ End(t, s[D]) = PkgEnd(ch[i])
        /\ \A j \in i + 1 .. Len(ch) : ch[j].depth > D
    BY <1>2, <1>5 DEF Open
  <2>2. D = L \/ (D \in 1 .. L - 1 /\ D <= L - 1)
    BY <1>3, <2>1, SMT
  <2>3. CASE D \in 1 .. L - 1 /\ D <= L - 1
    BY <1>2, <2>1, <2>3, Zenon DEF Open
  <2>4. CASE D = L
    <3>1. PkgEnd(ch[i]) = Bytes(ch)
      BY <2>1, <2>4, Zenon
    <3>2. \A j \in i + 1 .. Len(ch) : ch[j].at + ch[j].len <= PkgEnd(ch[i])
      <4>1. \A j \in i + 1 .. Len(ch) : j \in 1 .. Len(ch)
        BY <1>3, SMT
      <4> QED
        BY <3>1, <4>1, Zenon DEF Tiled
    <3>3. \A j \in i + 1 .. Len(ch) : \A k \in i + 1 .. j : k \in i + 1 .. Len(ch)
      BY <1>3, SMT
    <3>4. Apart(ch, i)
      BY <1>2, <2>1, <3>2, <3>3, Zenon DEF Apart
    <3>5. Len(r) < D
      BY <2>4, SMT
    <3>6. Left(r, ch, i)
      BY <1>2, <3>5, Zenon DEF Left
    <3>7. PkgEnd(ch[i]) \in 0 .. Bytes(ch)
      BY <3>1, SMT
    <3> QED
      BY <3>4, <3>6, <3>7 DEF Closed
  <2> QED
    BY <2>2, <2>3, <2>4
<1>6. CASE Closed(s, ch, i)
  <2>1. PkgEnd(ch[i]) \in 0 .. Bytes(ch) /\ Apart(ch, i) /\ Left(s, ch, i)
    BY <1>6 DEF Closed
  <2>2. (\E k \in i + 1 .. Len(ch) : ch[k].depth <= D) \/ L < D \/ L = D
    BY <1>2, <2>1, Zenon DEF Left
  <2>3. L < D \/ L = D => Len(r) < D
    BY <1>3, SMT
  <2>4. Left(r, ch, i)
    BY <1>2, <2>2, <2>3, Zenon DEF Left
  <2> QED
    BY <2>1, <2>4 DEF Closed
<1> QED
  BY <1>4, <1>5, <1>6

(* A call for a child.                                                     *)
LEMMA PushNested ==
    ASSUME NEW t, NEW s, NEW r, NEW ch \in Seq(Chunks), Tiled(ch), Nested(t, s, ch),
           NEW L \in Nat, Len(s) = L, L >= 1, Len(r) = L + 1,
           \A i \in 1 .. L : r[i] = s[i], s[L].head, r[L + 1].head = FALSE
    PROVE  Nested(t, r, ch)
<1>1. SUFFICES ASSUME NEW i \in 1 .. Len(ch), ch[i].what = "pkg"
               PROVE  Open(t, r, ch, i) \/ Closed(r, ch, i)
  BY DEF Nested
<1>2. PICK D : D = ch[i].depth
  OBVIOUS
<1>3. D \in Nat /\ D >= 1
  <2>1. ch[i] \in Chunks
    BY ElementOfSeq
  <2> QED
    BY <1>2, <2>1 DEF Chunks, Tiled
<1>4. Open(t, s, ch, i) \/ Closed(s, ch, i)
  BY <1>1 DEF Nested
<1>5. CASE Open(t, s, ch, i)
  <2>1. /\ D <= L /\ s[D].head /\ End(t, s[D]) = PkgEnd(ch[i])
        /\ \A j \in i + 1 .. Len(ch) : ch[j].depth > D
    BY <1>2, <1>5 DEF Open
  <2>2. D \in 1 .. L /\ D <= L + 1
    BY <1>3, <2>1, SMT
  <2> QED
    BY <1>2, <2>1, <2>2, Zenon DEF Open
<1>6. CASE Closed(s, ch, i)
  <2>1. PkgEnd(ch[i]) \in 0 .. Bytes(ch) /\ Apart(ch, i) /\ Left(s, ch, i)
    BY <1>6 DEF Closed
  <2>2. (\E k \in i + 1 .. Len(ch) : ch[k].depth <= D) \/ L < D
    BY <1>2, <2>1, Zenon DEF Left
  <2>3. L < D => L + 1 < D \/ (L + 1 = D /\ D > 1)
    BY <1>3, SMT
  <2>4. Left(r, ch, i)
    BY <1>2, <2>2, <2>3, Zenon DEF Left
  <2> QED
    BY <2>1, <2>4 DEF Closed
<1> QED
  BY <1>4, <1>5, <1>6

(* The root begins its children without a chunk of its own.                *)
LEMMA RootNested ==
    ASSUME NEW t, NEW s, NEW r, NEW ch \in Seq(Chunks), Tiled(ch), Nested(t, s, ch),
           Len(s) = 1, ~ s[1].head, Len(r) = 1
    PROVE  Nested(t, r, ch)
<1>1. SUFFICES ASSUME NEW i \in 1 .. Len(ch), ch[i].what = "pkg"
               PROVE  Closed(r, ch, i)
  BY DEF Nested
<1>2. PICK D : D = ch[i].depth
  OBVIOUS
<1>3. D \in Nat /\ D >= 1
  <2>1. ch[i] \in Chunks
    BY ElementOfSeq
  <2> QED
    BY <1>2, <2>1 DEF Chunks, Tiled
<1>4. ~ Open(t, s, ch, i)
  <2>1. D <= 1 => D = 1
    BY <1>3, SMT
  <2> QED
    BY <1>2, <2>1, Zenon DEF Open
<1>5. PkgEnd(ch[i]) \in 0 .. Bytes(ch) /\ Apart(ch, i) /\ Left(s, ch, i)
  BY <1>1, <1>4 DEF Closed, Nested
<1>6. (\E k \in i + 1 .. Len(ch) : ch[k].depth <= D) \/ 1 < D
  <2>1. ~ (1 = D /\ D > 1)
    BY <1>3, SMT
  <2> QED
    BY <1>2, <1>5, <2>1, Zenon DEF Left
<1>7. Left(r, ch, i)
  BY <1>2, <1>6, Zenon DEF Left
<1> QED
  BY <1>5, <1>7 DEF Closed

(* The chunks of a node's head, and where they end.                        *)
LEMMA PkgLengthType ==
    ASSUME NEW len \in Nat
    PROVE  PkgLength(len) \in Seq(Nat)
<1>1. /\ len % 16 \in Nat /\ (len \div 16) % 256 \in Nat
      /\ (len \div 4096) % 256 \in Nat /\ (len \div 1048576) % 256 \in Nat
  BY SMT
<1>2. 64 + (len % 16) \in Nat /\ 128 + (len % 16) \in Nat /\ 192 + (len % 16) \in Nat
  BY <1>1, SMT
<1> QED
  BY <1>1, <1>2, SMT DEF PkgLength

LEMMA HeadOf ==
    ASSUME AmlInv, stack # <<>>, Top.node # NULL, TopNode.op # "DATA", ~ Top.head
    PROVE  /\ Top.node \in 1 .. Len(tree)
           /\ BytesOf(HeadChunks) = HeadBytes(tree, Top.node)
           /\ \/ HeadChunks = <<>> /\ HeadBytes(tree, Top.node) = 0 /\ Len(stack) = 1
              \/ \E x \in Chunks :
                    /\ HeadChunks = <<x>> /\ HeadBytes(tree, Top.node) = 1
                    /\ x.at = Top.pos /\ x.len = 1 /\ x.depth = Len(stack) /\ x.what # "pkg"
              \/ \E x, y \in Chunks :
                    /\ HeadChunks = <<x, y>>
                    /\ x.at = Top.pos /\ x.len = 1 /\ x.depth = Len(stack) /\ x.what # "pkg"
                    /\ y.at = Top.pos + 1 /\ y.depth = Len(stack)
                    /\ y.len + 1 = HeadBytes(tree, Top.node)
                    /\ PkgEnd(y) = Top.pos + Size(tree, Top.node)
<1>1. PICK n : n = Top.node
  OBVIOUS
<1>2. PICK p : p = Top.pos
  OBVIOUS
<1>3. PICK L : L = Len(stack)
  OBVIOUS
<1>4. /\ stack \in Seq(Calls) /\ IsTree(tree) /\ StackOK(tree, stack)
      /\ L \in Nat /\ L >= 1 /\ L \in 1 .. L /\ Top = stack[L]
  <2>1. stack \in Seq(Calls) /\ IsTree(tree) /\ StackOK(tree, stack)
    BY TreeAssumption DEF AmlInv, TypeOK
  <2>2. L \in Nat /\ L >= 1 /\ L \in 1 .. L
    BY <1>3, <2>1, EmptySeq, SMT
  <2> QED
    BY <1>3, <2>1, <2>2 DEF Top
<1>5. Top \in Calls /\ CallOK(tree, Top)
  BY <1>3, <1>4, ElementOfSeq DEF StackOK
<1>6. n \in 1 .. Len(tree) /\ p \in Nat
  <2>1. n \in 0 .. Len(tree) /\ p \in Nat /\ Len(tree) \in Nat
    BY <1>1, <1>2, <1>4, <1>5, TreeSize DEF CallOK, Calls
  <2> QED
    BY <1>1, <2>1, SMT DEF NULL
<1>7. PICK op : op = tree[n].op
  OBVIOUS
<1>8. op \notin {"DATA", "ROOT"} => op \in Kinds /\ op # "pkg"
  <2>1. tree[n] \in Node
    BY <1>4, <1>6, TreeNode
  <2>2. op \in {"DATA", "ROOT", "ScopeOp", "IfOp", "ExternalOp", "ZeroOp"}
    BY <1>7, <2>1 DEF Node
  <2> QED
    BY <2>2 DEF Kinds
<1>9. PICK x : x = Chunk(p, 1, op, <<>>)
  OBVIOUS
<1>10. /\ op \notin {"DATA", "ROOT"} => x \in Chunks
       /\ x.at = p /\ x.len = 1 /\ x.depth = L /\ x.what = op
  BY <1>3, <1>4, <1>6, <1>8, <1>9, EmptySeq DEF Chunk, Chunks
<1>11. PICK body : body = Sum(tree, n, Len(tree[n].children))
  OBVIOUS
<1>12. /\ body \in Nat /\ Size(tree, n) \in Nat
       /\ op # "DATA" /\ Size(tree, n) = HeadBytes(tree, n) + body
  <2>1. Len(tree[n].children) \in 0 .. Len(tree[n].children)
    BY <1>4, <1>6, NodeSize, SMT
  <2>2. op # "DATA"
    BY <1>1, <1>7 DEF TopNode
  <2> QED
    BY <1>4, <1>6, <1>7, <1>11, <2>1, <2>2, NodeSize
<1>13. HeadBytes(tree, n) = IF op = "ROOT" THEN 0
                            ELSE IF Container(tree[n]) THEN 1 + PkgLengthSize(body) ELSE 1
  BY <1>7, <1>11, Zenon DEF HeadBytes
<1>14. CASE op = "ROOT"
  <2>1. HeadChunks = <<>>
    BY <1>1, <1>7, <1>14 DEF HeadChunks, TopNode, Container
  <2>2. BytesOf(HeadChunks) = 0 /\ HeadBytes(tree, n) = 0
    BY <1>13, <1>14, <2>1 DEF BytesOf
  <2>3. n = 1
    BY <1>4, <1>6, <1>7, <1>14, TreeNode
  <2>4. L = 1
    <3> SUFFICES ASSUME L # 1 PROVE FALSE
      OBVIOUS
    <3>1. L - 1 \in 1 .. L - 1 /\ L - 1 \in 1 .. L /\ (L - 1) + 1 = L
      BY <1>4, SMT
    <3>2. PICK c : c = stack[L - 1]
      OBVIOUS
    <3>3. c \in Calls /\ CallOK(tree, c) /\ Calling(tree, c, Top)
      BY <1>3, <1>4, <3>1, <3>2, ElementOfSeq DEF StackOK
    <3>4. c.node \in 1 .. Len(tree) /\ c.done \in 0 .. Len(tree[c.node].children)
          /\ c.done < Len(tree[c.node].children)
          /\ n = tree[c.node].children[c.done + 1]
      BY <1>1, <1>4, <3>3, CallEnd DEF Calling, CallOK
    <3>5. n \in {0} \cup (c.node + 1 .. Len(tree))
      BY <1>4, <3>4, NodeSize
    <3> QED
      BY <1>4, <2>3, <3>4, <3>5, TreeSize, SMT
  <2> QED
    BY <1>1, <1>3, <1>6, <2>1, <2>2, <2>4, Zenon
<1>15. CASE op # "ROOT" /\ Container(tree[n])
  <2>1. PICK len : len = body + PkgLengthSize(body)
    OBVIOUS
  <2>2. PkgLengthSize(body) \in 1 .. 4 /\ (body >= 1048573 => PkgLengthSize(body) = 4)
    BY <1>12, SMT DEF PkgLengthSize
  <2>3. Size(tree, n) = len + 1 /\ len \in Nat /\ HeadBytes(tree, n) = 1 + PkgLengthSize(body)
    BY <1>12, <1>13, <1>15, <2>1, <2>2, SMT
  <2>4. Size(tree, n) < 268435456
    <3>1. End(tree, Top) <= End(tree, stack[1]) /\ stack[1].node = 1 /\ Begin(tree, stack[1]) = 0
      <4>1. 1 \in 1 .. L /\ 1 <= L
        BY <1>4, SMT
      <4> QED
        BY <1>3, <1>4, <4>1 DEF StackOK
    <3>2. End(tree, stack[1]) = Size(tree, 1) /\ End(tree, Top) = Begin(tree, Top) + Size(tree, n)
          /\ Begin(tree, Top) \in Nat /\ Size(tree, 1) \in Nat
      <4>1. Size(tree, 1) \in Nat
        BY <1>4, TreeSize, SMT
      <4> QED
        BY <1>1, <1>5, <3>1, <4>1, SMT DEF End, CallOK
    <3>3. Size(tree, 1) < 268435456
      BY TreeAssumption DEF AmlInv, TypeOK, Size
    <3> QED
      BY <1>12, <3>1, <3>2, <3>3, SMT
  <2>5. body < 268435452
    BY <1>12, <2>1, <2>2, <2>3, <2>4, SMT
  <2>6. Len(PkgLength(len)) = PkgLengthSize(body) /\ DecodePkgLength(PkgLength(len)) = len
    BY <1>12, <2>1, <2>5, PkgLengthAgrees
  <2>7. PkgLength(len) \in Seq(Nat)
    BY <2>3, PkgLengthType
  <2>8. PICK bytes : bytes = PkgLength(len)
    OBVIOUS
  <2>9. PICK y : y = Chunk(p + 1, Len(bytes), "pkg", bytes)
    OBVIOUS
  <2>10. y \in Chunks /\ y.at = p + 1 /\ y.len = PkgLengthSize(body) /\ y.depth = L
         /\ y.bytes = bytes
    <3>1. p + 1 \in Nat /\ PkgLengthSize(body) \in Nat
      BY <1>6, <2>2, SMT
    <3> QED
      BY <1>3, <1>4, <2>6, <2>7, <2>8, <2>9, <3>1 DEF Chunk, Chunks, Kinds
  <2>11. HeadChunks = <<x, y>>
    <3>1. aml_node_size(tree)[Top.node] - 1 = len
      BY <1>1, <2>3, SMT DEF Size
    <3>2. tree[n] = TopNode
      BY <1>1 DEF TopNode
    <3> QED
      BY <1>1, <1>2, <1>7, <1>9, <1>15, <2>8, <2>9, <3>1, <3>2, Zenon DEF HeadChunks
  <2>12. BytesOf(HeadChunks) = HeadBytes(tree, n)
    <3>1. BytesOf(<<x, y>>) = y.at + y.len - x.at
      BY SMT DEF BytesOf
    <3> QED
      BY <1>6, <1>10, <2>2, <2>3, <2>10, <2>11, <3>1, SMT
  <2>13. PkgEnd(y) = p + Size(tree, n)
    <3>1. PkgEnd(y) = (p + 1) + len
      BY <2>6, <2>8, <2>10 DEF PkgEnd
    <3> QED
      BY <1>6, <2>3, <3>1, SMT
  <2>14. y.len + 1 = HeadBytes(tree, n)
    BY <2>2, <2>3, <2>10, SMT
  <2> QED
    BY <1>1, <1>2, <1>3, <1>6, <1>8, <1>10, <1>12, <1>15, <2>10, <2>11, <2>12, <2>13, <2>14, Zenon
<1>16. CASE op # "ROOT" /\ ~ Container(tree[n])
  <2>1. HeadChunks = <<x>>
    <3>1. tree[n] = TopNode
      BY <1>1 DEF TopNode
    <3> QED
      BY <1>1, <1>2, <1>7, <1>9, <1>16, <3>1 DEF HeadChunks
  <2>2. HeadBytes(tree, n) = 1
    BY <1>13, <1>16
  <2>3. BytesOf(HeadChunks) = 1
    <3>1. BytesOf(<<x>>) = x.at + x.len - x.at
      BY SMT DEF BytesOf
    <3> QED
      BY <1>6, <1>10, <2>1, <3>1, SMT
  <2> QED
    BY <1>1, <1>2, <1>3, <1>6, <1>8, <1>10, <1>12, <1>16, <2>1, <2>2, <2>3, Zenon
<1> QED
  BY <1>14, <1>15, <1>16

(* What holds whenever a call is active.                                   *)
LEMMA Active ==
    ASSUME AmlInv, stack # <<>>
    PROVE  /\ IsTree(tree) /\ tree \in Trees /\ stack \in Seq(Calls) /\ chunks \in Seq(Chunks)
           /\ StackOK(tree, stack) /\ Tiled(chunks) /\ Nested(tree, stack, chunks)
           /\ Len(stack) \in Nat /\ Len(stack) >= 1
           /\ Top \in Calls /\ CallOK(tree, Top) /\ Top = stack[Len(stack)]
           /\ buffer_size # -1 /\ buffer_size = Size(tree, 1) /\ Size(tree, 1) \in Nat
           /\ Bytes(chunks) = Top.pos /\ Top.pos \in Nat
<1>1. /\ IsTree(tree) /\ tree \in Trees /\ stack \in Seq(Calls) /\ chunks \in Seq(Chunks)
      /\ StackOK(tree, stack) /\ Tiled(chunks) /\ Nested(tree, stack, chunks)
      /\ buffer_size # -1 /\ buffer_size = Size(tree, 1) /\ Bytes(chunks) = Top.pos
  BY TreeAssumption DEF AmlInv, TypeOK
<1>2. Len(stack) \in Nat /\ Len(stack) >= 1 /\ Len(stack) \in 1 .. Len(stack)
  BY <1>1, EmptySeq, SMT
<1>3. Top \in Calls /\ CallOK(tree, Top)
  BY <1>1, <1>2, ElementOfSeq DEF StackOK, Top
<1>4. Top.pos \in Nat
  BY <1>3 DEF Calls
<1>5. Size(tree, 1) \in Nat
  BY <1>1, TreeSize, SMT
<1> QED
  BY <1>1, <1>2, <1>3, <1>4, <1>5 DEF Top

LEMMA Returns ==
    ASSUME AmlInv, stack # <<>>, Return
    PROVE  /\ stack' \in Seq(Calls) /\ Len(stack') = Len(stack) - 1 /\ StackOK(tree, stack')
           /\ \A i \in 1 .. Len(stack) - 1 :
                 End(tree, stack'[i]) = End(tree, stack[i]) /\ stack'[i].head = stack[i].head
           /\ stack' # <<>> => stack'[Len(stack')].pos = End(tree, Top)
           /\ stack' = <<>> => End(tree, Top) = Size(tree, 1)
<1>1. CASE Len(stack) = 1
  <2>1. stack' = <<>>
    BY <1>1 DEF Return
  <2>2. stack' \in Seq(Calls) /\ Len(stack') = 0
    BY <2>1, EmptySeq
  <2>3. StackOK(tree, stack')
    BY <2>1, <2>2, SMT DEF StackOK
  <2>4. End(tree, Top) = Size(tree, 1)
    <3>1. Top.node = 1 /\ Begin(tree, Top) = 0 /\ Size(tree, 1) \in Nat
      BY <1>1, Active DEF StackOK
    <3> QED
      BY <3>1, SMT DEF End
  <2> QED
    BY <1>1, <2>1, <2>2, <2>3, <2>4, SMT
<1>2. CASE Len(stack) # 1
  <2>1. Len(stack) > 1
    <3>1. Len(stack) \in Nat /\ Len(stack) >= 1
      BY Active
    <3>2. \A n \in Nat : n >= 1 /\ n # 1 => n > 1
      BY SMT
    <3> QED
      BY <1>2, <3>1, <3>2, Zenon
  <2>2. stack' = Popped(tree, stack)
    BY <1>2, Zenon DEF Return, Top, Popped, Advanced
  <2>3. PICK r : r = stack'
    OBVIOUS
  <2>4. /\ r \in Seq(Calls) /\ Len(r) = Len(stack) - 1
        /\ StackOK(tree, r)
        /\ \A i \in 1 .. Len(r) : End(tree, r[i]) = End(tree, stack[i]) /\ r[i].head = stack[i].head
        /\ r[Len(r)].pos = End(tree, stack[Len(stack)]) /\ r[Len(r)].head
    <3>1. IsTree(tree) /\ stack \in Seq(Calls) /\ StackOK(tree, stack)
      BY Active
    <3>2. r = Popped(tree, stack)
      BY <2>2, <2>3
    <3> QED
      BY <2>1, <3>1, <3>2, PopCall
  <2>5. stack' # <<>>
    BY <2>1, <2>3, <2>4, EmptySeq, SMT
  <2> QED
    BY <2>3, <2>4, <2>5, Zenon DEF Top
<1> QED
  BY <1>1, <1>2

(* A call that has nothing more to write returns.                          *)
LEMMA ReturnInv ==
    ASSUME AmlInv, stack # <<>>, Return, UNCHANGED <<tree, buffer_size>>,
           chunks' \in Seq(Chunks), Tiled(chunks'), Bytes(chunks') = End(tree, Top),
           Nested(tree, stack', chunks')
    PROVE  AmlInv'
<1>1. tree' = tree /\ buffer_size' = buffer_size
  OBVIOUS
<1>2. TypeOK'
  <2>1. buffer_size # -1 /\ buffer_size = Size(tree, 1) /\ tree \in Trees
    BY Active
  <2> QED
    BY <1>1, <2>1, Returns DEF TypeOK
<1>3. StackOK(tree, stack)'
  BY <1>1, Returns
<1>4. (stack # <<>> => Bytes(chunks) = Top.pos)'
  BY Returns DEF Top
<1>5. (Finished => Bytes(chunks) = buffer_size)'
  BY <1>1, Returns, Active DEF Finished
<1> QED
  BY <1>1, <1>2, <1>3, <1>4, <1>5 DEF AmlInv

(* No chunk is written, and the innermost call ends where the last did.    *)
LEMMA SilentReturn ==
    ASSUME AmlInv, stack # <<>>, Return, UNCHANGED <<tree, buffer_size, chunks>>,
           Top.pos = End(tree, Top)
    PROVE  AmlInv'
<1>1. Nested(tree, stack', chunks)
  <2>1. PICK r : r = stack'
    OBVIOUS
  <2>2. /\ chunks \in Seq(Chunks) /\ Tiled(chunks) /\ Nested(tree, stack, chunks)
        /\ Len(stack) \in Nat /\ Len(stack) >= 1
        /\ End(tree, stack[Len(stack)]) = Bytes(chunks) /\ Bytes(chunks) \in Nat
    BY Active, Zenon
  <2>3. /\ Len(r) = Len(stack) - 1
        /\ \A i \in 1 .. Len(stack) - 1 :
              End(tree, r[i]) = End(tree, stack[i]) /\ r[i].head = stack[i].head
    BY <2>1, Returns, Zenon
  <2>4. Nested(tree, r, chunks)
    BY <2>2, <2>3, PopNested
  <2> QED
    BY <2>1, <2>4
<1>2. /\ chunks' \in Seq(Chunks) /\ Tiled(chunks') /\ Bytes(chunks') = End(tree, Top)
      /\ Nested(tree, stack', chunks')
  BY <1>1, Active
<1> QED
  BY <1>2, ReturnInv

LEMMA NullNodeInv ==
    ASSUME AmlInv, NullNode
    PROVE  AmlInv'
<1>1. stack # <<>> /\ Top.node = 0 /\ Return /\ UNCHANGED <<tree, buffer_size, chunks>>
  BY DEF NullNode, NULL
<1>2. IsTree(tree) /\ Top \in Calls /\ CallOK(tree, Top) /\ Top.pos \in Nat
  BY <1>1, Active
<1>3. ~ Top.head
  BY <1>1, <1>2 DEF CallOK, NULL
<1>4. Begin(tree, Top) = Top.pos /\ Size(tree, Top.node) = 0
  BY <1>1, <1>2, <1>3, TreeSize DEF Begin
<1>5. Top.pos = End(tree, Top)
  BY <1>2, <1>4, SMT DEF End
<1> QED
  BY <1>1, <1>5, SilentReturn

LEMMA DataNodeInv ==
    ASSUME AmlInv, DataNode
    PROVE  AmlInv'
<1>1. /\ stack # <<>> /\ Top.node # 0 /\ TopNode.op = "DATA"
      /\ Return /\ tree' = tree /\ buffer_size' = buffer_size
  BY DEF DataNode, NULL
<1>2. /\ IsTree(tree) /\ Top \in Calls /\ CallOK(tree, Top) /\ Top.pos \in Nat
      /\ chunks \in Seq(Chunks) /\ Tiled(chunks) /\ Nested(tree, stack, chunks)
      /\ Bytes(chunks) = Top.pos /\ Len(stack) \in Nat /\ Len(stack) >= 1
      /\ Top = stack[Len(stack)]
  BY <1>1, Active
<1>3. ~ Top.head
  BY <1>1, <1>2 DEF CallOK, TopNode
<1>4. Top.node \in 1 .. Len(tree)
  BY <1>1, <1>2, TreeSize, SMT DEF CallOK
<1>5. Size(tree, Top.node) = TopNode.size /\ TopNode.size \in Nat
  BY <1>1, <1>2, <1>4, NodeSize DEF TopNode
<1>6. Begin(tree, Top) = Top.pos
  BY <1>3 DEF Begin
<1>7. PICK x : x = Chunk(Top.pos, TopNode.size, "data", <<>>)
  OBVIOUS
<1>8. x \in Chunks /\ x.at = Top.pos /\ x.len = TopNode.size /\ x.depth = Len(stack)
      /\ x.what = "data"
  BY <1>2, <1>5, <1>7, EmptySeq DEF Chunk, Chunks, Kinds
<1>9. chunks' = Append(chunks, x)
  BY <1>7 DEF DataNode
<1>10. chunks' \in Seq(Chunks) /\ Tiled(chunks') /\ Bytes(chunks') = x.at + x.len
  <2>1. x.at = Bytes(chunks) /\ x.depth >= 1
    BY <1>2, <1>8
  <2> QED
    BY <1>2, <1>8, <1>9, <2>1, AddChunk
<1>11. Bytes(chunks') = End(tree, Top)
  BY <1>5, <1>6, <1>8, <1>10 DEF End
<1>12. Nested(tree, stack', chunks')
  <2>1. PICK r : r = stack'
    OBVIOUS
  <2>2. PICK L : L = Len(stack)
    OBVIOUS
  <2>3. /\ Len(r) = L - 1 /\ Len(r) \in Nat /\ Len(r) >= L - 1
        /\ \A i \in 1 .. L - 1 :
              End(tree, r[i]) = End(tree, stack[i]) /\ r[i].head = stack[i].head
    <3>1. Len(r) = L - 1 /\ \A i \in 1 .. L - 1 :
              End(tree, r[i]) = End(tree, stack[i]) /\ r[i].head = stack[i].head
      BY <1>1, <2>1, <2>2, Returns, Zenon
    <3> QED
      BY <1>2, <2>2, <3>1, SMT
  <2>4. /\ L \in Nat /\ Len(stack) = L /\ L >= 1 /\ ~ stack[L].head
        /\ x.at = Bytes(chunks) /\ x.depth = L /\ x.what # "pkg"
    BY <1>2, <1>3, <1>8, <2>2
  <2>5. Nested(tree, r, Append(chunks, x))
    BY <1>2, <1>8, <2>3, <2>4, AddNested
  <2> QED
    BY <1>9, <2>1, <2>5
<1> QED
  BY <1>1, <1>10, <1>11, <1>12, ReturnInv

LEMMA NextChildInv ==
    ASSUME AmlInv, NextChild
    PROVE  AmlInv'
<1>1. stack # <<>> /\ Top.head /\ UNCHANGED <<tree, buffer_size, chunks>>
  BY DEF NextChild
<1>2. /\ IsTree(tree) /\ tree \in Trees /\ Top \in Calls /\ CallOK(tree, Top) /\ Top.pos \in Nat
      /\ stack \in Seq(Calls) /\ StackOK(tree, stack)
      /\ chunks \in Seq(Chunks) /\ Tiled(chunks) /\ Nested(tree, stack, chunks)
      /\ Bytes(chunks) = Top.pos /\ Len(stack) \in Nat /\ Len(stack) >= 1
      /\ Top = stack[Len(stack)] /\ buffer_size # -1 /\ buffer_size = Size(tree, 1)
  BY <1>1, Active
<1>3. /\ Top.node \in 1 .. Len(tree)
      /\ Top.done \in 0 .. Len(tree[Top.node].children) /\ Len(tree[Top.node].children) \in Nat
      /\ Top.done = Len(tree[Top.node].children) => Top.pos = End(tree, Top)
  BY <1>1, <1>2, CallEnd, NodeSize DEF CallOK
<1>4. CASE Top.done < Len(TopNode.children)
  <2>1. PICK c : c = Top
    OBVIOUS
  <2>2. PICK r : r = stack'
    OBVIOUS
  <2>3. r = Pushed(tree, stack)
        /\ c.done < Len(tree[c.node].children)
    BY <1>4, <2>1, <2>2, Zenon DEF NextChild, Top, TopNode, Pushed
  <2>4. /\ r \in Seq(Calls) /\ Len(r) = Len(stack) + 1
        /\ StackOK(tree, r)
        /\ \A i \in 1 .. Len(stack) : r[i] = stack[i]
        /\ r[Len(r)].head = FALSE /\ r[Len(r)].pos = c.pos
    <3>1. stack[Len(stack)].head
          /\ stack[Len(stack)].done < Len(tree[stack[Len(stack)].node].children)
          /\ stack[Len(stack)].pos = c.pos
      BY <1>1, <1>2, <2>1, <2>3, Zenon
    <3>2. IsTree(tree) /\ stack \in Seq(Calls) /\ StackOK(tree, stack) /\ stack # <<>>
      BY <1>1, <1>2
    <3>3. /\ Pushed(tree, stack) \in Seq(Calls)
          /\ Len(Pushed(tree, stack)) = Len(stack) + 1
      BY <3>1, <3>2, PushCall
    <3>4. StackOK(tree, Pushed(tree, stack))
      BY <3>1, <3>2, PushCall
    <3>5. \A i \in 1 .. Len(stack) : Pushed(tree, stack)[i] = stack[i]
      <4>1. \A d : \A i \in 1 .. Len(stack) : Append(stack, d)[i] = stack[i]
        BY <3>2, SMT
      <4> QED
        BY <4>1, Zenon DEF Pushed
    <3>6. Pushed(tree, stack)[Len(Pushed(tree, stack))].head = FALSE
      BY <3>1, <3>2, PushCall
    <3>7. Pushed(tree, stack)[Len(Pushed(tree, stack))].pos = c.pos
      BY <3>1, <3>2, PushCall
    <3> QED
      BY <2>3, <3>3, <3>4, <3>5, <3>6, <3>7, Zenon
  <2>5. r # <<>>
    BY <1>2, <2>4, EmptySeq, SMT
  <2>6. Nested(tree, r, chunks)
    <3>1. r[Len(stack) + 1].head = FALSE /\ stack[Len(stack)].head
      BY <1>1, <1>2, <2>4, Zenon
    <3> QED
      BY <1>2, <2>4, <3>1, PushNested
  <2>7. TypeOK'
    BY <1>1, <1>2, <2>2, <2>4 DEF TypeOK
  <2>8. (stack # <<>> => Bytes(chunks) = Top.pos)'
    BY <1>1, <1>2, <2>1, <2>2, <2>4 DEF Top
  <2>9. ~ Finished'
    BY <2>2, <2>5 DEF Finished
  <2> QED
    BY <1>1, <1>2, <2>2, <2>4, <2>6, <2>7, <2>8, <2>9 DEF AmlInv
<1>5. CASE ~ (Top.done < Len(TopNode.children))
  <2>1. Return
    BY <1>5 DEF NextChild
  <2>2. Top.done = Len(tree[Top.node].children)
    BY <1>3, <1>5, SMT DEF TopNode
  <2> QED
    BY <1>1, <1>3, <2>1, <2>2, SilentReturn
<1> QED
  BY <1>4, <1>5

LEMMA NodeHeadInv ==
    ASSUME AmlInv, NodeHead
    PROVE  AmlInv'
<1>1. /\ stack # <<>> /\ Top.node # NULL /\ TopNode.op # "DATA" /\ ~ Top.head
      /\ tree' = tree /\ buffer_size' = buffer_size /\ chunks' = chunks \o HeadChunks
  BY DEF NodeHead
<1>2. /\ IsTree(tree) /\ tree \in Trees /\ Top \in Calls /\ CallOK(tree, Top) /\ Top.pos \in Nat
      /\ stack \in Seq(Calls) /\ StackOK(tree, stack)
      /\ chunks \in Seq(Chunks) /\ Tiled(chunks) /\ Nested(tree, stack, chunks)
      /\ Bytes(chunks) = Top.pos /\ Len(stack) \in Nat /\ Len(stack) >= 1
      /\ Top = stack[Len(stack)] /\ buffer_size # -1 /\ buffer_size = Size(tree, 1)
  BY <1>1, Active
<1>3. PICK b : b = HeadBytes(tree, Top.node)
  OBVIOUS
<1>4. BytesOf(HeadChunks) = b /\ Top.node \in 1 .. Len(tree)
  BY <1>1, <1>3, HeadOf, Zenon
<1>5. PICK r : r = stack'
  OBVIOUS
<1>6. PICK L : L = Len(stack)
  OBVIOUS
<1>7. L \in Nat /\ L >= 1 /\ Top = stack[L] /\ ~ stack[L].head
  BY <1>1, <1>2, <1>6, Zenon
<1>8. r = [stack EXCEPT ![L] = HeadWritten(Top, b)] /\ r = HeadDone(tree, stack)
  BY <1>2, <1>3, <1>4, <1>5, <1>6, Zenon DEF NodeHead, HeadWritten, HeadDone
<1>9. /\ r \in Seq(Calls) /\ Len(r) = L /\ StackOK(tree, r)
      /\ r[L].head = TRUE /\ r[L].pos = Top.pos + b
      /\ End(tree, r[L]) = End(tree, stack[L])
  <2>1. /\ stack[Len(stack)].node # NULL /\ tree[stack[Len(stack)].node].op # "DATA"
        /\ ~ stack[Len(stack)].head
    BY <1>1, <1>2, Zenon DEF TopNode
  <2>2. /\ IsTree(tree) /\ stack \in Seq(Calls) /\ StackOK(tree, stack) /\ stack # <<>>
    BY <1>1, <1>2
  <2>3. LET q == HeadDone(tree, stack) IN
        /\ q \in Seq(Calls) /\ Len(q) = Len(stack)
        /\ StackOK(tree, q)
        /\ End(tree, q[Len(stack)]) = End(tree, stack[Len(stack)])
        /\ q[Len(stack)].head = TRUE
        /\ q[Len(stack)].pos = stack[Len(stack)].pos + HeadBytes(tree, stack[Len(stack)].node)
    BY <2>1, <2>2, HeadCall
  <2> QED
    BY <1>2, <1>3, <1>6, <1>8, <2>3, Zenon
<1>10. \A i \in 1 .. L - 1 : r[i] = stack[i]
  <2>1. \A e : \A i \in 1 .. L - 1 : [stack EXCEPT ![L] = e][i] = stack[i]
    BY <1>2, <1>6, <1>7, SMT
  <2> QED
    BY <1>6, <1>8, <2>1, Zenon
<1>11. /\ Len(r) \in Nat /\ Len(r) >= L - 1 /\ Len(r) >= L /\ L \in 1 .. L
       /\ \A i \in 1 .. L - 1 :
             End(tree, r[i]) = End(tree, stack[i]) /\ r[i].head = stack[i].head
  <2>1. Len(r) \in Nat /\ Len(r) >= L - 1 /\ Len(r) >= L /\ L \in 1 .. L
    BY <1>7, <1>9, SMT
  <2> QED
    BY <1>10, <2>1, Zenon
<1>12. End(tree, r[L]) = Top.pos + Size(tree, Top.node)
  BY <1>1, <1>7, <1>9, <1>11, Zenon DEF End, Begin
<1>13. SUFFICES /\ chunks' \in Seq(Chunks) /\ Tiled(chunks')
                /\ Bytes(chunks') = Top.pos + b
                /\ Nested(tree, r, chunks')
  <2>1. ASSUME chunks' \in Seq(Chunks), Tiled(chunks'), Bytes(chunks') = Top.pos + b,
               Nested(tree, r, chunks')
        PROVE  AmlInv'
    <3>1. TypeOK'
      BY <1>1, <1>2, <1>5, <1>9, <2>1 DEF TypeOK
    <3>2. stack' # <<>>
      BY <1>5, <1>7, <1>9, EmptySeq
    <3>3. (stack # <<>> => Bytes(chunks) = Top.pos)'
      BY <1>5, <1>9, <2>1 DEF Top
    <3>4. ~ Finished'
      BY <3>2 DEF Finished
    <3> QED
      BY <1>1, <1>5, <1>9, <2>1, <3>1, <3>3, <3>4 DEF AmlInv
  <2> QED
    BY <2>1
<1>14. CASE HeadChunks = <<>> /\ b = 0 /\ L = 1
  <2>1. chunks' = chunks
    BY <1>1, <1>2, <1>14, ConcatEmptySeq
  <2>2. Nested(tree, r, chunks)
    <3>1. Len(stack) = 1 /\ ~ stack[1].head /\ Len(r) = 1
      BY <1>6, <1>7, <1>9, <1>14, Zenon
    <3> QED
      BY <1>2, <3>1, RootNested
  <2> QED
    BY <1>2, <1>14, <2>1, <2>2, SMT
<1>15. ASSUME NEW x \in Chunks, HeadChunks = <<x>>, b = 1,
              x.at = Top.pos, x.len = 1, x.depth = L, x.what # "pkg"
       PROVE  /\ chunks' \in Seq(Chunks) /\ Tiled(chunks')
              /\ Bytes(chunks') = Top.pos + b
              /\ Nested(tree, r, chunks')
  <2>1. chunks' = Append(chunks, x)
    BY <1>1, <1>2, <1>15, AppendIsConcat
  <2>2. x.at = Bytes(chunks) /\ x.depth >= 1
    BY <1>2, <1>7, <1>15
  <2>3. chunks' \in Seq(Chunks) /\ Tiled(chunks') /\ Bytes(chunks') = x.at + x.len
    BY <1>2, <2>1, <2>2, AddChunk
  <2>4. Nested(tree, r, Append(chunks, x))
    BY <1>2, <1>6, <1>7, <1>11, <1>15, <2>2, AddNested
  <2> QED
    BY <1>15, <2>1, <2>3, <2>4
<1>16. ASSUME NEW x \in Chunks, NEW y \in Chunks, HeadChunks = <<x, y>>,
              x.at = Top.pos, x.len = 1, x.depth = L, x.what # "pkg",
              y.at = Top.pos + 1, y.depth = L, y.len + 1 = b,
              PkgEnd(y) = Top.pos + Size(tree, Top.node)
       PROVE  /\ chunks' \in Seq(Chunks) /\ Tiled(chunks')
              /\ Bytes(chunks') = Top.pos + b
              /\ Nested(tree, r, chunks')
  <2>1. PICK ch : ch = Append(chunks, x)
    OBVIOUS
  <2>2. chunks' = Append(ch, y)
    <3>1. chunks \o <<x, y>> = Append(Append(chunks, x), y)
      BY <1>2, SMT
    <3> QED
      BY <1>1, <1>16, <2>1, <3>1
  <2>3. x.at = Bytes(chunks) /\ x.depth >= 1 /\ y.depth >= 1
    BY <1>2, <1>7, <1>16
  <2>4. ch \in Seq(Chunks) /\ Tiled(ch) /\ Bytes(ch) = x.at + x.len
    BY <1>2, <2>1, <2>3, AddChunk
  <2>5. Nested(tree, stack, Append(chunks, x))
    <3>1. /\ Len(stack) \in Nat /\ Len(stack) >= L - 1
          /\ \A i \in 1 .. L - 1 :
                End(tree, stack[i]) = End(tree, stack[i]) /\ stack[i].head = stack[i].head
      BY <1>2, <1>6, SMT
    <3> QED
      BY <1>2, <1>6, <1>7, <1>16, <2>3, <3>1, AddNested
  <2>6. y.at = Bytes(ch)
    BY <1>16, <2>4
  <2>7. chunks' \in Seq(Chunks) /\ Tiled(chunks') /\ Bytes(chunks') = y.at + y.len
    BY <2>2, <2>3, <2>4, <2>6, AddChunk
  <2>8. Nested(tree, stack, ch)
    BY <2>1, <2>5
  <2>9. r[L].head /\ End(tree, r[L]) = PkgEnd(y)
    BY <1>9, <1>12, <1>16, Zenon
  <2>10. Nested(tree, r, Append(ch, y))
    BY <1>6, <1>7, <1>11, <1>16, <2>4, <2>6, <2>8, <2>9, AddNested
  <2>11. Bytes(chunks') = Top.pos + b
    <3>1. y.len \in Nat
      BY <1>16 DEF Chunks
    <3> QED
      BY <1>2, <1>16, <2>7, <3>1, SMT
  <2> QED
    BY <2>2, <2>7, <2>10, <2>11
<1>17. \/ HeadChunks = <<>> /\ b = 0 /\ L = 1
       \/ \E x \in Chunks :
             /\ HeadChunks = <<x>> /\ b = 1
             /\ x.at = Top.pos /\ x.len = 1 /\ x.depth = L /\ x.what # "pkg"
       \/ \E x, y \in Chunks :
             /\ HeadChunks = <<x, y>>
             /\ x.at = Top.pos /\ x.len = 1 /\ x.depth = L /\ x.what # "pkg"
             /\ y.at = Top.pos + 1 /\ y.depth = L
             /\ y.len + 1 = b
             /\ PkgEnd(y) = Top.pos + Size(tree, Top.node)
  BY <1>1, <1>3, <1>6, HeadOf, Zenon
<1> QED
  BY <1>14, <1>15, <1>16, <1>17, Zenon

LEMMA StartInv ==
    ASSUME AmlInv, Start
    PROVE  AmlInv'
<1>1. /\ tree' = tree /\ chunks' = chunks /\ chunks = <<>> /\ tree \in Trees
      /\ buffer_size' = Size(tree, 1) /\ IsTree(tree)
  BY TreeAssumption DEF Start, AmlInv, TypeOK, Size
<1>2. PICK c : c = Call(1, 0)
  OBVIOUS
<1>3. c \in Calls /\ c.node = 1 /\ c.pos = 0 /\ c.done = 0 /\ c.head = FALSE
  BY <1>2 DEF Call, Calls
<1>4. stack' = <<c>>
  BY <1>2 DEF Start
<1>5. stack' \in Seq(Calls) /\ Len(stack') = 1 /\ stack'[1] = c /\ stack' # <<>>
  BY <1>3, <1>4, SMT
<1>6. Size(tree, 1) \in Nat /\ Len(tree) \in Nat /\ Len(tree) >= 1
  BY <1>1, TreeSize, SMT
<1>7. Begin(tree, c) = 0 /\ End(tree, c) = Size(tree, 1)
  BY <1>3, <1>6, SMT DEF Begin, End
<1>8. CallOK(tree, c)
  BY <1>3, <1>6, <1>7, SMT DEF CallOK
<1>9. StackOK(tree, stack')
  <2>1. \A i \in 1 .. 1 : i = 1
    BY SMT
  <2>2. \A i \in 1 .. 1 - 1 : FALSE
    BY SMT
  <2>3. \A i \in 1 .. 1 : stack'[i] = c
    BY <1>5, <2>1, Zenon
  <2>4. End(tree, c) <= End(tree, c)
    BY <1>6, <1>7, SMT
  <2> QED
    BY <1>3, <1>5, <1>7, <1>8, <2>2, <2>3, <2>4, Zenon DEF StackOK
<1>10. Bytes(<<>>) = 0
  BY DEF Bytes
<1>11. TypeOK'
  BY <1>1, <1>5, <1>6, SMT DEF TypeOK, AmlInv
<1>12. (stack # <<>> => Bytes(chunks) = Top.pos)'
  BY <1>1, <1>3, <1>5, <1>10 DEF Top
<1>13. ~ Finished'
  BY <1>5 DEF Finished
<1>14. Tiled(chunks') /\ Nested(tree, stack', chunks')
  <2>1. \A i \in 1 .. Len(chunks) : FALSE
    BY <1>1, SMT
  <2> QED
    BY <1>1, <2>1 DEF Tiled, Nested
<1> QED
  BY <1>1, <1>9, <1>11, <1>12, <1>13, <1>14 DEF AmlInv

LEMMA InitInv == Init => AmlInv
<1> SUFFICES ASSUME Init PROVE AmlInv
  OBVIOUS
<1>1. tree \in Trees /\ buffer_size = -1 /\ stack = <<>> /\ chunks = <<>>
  BY DEF Init
<1>2. TypeOK
  BY <1>1, EmptySeq DEF TypeOK
<1>3. (\A i \in 1 .. Len(stack) : FALSE) /\ (\A i \in 1 .. Len(stack) - 1 : FALSE)
      /\ (\A i \in 1 .. Len(chunks) : FALSE)
  BY <1>1, SMT
<1>4. StackOK(tree, stack) /\ Tiled(chunks) /\ Nested(tree, stack, chunks)
  BY <1>1, <1>3 DEF StackOK, Tiled, Nested
<1> QED
  BY <1>1, <1>2, <1>4 DEF AmlInv, Finished

LEMMA NextInv == AmlInv /\ [Next]_vars => AmlInv'
<1> SUFFICES ASSUME AmlInv, [Next]_vars PROVE AmlInv'
  OBVIOUS
<1>1. CASE UNCHANGED vars
  BY <1>1 DEF vars, AmlInv, TypeOK, Finished, Top
<1>2. CASE Next
  <2>1. CASE Start
    BY <2>1, StartInv
  <2>2. CASE NullNode
    BY <2>2, NullNodeInv
  <2>3. CASE DataNode
    BY <2>3, DataNodeInv
  <2>4. CASE NodeHead
    BY <2>4, NodeHeadInv
  <2>5. CASE NextChild
    BY <2>5, NextChildInv
  <2>6. CASE Over
    BY <1>1, <2>6 DEF Over
  <2> QED
    BY <1>2, <2>1, <2>2, <2>3, <2>4, <2>5, <2>6 DEF Next
<1> QED
  BY <1>1, <1>2

(* The inductive invariant: the stack is a path of the tree that knows     *)
(* where each of its nodes begins and ends in the buffer.                  *)
THEOREM SerialiserInvariant == Spec => []AmlInv
  BY InitInv, NextInv, PTL DEF Spec

(* aml_node_serialize fills the buffer that aml_node_size asked for from   *)
(* its first byte to its last, without a gap and never beyond its end, for *)
(* every tree below 2^28 bytes, with missing nodes anywhere.               *)
THEOREM SerialiserTilesBuffer == Spec => []TilesBuffer
<1>1. ASSUME AmlInv PROVE TilesBuffer
  <2>1. chunks \in Seq(Chunks) /\ Tiled(chunks) /\ DOMAIN chunks = 1 .. Len(chunks)
    BY <1>1, LenProperties DEF AmlInv, TypeOK
  <2>2. \A i \in DOMAIN chunks :
           chunks[i].at = IF i = 1 THEN 0 ELSE chunks[i - 1].at + chunks[i - 1].len
    BY <2>1 DEF Tiled
  <2>3. Written = Bytes(chunks)
    BY DEF Written, Bytes
  <2>4. Finished => Written = buffer_size
    BY <1>1, <2>3 DEF AmlInv
  <2>5. Written <= buffer_size \/ chunks = <<>>
    <3>1. CASE stack # <<>>
      <4>1. /\ Top.pos <= End(tree, Top) /\ End(tree, Top) \in Nat /\ Top.pos \in Nat
            /\ Written = Top.pos
        BY <1>1, <2>3, <3>1, Active, CallEnd
      <4>2. End(tree, Top) <= End(tree, stack[1])
        <5>1. 1 \in 1 .. Len(stack) /\ Len(stack) \in 1 .. Len(stack) /\ 1 <= Len(stack)
          <6>1. Len(stack) \in Nat /\ Len(stack) >= 1
            BY <1>1, <3>1, Active
          <6> QED
            BY <6>1, SMT
        <5> QED
          BY <1>1, <3>1, <5>1, Active DEF StackOK
      <4>3. End(tree, stack[1]) = buffer_size /\ buffer_size \in Nat
        <5>1. /\ stack[1].node = 1 /\ Begin(tree, stack[1]) = 0
              /\ buffer_size = Size(tree, 1) /\ Size(tree, 1) \in Nat
          BY <1>1, <3>1, Active DEF StackOK
        <5> QED
          BY <5>1, SMT DEF End
      <4> QED
        BY <4>1, <4>2, <4>3, SMT
    <3>2. CASE stack = <<>> /\ buffer_size = -1
      BY <1>1, <3>2 DEF AmlInv, TypeOK
    <3>3. CASE stack = <<>> /\ buffer_size # -1
      <4>1. Written = buffer_size /\ buffer_size = Size(tree, 1) /\ IsTree(tree)
        <5>1. Finished
          BY <3>3 DEF Finished
        <5>2. tree \in Trees /\ buffer_size = Size(tree, 1)
          BY <1>1, <3>3 DEF AmlInv, TypeOK
        <5> QED
          BY <2>4, <5>1, <5>2, TreeAssumption
      <4>2. Size(tree, 1) \in Nat
        BY <4>1, TreeSize, SMT
      <4> QED
        BY <4>1, <4>2, SMT
    <3> QED
      BY <3>1, <3>2, <3>3
  <2> QED
    BY <2>2, <2>4, <2>5 DEF TilesBuffer
<1> QED
  BY <1>1, SerialiserInvariant, PTL

(* Once everything is written, the PkgLength of every package leads        *)
(* exactly over what the tree has below its node, for every tree.          *)
THEOREM SerialiserNestsPackages == Spec => []PackagesNest
<1>1. ASSUME AmlInv PROVE PackagesNest
  <2> SUFFICES ASSUME Finished, NEW i \in DOMAIN chunks, chunks[i].what = "pkg"
               PROVE  /\ {j \in Inside(i) : chunks[j].len > 0}
                         = {j \in Below(i) : chunks[j].len > 0}
                      /\ EndOf(i) <= buffer_size
    BY DEF PackagesNest
  <2>1. /\ chunks \in Seq(Chunks) /\ Tiled(chunks) /\ Len(chunks) \in Nat
        /\ DOMAIN chunks = 1 .. Len(chunks)
        /\ Nested(tree, stack, chunks) /\ Bytes(chunks) = buffer_size
        /\ stack = <<>> /\ Len(stack) = 0
    BY <1>1, LenProperties, EmptySeq DEF AmlInv, TypeOK, Finished
  <2>2. \A j \in 1 .. Len(chunks) : /\ chunks[j].at \in Nat /\ chunks[j].len \in Nat
                                    /\ chunks[j].depth \in Nat /\ chunks[j].depth >= 1
    <3>1. \A j \in 1 .. Len(chunks) : chunks[j] \in Chunks
      BY <2>1, ElementOfSeq
    <3> QED
      BY <2>1, <3>1 DEF Chunks, Tiled
  <2>3. ~ Open(tree, stack, chunks, i)
    BY <2>1, <2>2, SMT DEF Open
  <2>4. EndOf(i) = PkgEnd(chunks[i])
    BY DEF EndOf, PkgEnd
  <2>5. EndOf(i) \in 0 .. Bytes(chunks) /\ Apart(chunks, i)
    BY <2>1, <2>3, <2>4 DEF Nested, Closed
  <2>6. EndOf(i) \in Nat /\ EndOf(i) <= buffer_size
    <3>1. Bytes(chunks) \in Nat
      <4>1. buffer_size # -1 /\ buffer_size = Size(tree, 1) /\ IsTree(tree)
        BY <1>1, TreeAssumption DEF Finished, AmlInv, TypeOK
      <4> QED
        BY <2>1, <4>1, TreeSize, SMT
    <3> QED
      BY <2>1, <2>5, <3>1, SMT
  <2>7. ASSUME NEW j \in 1 .. Len(chunks), chunks[j].len > 0, j > i
        PROVE  chunks[j].at < EndOf(i)
               <=> \A k \in i + 1 .. j : chunks[k].depth > chunks[i].depth
    <3>1. j \in i + 1 .. Len(chunks)
      BY <2>1, <2>7, SMT
    <3>2. IF \A k \in i + 1 .. j : chunks[k].depth > chunks[i].depth
          THEN chunks[j].at + chunks[j].len <= EndOf(i)
          ELSE chunks[j].at >= EndOf(i)
      BY <2>4, <2>5, <3>1 DEF Apart
    <3>3. chunks[j].at + chunks[j].len <= EndOf(i) => chunks[j].at < EndOf(i)
      BY <2>2, <2>6, <2>7, SMT
    <3>4. chunks[j].at >= EndOf(i) => ~ (chunks[j].at < EndOf(i))
      BY <2>2, <2>6, SMT
    <3> QED
      BY <3>2, <3>3, <3>4, Zenon
  <2> QED
    BY <2>1, <2>6, <2>7, Zenon DEF Inside, Below
<1> QED
  BY <1>1, SerialiserInvariant, PTL
=============================================================================
