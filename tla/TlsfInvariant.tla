--------------------------- MODULE TlsfInvariant ---------------------------
(***************************************************************************)
(* The inductive invariant of tlsf.c.  HeapSound, which TLC checks, walks  *)
(* the memory; the invariant says instead that there are blocks S with     *)
(* sizes z, of which Fr are free, that the memory, the lists and the users *)
(* describe.  Every operation is then a change of S, z and Fr.             *)
(***************************************************************************)
EXTENDS Tlsf

(* A multiple of the word size.                                            *)
Aligned(x) == x \in Nat /\ x % W = 0

HeapType == [mem : [Addr -> Nat], fl_bitmap : SUBSET FL, sl_bitmap : [FL -> SUBSET SL],
             blocks : [FL -> [SL -> Addr]]]

-----------------------------------------------------------------------------
(* The first block of a pool and the block of size 0 behind its last one   *)
(* (tlsf_add_pool).                                                        *)
PoolBytes(pool) == IF pool = tlsf_get_pool THEN Bytes - tlsf_size ELSE Extra.bytes
Lo(pool)  == pool - W
Hi(pool)  == pool + PoolBytes(pool) - 2 * W
Starts(P) == {Lo(pool) : pool \in P}
Ends(P)   == {Hi(pool) : pool \in P}

PoolsOK(P) == /\ P \subseteq {tlsf_get_pool, Extra.mem}
              /\ \A pool \in P : PoolFits(PoolBytes(pool))

(* Where the next block starts (block_next).                               *)
Nx(z, b) == b + W + z[b]

(* The blocks S tile the pools P without gap or overlap, each large enough *)
(* for the links of a free block.                                          *)
Chain(S, z, P) ==
    /\ \A pool \in P : Lo(pool) \in S /\ Hi(pool) \in S
    /\ \A b \in S : /\ Aligned(b) /\ Aligned(z[b])
                    /\ \E pool \in P : Lo(pool) <= b /\ b <= Hi(pool)
                    /\ b \in Ends(P) => z[b] = 0
                    /\ b \notin Ends(P) => 3 * W <= z[b] /\ Nx(z, b) \in S
                    /\ b \in Starts(P) \/ \E a \in S \ Ends(P) : Nx(z, a) = b
    /\ \A a, b \in S : a < b => Nx(z, a) <= b

-----------------------------------------------------------------------------
(* What the headers say: sizes, the two flags, and in the last word of a   *)
(* free block where it starts (block_link_next).                           *)
Behind(z, Fr) == {Nx(z, a) : a \in Fr}

HeadIs(h, b, z, Fr) ==
    /\ block_size(h, b) = z[b]
    /\ block_is_free(h, b) <=> b \in Fr
    /\ block_is_prev_free(h, b) <=> b \in Behind(z, Fr)

Rep(h, S, z, Fr) ==
    /\ \A b \in S : HeadIs(h, b, z, Fr)
    /\ \A a \in Fr : h.mem[Nx(z, a)] = a

-----------------------------------------------------------------------------
(* The free lists hold the blocks of F, doubly linked, each in the list of *)
(* its class; rho grows from the head of a list to its end, so that there  *)
(* is no cycle.  The bitmaps say which lists are not empty.                *)
Class(z, b) == mapping_insert(z[b])

NextOK(h, F, z, rho, b) ==
    \/ NextFree(h, b) = block_null
    \/ /\ NextFree(h, b) \in F /\ Class(z, NextFree(h, b)) = Class(z, b)
       /\ PrevFree(h, NextFree(h, b)) = b /\ rho[b] < rho[NextFree(h, b)]

PrevOK(h, F, z, b) ==
    \/ PrevFree(h, b) = block_null /\ h.blocks[Class(z, b).fl][Class(z, b).sl] = b
    \/ /\ PrevFree(h, b) \in F /\ Class(z, PrevFree(h, b)) = Class(z, b)
       /\ NextFree(h, PrevFree(h, b)) = b

Linked(h, F, z, rho) ==
    /\ rho \in [F -> Nat]
    /\ \A b \in F : NextOK(h, F, z, rho, b) /\ PrevOK(h, F, z, b)

HeadOK(h, F, z, i, j) ==
    /\ \/ h.blocks[i][j] = block_null
       \/ /\ h.blocks[i][j] \in F /\ Class(z, h.blocks[i][j]) = [fl |-> i, sl |-> j]
          /\ PrevFree(h, h.blocks[i][j]) = block_null
    /\ j \in h.sl_bitmap[i] <=> h.blocks[i][j] # block_null

Lists(h, F, z) ==
    /\ \A i \in FL, j \in SL : HeadOK(h, F, z, i, j)
    /\ \A i \in FL : i \in h.fl_bitmap <=> h.sl_bitmap[i] # {}
    /\ \E rho : Linked(h, F, z, rho)

(* In the middle of an operation a free block may be in no list yet.       *)
ListState(h, S, z, Fr, F, P) ==
    /\ PoolsOK(P) /\ Chain(S, z, P) /\ Fr \subseteq S \ Ends(P)
    /\ h \in HeapType /\ Rep(h, S, z, Fr)
    /\ F \subseteq Fr /\ Lists(h, F, z)

(* No two free blocks of F are neighbours.                                 *)
Coalesced(z, F) == \A a \in F : Nx(z, a) \notin F

(* The allocator between two calls.                                        *)
HeapState(h, S, z, Fr, P) == ListState(h, S, z, Fr, Fr, P) /\ Coalesced(z, Fr)

-----------------------------------------------------------------------------
(* The users hold exactly the blocks that are not free, each as large and  *)
(* aligned as asked.                                                       *)
Used(S, Fr, P) == S \ (Fr \cup Ends(P))

Fits(z, b, use) ==
    /\ use.n \in Nat /\ use.n * W <= z[b]
    /\ (b + 2 * W) % use.align = 0

Users(l, S, z, Fr, P) ==
    /\ DOMAIN l = {b + 2 * W : b \in Used(S, Fr, P)}
    /\ \A b \in Used(S, Fr, P) : Fits(z, b, l[b + 2 * W])

(* The word in front of a pool is not the allocator's.                     *)
Fronts(h, P) == \A pool \in P \cup {Extra.mem} : h.mem[Lo(pool)] \in Garbage

Describes(h, l, P, S, z, Fr) ==
    HeapState(h, S, z, Fr, P) /\ Users(l, S, z, Fr, P) /\ Fronts(h, P)

(* The inductive invariant.                                                *)
IInv == \E S, z, Fr : Describes(heap, live, pools, S, z, Fr)

-----------------------------------------------------------------------------
(* What a call may be for the users.  The words A are the same in g.       *)
SameOn(h, g, A) == \A x \in A : g.mem[x] = h.mem[x]

(* The blocks Q are held before and after, with the same contents.         *)
Keeping(Q) ==
    \A p \in Q : /\ p \in DOMAIN live /\ p \in DOMAIN live' /\ live'[p] = live[p]
                 /\ SameOn(heap, heap', WordsFrom(p, live[p].n * W))

SamePrefix(p, q) ==
    \A i \in Nat : i < live[p].n /\ i < live'[q].n => heap'.mem[q + W * i] = heap.mem[p + W * i]

NoChange == pools' = pools /\ DOMAIN live' = DOMAIN live /\ Keeping(DOMAIN live)
Given    == /\ pools' = pools
            /\ \E p \in DOMAIN live' \ DOMAIN live :
                  DOMAIN live' = DOMAIN live \cup {p} /\ Keeping(DOMAIN live)
Released == /\ pools' = pools
            /\ \E p \in DOMAIN live :
                  DOMAIN live' = DOMAIN live \ {p} /\ Keeping(DOMAIN live \ {p})
Moved    == /\ pools' = pools
            /\ \E p \in DOMAIN live, q \in DOMAIN live' :
                  /\ DOMAIN live' = (DOMAIN live \ {p}) \cup {q}
                  /\ q = p \/ q \notin DOMAIN live
                  /\ Keeping(DOMAIN live \ {p}) /\ SamePrefix(p, q)
PoolsOnly == DOMAIN live' = DOMAIN live /\ Keeping(DOMAIN live)

UserStep == NoChange \/ Given \/ Released \/ Moved \/ PoolsOnly

-----------------------------------------------------------------------------
(* What becomes of a chain.  Block b is split behind size bytes, or a      *)
(* takes in b behind it.                                                   *)
SplitSizes(S, z, b, size) ==
    [c \in S \cup {b + W + size} |->
        IF c = b THEN size ELSE IF c = b + W + size THEN z[b] - size - W ELSE z[c]]

AbsorbSizes(S, z, a, b) == [c \in S \ {b} |-> IF c = a THEN z[a] + z[b] + W ELSE z[c]]

(* The chain after b was split behind size bytes.                          *)
SplitIs(S, z, b, size, P) ==
    LET r == b + W + size
        T == S \cup {r}
        y == SplitSizes(S, z, b, size)
    IN  /\ Chain(T, y, P)
        /\ r \notin S /\ r \notin Ends(P) /\ r # b
        /\ y[b] = size /\ y[r] = z[b] - size - W
        /\ Nx(y, b) = r /\ Nx(y, r) = Nx(z, b)
        /\ \A c \in S : c # b => y[c] = z[c] /\ Nx(y, c) = Nx(z, c)

(* The chain after block a took in b.                                      *)
AbsorbIs(S, z, a, b, P) ==
    LET T == S \ {b}
        y == AbsorbSizes(S, z, a, b)
    IN  /\ Chain(T, y, P) /\ a \in T /\ a # b /\ b \in S
        /\ y[a] = z[a] + z[b] + W /\ Nx(y, a) = Nx(z, b) /\ Nx(z, b) \in T
        /\ \A c \in T : c # a => y[c] = z[c] /\ Nx(y, c) = Nx(z, c)

(* A pool that comes is one block, and so is one that goes.                *)
PoolSizes(S, z, pool) ==
    [c \in S \cup {Lo(pool), Hi(pool)} |->
        IF c = Lo(pool) THEN Hi(pool) - Lo(pool) - W ELSE IF c = Hi(pool) THEN 0 ELSE z[c]]

(* The chain with another pool.                                            *)
AddPoolIs(S, z, pool, P) ==
    LET T == S \cup {Lo(pool), Hi(pool)}
        y == PoolSizes(S, z, pool)
    IN  /\ Chain(T, y, P \cup {pool})
        /\ Lo(pool) \notin S /\ Hi(pool) \notin S /\ Lo(pool) # Hi(pool)
        /\ y[Lo(pool)] = Hi(pool) - Lo(pool) - W /\ y[Hi(pool)] = 0
        /\ Nx(y, Lo(pool)) = Hi(pool)
        /\ \A c \in S : y[c] = z[c] /\ Nx(y, c) = Nx(z, c)
        /\ \A c \in S : c \notin Ends(P) <=> c \notin Ends(P \cup {pool})
        /\ Lo(pool) \notin Ends(P \cup {pool})
=============================================================================
