-------------------------------- MODULE Tlsf --------------------------------
(***************************************************************************)
(* tlsf.c: the allocator behind uacpi_kernel_alloc and uacpi_kernel_free,  *)
(* on a memory of words.                                                   *)
(*                                                                         *)
(* A block header lies partly in memory its neighbours own: the field      *)
(* prev_phys_block is the last word of the previous block's data, and      *)
(* next_free and prev_free are the first two words of the block's own      *)
(* data.  The two lowest bits of the size word say whether the block and   *)
(* the block before it are free.  All of that is kept here, word by word,  *)
(* together with the data the users of the allocator write, so that a      *)
(* field that is read while it is not valid has the value a user left.     *)
(*                                                                         *)
(* Every function of tlsf.c that changes memory is an operator from the    *)
(* old to the new heap; the public functions are the actions.  Assertions  *)
(* are empty in this build (tlsf.c:5) and appear as properties.            *)
(***************************************************************************)
EXTENDS TlsfMapping, Sequences, FiniteSets, FiniteSetsExt

CONSTANTS
    ARENA,          \* address of the memory given to tlsf_create_with_pool
    Bytes,          \* its size
    Extra,          \* a second pool for tlsf_add_pool: [mem, bytes]
    Sizes,          \* sizes that are asked for
    Aligns,         \* alignments memalign is asked for
    Garbage,        \* what memory may hold before it is used
    Data,           \* what users write to their blocks
    MaxHeld         \* bound: blocks in use at the same time

NULL == 0
W    == ALIGN_SIZE

(* control_t is represented by block_null, its first member, and by its    *)
(* last word, in front of the pool; the bitmaps and the list heads are     *)
(* fields of the heap.                                                     *)
tlsf_size  == block_header_size + W
block_null == ARENA

tlsf_get_pool == ARENA + tlsf_size

WordsFrom(a, bytes) == {a + W * i : i \in 0 .. (bytes \div W) - 1}

PoolWords(pool) ==
    IF pool = tlsf_get_pool THEN WordsFrom(pool, Bytes - tlsf_size)
                            ELSE WordsFrom(pool, Extra.bytes)

Addr == WordsFrom(ARENA, Bytes) \cup WordsFrom(Extra.mem - W, Extra.bytes + W)

(* Memory is aligned and in whole words, the pools do not touch.  A pool   *)
(* of exactly block_size_max bytes passes the test of tlsf_add_pool, but   *)
(* control_t has no list for its block; the only arena has 64 MiB of 4 GiB.*)
ASSUME TlsfMemory ==
    /\ ARENA \in Nat \ {0} /\ Bytes \in Nat /\ Extra \in [mem : Nat, bytes : Nat]
    /\ ARENA % W = 0 /\ Extra.mem % W = 0
    /\ Bytes % W = 0 /\ Bytes >= tlsf_size + 2 * W
    /\ Extra.bytes % W = 0 /\ Extra.bytes >= 2 * W
    /\ Extra.mem - W >= ARENA + Bytes
    /\ block_size_max \notin {Bytes - tlsf_size - 2 * W, Extra.bytes - 2 * W}
    /\ Sizes \subseteq Requests /\ Garbage \subseteq Nat /\ Data \in Nat
    /\ \A a \in Aligns : \E k \in 0 .. FL_INDEX_MAX : a = Pow2[k]
    /\ MaxHeld \in Nat

-----------------------------------------------------------------------------
(* Block headers *)

Put(h, a, v) == [h EXCEPT !.mem[a] = v]

SizeWord(h, b) == h.mem[b + W]

FlagOn(h, b, bit) ==
    IF (SizeWord(h, b) \div bit) % 2 = 1 THEN h
    ELSE Put(h, b + W, SizeWord(h, b) + bit)

FlagOff(h, b, bit) ==
    IF (SizeWord(h, b) \div bit) % 2 = 0 THEN h
    ELSE Put(h, b + W, SizeWord(h, b) - bit)

block_size(h, b)           == SizeWord(h, b) - (SizeWord(h, b) % 4)
block_is_last(h, b)        == block_size(h, b) = 0
block_is_free(h, b)        == SizeWord(h, b) % 2 = 1
block_is_prev_free(h, b)   == (SizeWord(h, b) \div 2) % 2 = 1
block_set_size(h, b, size) == Put(h, b + W, size + (SizeWord(h, b) % 4))
block_set_free(h, b)       == FlagOn(h, b, 1)
block_set_used(h, b)       == FlagOff(h, b, 1)
block_set_prev_free(h, b)  == FlagOn(h, b, 2)
block_set_prev_used(h, b)  == FlagOff(h, b, 2)

block_from_ptr(p) == p - block_start_offset
block_to_ptr(b)   == b + block_start_offset

block_prev(h, b) == h.mem[b]
block_next(h, b) == block_to_ptr(b) + block_size(h, b) - block_header_overhead

block_link_next(h, b) == Put(h, block_next(h, b), b)

block_mark_as_free(h, b) ==
    LET next == block_next(h, b)
    IN  block_set_free(block_set_prev_free(block_link_next(h, b), next), b)

block_mark_as_used(h, b) ==
    block_set_used(block_set_prev_used(h, block_next(h, b)), b)

-----------------------------------------------------------------------------
(* Free lists *)

NextFree(h, b) == h.mem[b + 2 * W]
PrevFree(h, b) == h.mem[b + 3 * W]

SetLinks(h, b, next, prev) == Put(Put(h, b + 2 * W, next), b + 3 * W, prev)

\* mutant: the bit of the class is cleared though its list is not empty
ClearClassAlways(h, c, head) ==
    LET sl == h.sl_bitmap[c.fl] \ {c.sl}
    IN  [h EXCEPT !.blocks[c.fl][c.sl] = head, !.sl_bitmap[c.fl] = sl,
                  !.fl_bitmap = IF sl = {} THEN @ \ {c.fl} ELSE @]

(* A list has a new head; the bits are cleared when it is empty.           *)
NewHead(h, c, head) ==
    LET sl == h.sl_bitmap[c.fl] \ {c.sl}
        g  == [h EXCEPT !.blocks[c.fl][c.sl] = head]
    IN  IF head # block_null THEN g
        ELSE [g EXCEPT !.sl_bitmap[c.fl] = sl,
                       !.fl_bitmap = IF sl = {} THEN @ \ {c.fl} ELSE @]

remove_free_block(h, b, c) ==
    LET prev == PrevFree(h, b)
        next == NextFree(h, b)
        g    == Put(Put(h, next + 3 * W, prev), prev + 2 * W, next)
    IN  IF h.blocks[c.fl][c.sl] = b THEN NewHead(g, c, next) ELSE g

insert_free_block(h, b, c) ==
    LET current == h.blocks[c.fl][c.sl]
        g       == Put(SetLinks(h, b, current, block_null), current + 3 * W, b)
    IN  [g EXCEPT !.blocks[c.fl][c.sl] = b,
                  !.fl_bitmap = @ \cup {c.fl},
                  !.sl_bitmap[c.fl] = @ \cup {c.sl}]

block_remove(h, b) == remove_free_block(h, b, mapping_insert(block_size(h, b)))
block_insert(h, b) == insert_free_block(h, b, mapping_insert(block_size(h, b)))

Found(h, fl, sl) == [block |-> h.blocks[fl][sl], class |-> [fl |-> fl, sl |-> sl]]

(* The first non-empty list of class c or of a larger one.                 *)
search_suitable_block(h, c) ==
    LET sl_map == {j \in h.sl_bitmap[c.fl] : j >= c.sl}
        fl_map == {i \in h.fl_bitmap : i > c.fl}
    IN  CASE sl_map # {}                  -> Found(h, c.fl, Min(sl_map))
          [] sl_map = {} /\ fl_map # {}   -> Found(h, Min(fl_map), Min(h.sl_bitmap[Min(fl_map)]))
          [] OTHER                        -> [block |-> NULL, class |-> c]

-----------------------------------------------------------------------------
(* Splitting and merging.  [heap, block] is the result of a function that  *)
(* changes the heap and returns a block.                                   *)

Result(h, b) == [heap |-> h, block |-> b]

\* mutant: room for the size word of the second block is enough
CanSplitTight(h, b, size) == block_size(h, b) >= block_header_overhead + size

block_can_split(h, b, size) == block_size(h, b) >= block_header_size + size

(* The flags of the remaining block start as what its size word happens to *)
(* hold; the callers set the second one.                                   *)
block_split(h, b, size) ==
    LET remaining   == block_to_ptr(b) + size - block_header_overhead
        remain_size == block_size(h, b) - (size + block_header_overhead)
        g           == block_set_size(block_set_size(h, remaining, remain_size), b, size)
    IN  Result(block_mark_as_free(g, remaining), remaining)

block_absorb(h, prev, b) ==
    block_link_next(Put(h, prev + W, SizeWord(h, prev) + block_size(h, b) + block_header_overhead),
                    prev)

block_merge_prev(h, b) ==
    LET prev == block_prev(h, b)
    IN  IF block_is_prev_free(h, b)
        THEN Result(block_absorb(block_remove(h, prev), prev, b), prev)
        ELSE Result(h, b)

block_merge_next(h, b) ==
    LET next == block_next(h, b)
    IN  IF block_is_free(h, next)
        THEN Result(block_absorb(block_remove(h, next), b, next), b)
        ELSE Result(h, b)

block_trim_free(h, b, size) ==
    LET s == block_split(h, b, size)
    IN  IF block_can_split(h, b, size)
        THEN block_insert(block_set_prev_free(block_link_next(s.heap, b), s.block), s.block)
        ELSE h

\* mutant: the flag of the remaining block keeps what its word held
TrimUsedStaleFlag(h, b, size) ==
    LET s == block_split(h, b, size)
        t == block_merge_next(s.heap, s.block)
    IN  IF block_can_split(h, b, size) THEN block_insert(t.heap, t.block) ELSE h

block_trim_used(h, b, size) ==
    LET s == block_split(h, b, size)
        t == block_merge_next(block_set_prev_used(s.heap, s.block), s.block)
    IN  IF block_can_split(h, b, size) THEN block_insert(t.heap, t.block) ELSE h

block_trim_free_leading(h, b, size) ==
    LET s == block_split(h, b, size - block_header_overhead)
        g == block_link_next(block_set_prev_free(s.heap, s.block), b)
    IN  IF block_can_split(h, b, size) THEN Result(block_insert(g, b), s.block)
                                       ELSE Result(h, b)

block_locate_free(h, size) ==
    LET c == mapping_search(size)
        f == search_suitable_block(h, c)
    IN  IF size = 0 \/ c.fl >= FL_INDEX_COUNT \/ f.block = NULL THEN Result(h, NULL)
        ELSE Result(remove_free_block(h, f.block, f.class), f.block)

block_prepare_used(h, b, size) ==
    IF b = NULL THEN [heap |-> h, ptr |-> NULL]
    ELSE [heap |-> block_mark_as_used(block_trim_free(h, b, size), b),
          ptr  |-> block_to_ptr(b)]

-----------------------------------------------------------------------------
(* The public functions *)

control_construct(memory) ==
    SetLinks([mem |-> memory, fl_bitmap |-> {}, sl_bitmap |-> [i \in FL |-> {}],
              blocks |-> [i \in FL |-> [j \in SL |-> block_null]]],
             block_null, block_null, block_null)

tlsf_pool_overhead == 2 * block_header_overhead

PoolSize(bytes) == align_down(bytes - tlsf_pool_overhead, ALIGN_SIZE)

(* Memory of a size the lists cannot describe is refused.                  *)
PoolFits(bytes) == PoolSize(bytes) \in block_size_min .. block_size_max

tlsf_add_pool(h, pool, bytes) ==
    LET b    == pool - block_header_overhead
        g    == block_insert(block_set_prev_used(
                    block_set_free(block_set_size(h, b, PoolSize(bytes)), b), b), b)
        last == block_next(g, b)
    IN  IF ~ PoolFits(bytes) THEN h
        ELSE block_set_prev_free(
                block_set_used(block_set_size(block_link_next(g, b), last, 0), last), last)

tlsf_remove_pool(h, pool) == block_remove(h, pool - block_header_overhead)

tlsf_create_with_pool(memory) ==
    tlsf_add_pool(control_construct(memory), tlsf_get_pool, Bytes - tlsf_size)

tlsf_malloc(h, size) ==
    LET adjust == adjust_request_size(size, ALIGN_SIZE)
        f      == block_locate_free(h, adjust)
    IN  block_prepare_used(f.heap, f.block, adjust)

(* How far behind ptr the aligned block starts: not at all, or far enough  *)
(* for a free block in between.                                            *)
Gap(ptr, align) ==
    LET near == RoundUp(ptr, align)
        min  == block_header_size
        more == IF min - (near - ptr) > align THEN min - (near - ptr) ELSE align
    IN  IF near - ptr \in 1 .. min - 1 THEN RoundUp(near + more, align) - ptr
                                       ELSE near - ptr

tlsf_memalign(h, align, size) ==
    LET adjust   == adjust_request_size(size, ALIGN_SIZE)
        with_gap == adjust_request_size(adjust + align + block_header_size, align)
        f        == block_locate_free(h, IF adjust # 0 /\ align > ALIGN_SIZE
                                         THEN with_gap ELSE adjust)
        gap      == Gap(block_to_ptr(f.block), align)
        g        == IF f.block # NULL /\ gap # 0
                    THEN block_trim_free_leading(f.heap, f.block, gap) ELSE f
    IN  block_prepare_used(g.heap, g.block, adjust)

tlsf_free(h, ptr) ==
    LET b == block_from_ptr(ptr)
        p == block_merge_prev(block_mark_as_free(h, b), b)
        n == block_merge_next(p.heap, p.block)
    IN  IF ptr = NULL THEN h ELSE block_insert(n.heap, n.block)

(* memcpy of minsize bytes from one block to another, by words.            *)
CopyWords(h, to, from, bytes) ==
    [h EXCEPT !.mem = [a \in DOMAIN h.mem |->
        IF a \in WordsFrom(to, RoundUp(bytes, W)) THEN h.mem[from + (a - to)] ELSE h.mem[a]]]

(* A block that is to have another size: it moves to a new block when it   *)
(* cannot grow where it is.                                                *)
Resized(h, ptr, size) ==
    LET b        == block_from_ptr(ptr)
        next     == block_next(h, b)
        cursize  == block_size(h, b)
        combined == cursize + block_size(h, next) + block_header_overhead
        adjust   == adjust_request_size(size, ALIGN_SIZE)
        new      == tlsf_malloc(h, size)
        grown    == block_mark_as_used(block_merge_next(h, b).heap, b)
    IN  IF adjust > cursize /\ (~ block_is_free(h, next) \/ adjust > combined)
        THEN IF new.ptr = NULL THEN [heap |-> h, ptr |-> NULL]
             ELSE [heap |-> tlsf_free(CopyWords(new.heap, new.ptr, ptr,
                                                IF cursize < size THEN cursize ELSE size), ptr),
                   ptr  |-> new.ptr]
        ELSE [heap |-> block_trim_used(IF adjust > cursize THEN grown ELSE h, b, adjust),
              ptr  |-> ptr]

tlsf_realloc(h, ptr, size) ==
    IF ptr = NULL THEN tlsf_malloc(h, size)
    ELSE IF size = 0 THEN [heap |-> tlsf_free(h, ptr), ptr |-> NULL]
    ELSE Resized(h, ptr, size)

-----------------------------------------------------------------------------
(* The blocks of a pool and of a free list, in any memory: a walk stops    *)
(* where it would leave memory.                                            *)

(* No walk visits more blocks than headers fit into the memory.            *)
MaxBlocks == Bytes \div block_header_size + Extra.bytes \div block_header_size + 2

Reached(first, step) ==
    LET r[n \in 0 .. MaxBlocks] ==
            IF n = 0 THEN {first}
            ELSE LET before == r[n - 1]
                 IN  before \cup UNION {step[b] : b \in before \cap DOMAIN step}
    IN  r[MaxBlocks]

InMemory(b) == {b, b + W} \subseteq Addr

HeaderAddr == {a \in Addr : InMemory(a)}
ListedAddr == {a \in Addr \ {block_null} : InMemory(a + W)}

tlsf_walk_pool(h, pool) ==
    LET step == [b \in HeaderAddr |-> IF block_is_last(h, b) THEN {} ELSE {block_next(h, b)}]
    IN  Reached(pool - block_header_overhead, step)

FreeList(h, i, j) ==
    LET step == [b \in ListedAddr |-> {NextFree(h, b)}]
    IN  IF h.blocks[i][j] = block_null THEN {}
        ELSE Reached(h.blocks[i][j], step) \ {block_null}

Physical(h, P) == {b \in UNION {tlsf_walk_pool(h, pool) : pool \in P} :
                      InMemory(b) /\ ~ block_is_last(h, b)}

-----------------------------------------------------------------------------
(* The allocator with the programs that use it.  live and pools are what   *)
(* the users know: the words they asked for, and the memory they gave.     *)

VARIABLES
    heap,       \* memory and control structure
    live,       \* pointers in use: pointer -> [align, n], n words asked for
    pools       \* memory that was given to the allocator

vars == <<heap, live, pools>>

Words(size) == RoundUp(size, W) \div W

Asked(align, size) == [align |-> align, n |-> Words(size)]

Without(p)        == [q \in DOMAIN live \ {p} |-> live[q]]
With(l, p, asked) == [q \in DOMAIN l \cup {p} |-> IF q = p THEN asked ELSE l[q]]

(* The words somebody relies on: the users' own, the fields of headers     *)
(* that are valid, and what lies in front of a pool.                       *)
Needed(h, l, P) ==
    LET Fields(b) == IF block_is_free(h, b)
                     THEN {b + W, b + 2 * W, b + 3 * W, block_next(h, b), block_next(h, b) + W}
                     ELSE {b + W, block_next(h, b) + W}
    IN  (UNION {Fields(b) : b \in Physical(h, P)})
          \cup (UNION {WordsFrom(p, l[p].n * W) : p \in DOMAIN l})
          \cup {pool - W : pool \in P}

(* The state after a call.  All other words hold what is left of older     *)
(* headers and data, which nothing may depend on: any of Garbage.          *)
After(h, l, P) ==
    /\ live' = l
    /\ pools' = P
    /\ \E needed \in {Needed(h, l, P)}, g \in Garbage :
          heap' = [h EXCEPT !.mem = [a \in Addr |-> IF a \in needed THEN h.mem[a] ELSE g]]

(* The user of block p writes to all the words it asked for, but the first *)
(* kept ones.                                                              *)
Fill(h, p, kept, n) ==
    [h EXCEPT !.mem = [a \in Addr |->
        IF a \in {p + W * i : i \in kept .. n - 1} THEN Data ELSE h.mem[a]]]

(* r was returned to a user that asked for a block: nothing changes for    *)
(* the users when it is NULL.                                              *)
Returned(r, others, kept, asked) ==
    IF r.ptr = NULL THEN After(r.heap, live, pools)
    ELSE After(Fill(r.heap, r.ptr, kept, asked.n), With(others, r.ptr, asked), pools)

Init ==
    /\ \E g \in Garbage : heap = tlsf_create_with_pool([a \in Addr |-> g])
    /\ live = <<>>
    /\ pools = IF PoolFits(Bytes - tlsf_size) THEN {tlsf_get_pool} ELSE {}

Malloc(size) ==
    /\ Cardinality(DOMAIN live) < MaxHeld
    /\ Returned(tlsf_malloc(heap, size), live, 0, Asked(ALIGN_SIZE, size))

Memalign(align, size) ==
    /\ Cardinality(DOMAIN live) < MaxHeld
    /\ Returned(tlsf_memalign(heap, align, size), live, 0, Asked(align, size))

Free(p) == After(tlsf_free(heap, p), Without(p), pools)

(* Resizing to what the allocator cannot represent is left out (README).   *)
Realloc(p, size) ==
    LET r == tlsf_realloc(heap, p, size)
    IN  /\ p = NULL => Cardinality(DOMAIN live) < MaxHeld
        /\ p = NULL \/ size = 0 \/ adjust_request_size(size, ALIGN_SIZE) # 0
        /\ IF p # NULL /\ size = 0 THEN After(r.heap, Without(p), pools)
           ELSE Returned(r, Without(p), IF p = NULL THEN 0 ELSE live[p].n,
                         Asked(ALIGN_SIZE, size))

AddPool ==
    /\ Extra.mem \notin pools
    /\ PoolFits(Extra.bytes)
    /\ After(tlsf_add_pool(heap, Extra.mem, Extra.bytes), live, pools \cup {Extra.mem})

(* The caller's duty, by the assertions: nothing of the pool is in use.    *)
RemovePool ==
    LET b == Extra.mem - block_header_overhead
    IN  /\ Extra.mem \in pools
        /\ block_is_free(heap, b) /\ block_is_last(heap, block_next(heap, b))
        /\ After(tlsf_remove_pool(heap, Extra.mem), live, pools \ {Extra.mem})

Next ==
    \/ \E size \in Sizes : Malloc(size)
    \/ \E align \in Aligns, size \in Sizes : Memalign(align, size)
    \/ \E p \in DOMAIN live \cup {NULL} : Free(p)
    \/ \E p \in DOMAIN live \cup {NULL}, size \in Sizes : Realloc(p, size)
    \/ AddPool
    \/ RemovePool

Spec == Init /\ [][Next]_vars

-----------------------------------------------------------------------------
(* What the debugging functions of tlsf.c examine.                         *)

(* Every flag says what the neighbour is, and the walk ends in memory.     *)
tlsf_check_pool(h, pool) ==
    LET first == pool - block_header_overhead
        walk  == tlsf_walk_pool(h, pool)
    IN  /\ \A b \in walk : InMemory(b)
        /\ ~ block_is_prev_free(h, first)
        /\ \A b \in walk : ~ block_is_last(h, b) =>
              block_is_free(h, b) = block_is_prev_free(h, block_next(h, b))

tlsf_check(h) ==
    \A i \in FL, j \in SL :
        /\ i \notin h.fl_bitmap => j \notin h.sl_bitmap[i]
        /\ j \notin h.sl_bitmap[i] <=> h.blocks[i][j] = block_null
        /\ \A b \in FreeList(h, i, j) :
              /\ InMemory(b) /\ block_is_free(h, b) /\ ~ block_is_prev_free(h, b)
              /\ block_size(h, b) >= block_size_min
              /\ InMemory(block_next(h, b))
              /\ ~ block_is_free(h, block_next(h, b))
              /\ block_is_prev_free(h, block_next(h, b))
              /\ mapping_insert(block_size(h, b)) = [fl |-> i, sl |-> j]

FreeBlocks(h) == {b \in Physical(h, pools) : block_is_free(h, b)}
Listed(h)     == UNION {FreeList(h, i, j) : i \in FL, j \in SL}

-----------------------------------------------------------------------------
TypeOK ==
    /\ heap.mem \in [Addr -> Nat]
    /\ heap.fl_bitmap \subseteq FL
    /\ heap.sl_bitmap \in [FL -> SUBSET SL]
    /\ heap.blocks \in [FL -> [SL -> Addr]]

(* tlsf_check and tlsf_check_pool never find anything, the free lists hold *)
(* exactly the free blocks of the pools and are linked both ways, the used *)
(* blocks are exactly those the users hold, a block behind a free one      *)
(* knows where it starts, and the word in front of a pool is not written   *)
(* (comment at tlsf.c:1018).  The second level of a bit that is set is     *)
(* not empty, as search_suitable_block asserts.                            *)
HeapSound ==
    /\ TypeOK
    /\ tlsf_check(heap)
    /\ \A i \in heap.fl_bitmap : heap.sl_bitmap[i] # {}
    /\ \A pool \in pools : tlsf_check_pool(heap, pool) /\ heap.mem[pool - W] \in Garbage
    /\ FreeBlocks(heap) = Listed(heap)
    /\ Physical(heap, pools) \ FreeBlocks(heap) = {block_from_ptr(p) : p \in DOMAIN live}
    /\ \A b \in FreeBlocks(heap) :
          /\ block_prev(heap, block_next(heap, b)) = b
          /\ NextFree(heap, b) # block_null => PrevFree(heap, NextFree(heap, b)) = b

(* A request is refused only when no free block is as large as the request *)
(* rounded up to a size class: the good-fit search skips nothing.          *)
RefusesOnlyWhenFull ==
    \A size \in Sizes :
        LET adjust == adjust_request_size(size, ALIGN_SIZE)
        IN  (adjust # 0 /\ tlsf_malloc(heap, size).ptr = NULL) =>
                \A b \in FreeBlocks(heap) :
                    block_size(heap, b) < adjust + SearchRound(adjust)

Contract == INSTANCE HeapContract WITH
    Word  <- W,
    owned <- UNION {PoolWords(pool) : pool \in pools},
    held  <- [p \in DOMAIN live |->
                 [align |-> live[p].align,
                  words |-> [i \in 1 .. live[p].n |-> heap.mem[p + W * (i - 1)]]]]

(* The users of the allocator see a heap that keeps their blocks apart,    *)
(* aligned, inside the pools and unchanged.                                *)
ImplementsHeap == Contract!Spec
=============================================================================
