---------------------------- MODULE TlsfMapping ----------------------------
(***************************************************************************)
(* tlsf.c: the arithmetic of the two-level segregated fit allocator.  Free *)
(* blocks are kept in lists by size class.  A class is a pair <<fl, sl>>:  *)
(* fl is the power of two below the size, sl one of SL_INDEX_COUNT equal   *)
(* parts of the range up to the next power; sizes below SMALL_BLOCK_SIZE   *)
(* have classes of their own under fl = 0.                                 *)
(*                                                                         *)
(* The structure sizes are those of both builds the code knows: a size_t   *)
(* and a pointer take ALIGN_SIZE bytes (4 or 8).                           *)
(***************************************************************************)
EXTENDS Integers

CONSTANTS
    ALIGN_SIZE_LOG2,        \* 3 in the 64-bit build
    SL_INDEX_COUNT_LOG2,    \* 5; "may be modified"
    FL_INDEX_MAX,           \* 32: blocks are smaller than 2^FL_INDEX_MAX
    SIZE_WIDTH              \* 64: bits of a size_t

(* Two bits of a size word are flags, a first level must exist, and what   *)
(* tlsf_memalign adds up fits a size_t (32 and 64, or 30 and 32).          *)
ASSUME TlsfConstants ==
    /\ ALIGN_SIZE_LOG2 \in 2 .. 3
    /\ SL_INDEX_COUNT_LOG2 \in Nat \ {0}
    /\ FL_INDEX_MAX \in Nat
    /\ FL_INDEX_MAX > SL_INDEX_COUNT_LOG2 + ALIGN_SIZE_LOG2
    /\ SIZE_WIDTH \in Nat /\ FL_INDEX_MAX + 2 <= SIZE_WIDTH

(* 1 << k *)
Pow2[k \in Nat] == IF k = 0 THEN 1 ELSE 2 * Pow2[k - 1]

ALIGN_SIZE       == Pow2[ALIGN_SIZE_LOG2]
SL_INDEX_COUNT   == Pow2[SL_INDEX_COUNT_LOG2]
FL_INDEX_SHIFT   == SL_INDEX_COUNT_LOG2 + ALIGN_SIZE_LOG2
FL_INDEX_COUNT   == FL_INDEX_MAX - FL_INDEX_SHIFT + 1
SMALL_BLOCK_SIZE == Pow2[FL_INDEX_SHIFT]

block_header_overhead == ALIGN_SIZE         \* sizeof(size_t)
block_header_size     == 4 * ALIGN_SIZE     \* sizeof(block_header_t)
block_start_offset    == 2 * ALIGN_SIZE
block_size_min        == 3 * ALIGN_SIZE
block_size_max        == Pow2[FL_INDEX_MAX]

FL == 0 .. FL_INDEX_COUNT - 1
SL == 0 .. SL_INDEX_COUNT - 1

SizeValues == Pow2[SIZE_WIDTH]

(* align_ptr: no memory reaches up to the last addresses there are.        *)
RoundUp(x, align) == ((x + align - 1) \div align) * align

align_up(x, align)   == (((x + align - 1) % SizeValues) \div align) * align
align_down(x, align) == x - (x % align)

(* The sizes that align_up does not wrap to 0: all but the last seven.     *)
Requests == 0 .. SizeValues - ALIGN_SIZE

(* 0, which every caller treats as a refusal, for a size that is 0 or too  *)
(* large.  A size align_up wraps is taken for the least.                   *)
adjust_request_size(size, align) ==
    LET aligned == align_up(size, align)
    IN  IF size = 0 \/ aligned >= block_size_max THEN 0
        ELSE IF aligned < block_size_min THEN block_size_min ELSE aligned

(* The highest bit that is set in size.                                    *)
tlsf_fls_sizet(size) ==
    CHOOSE k \in 0 .. size : Pow2[k] <= size /\ size < Pow2[k + 1]

(* The class of a block.  The exclusive or clears the highest bit of the   *)
(* shifted size, which is bit SL_INDEX_COUNT_LOG2.                         *)
mapping_insert(size) ==
    IF size < SMALL_BLOCK_SIZE
    THEN [fl |-> 0, sl |-> size \div (SMALL_BLOCK_SIZE \div SL_INDEX_COUNT)]
    ELSE LET k == tlsf_fls_sizet(size)
         IN  [fl |-> k - (FL_INDEX_SHIFT - 1),
              sl |-> size \div Pow2[k - SL_INDEX_COUNT_LOG2] - SL_INDEX_COUNT]

(* What is added to a request so that every block of its class is large    *)
(* enough.                                                                 *)
SearchRound(size) ==
    IF size < SMALL_BLOCK_SIZE THEN 0
    ELSE Pow2[tlsf_fls_sizet(size) - SL_INDEX_COUNT_LOG2] - 1

(* The first class that may be searched for a request.                     *)
mapping_search(size) == mapping_insert(size + SearchRound(size))
=============================================================================
