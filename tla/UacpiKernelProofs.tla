------------------------- MODULE UacpiKernelProofs -------------------------
(***************************************************************************)
(* Proofs about UacpiKernel, for any number of arenas, blocks and tables   *)
(* and for every width of the clock.                                       *)
(***************************************************************************)
EXTENDS UacpiKernel, TLAPS

(* arena and tlsf are set and cleared together, and while the host is not  *)
(* initialised nothing is left: without this the on-demand initialisation  *)
(* could replace a live arena.                                             *)
IndInv ==
    /\ arena \in Nat /\ born \in Nat /\ tlsf = arena
    /\ arena <= born
    /\ refused \subseteq 1 .. born /\ arena \notin refused
    /\ pool = ({arena} \ {NULL}) \cup refused
    /\ held \subseteq Pointer
    /\ \A p \in held : p.arena = tlsf
    /\ phase = "off" <=> arena = NULL
    /\ phase = "off" => held = {}

LEMMA InitArena ==
    ASSUME IndInv, NEW ok \in BOOLEAN, init_arena_once(ok)
    PROVE  /\ arena' \in Nat /\ born' \in Nat /\ tlsf' = arena'
           /\ arena' <= born'
           /\ refused' \subseteq 1 .. born' /\ arena' \notin refused'
           /\ pool' = ({arena'} \ {NULL}) \cup refused'
           /\ ok <=> arena' # NULL
           /\ arena # NULL => arena' = arena
<1>1. CASE tlsf # NULL
  BY <1>1 DEF IndInv, init_arena_once, mem, NULL
<1>2. CASE tlsf = NULL /\ ok
  <2>1. arena = NULL /\ pool = refused
    BY <1>2 DEF IndInv, NULL
  <2>2. /\ born' = born + 1 /\ arena' = born + 1 /\ tlsf' = born + 1
        /\ pool' = pool \cup {born + 1} /\ refused' = refused
    BY <1>2 DEF init_arena_once, NULL
  <2>3. born \in Nat /\ refused \subseteq 1 .. born
    BY DEF IndInv
  <2> QED
    BY <1>2, <2>1, <2>2, <2>3 DEF NULL
<1>3. CASE tlsf = NULL /\ ~ ok
  BY <1>3 DEF IndInv, init_arena_once, mem, NULL
<1> QED
  BY <1>1, <1>2, <1>3

LEMMA InitIndInv == Init => IndInv
  BY DEF Init, IndInv, NULL

LEMMA NextIndInv == IndInv /\ [Next]_vars => IndInv'
<1> SUFFICES ASSUME IndInv, [Next]_vars PROVE IndInv'
  OBVIOUS
<1>1. ASSUME NEW ok \in BOOLEAN, InitializeEarly(ok) PROVE IndInv'
  <2>1. init_arena_once(ok)
    BY <1>1 DEF InitializeEarly, uacpi_kernel_initialize
  <2>2. held = {} /\ held' = {} /\ phase' = IF ok THEN "early" ELSE "off"
    BY <1>1 DEF InitializeEarly, IndInv
  <2> QED
    BY <1>1, <2>1, <2>2, InitArena DEF IndInv
<1>2. ASSUME NEW ok \in BOOLEAN, InitializeSubsystem(ok) PROVE IndInv'
  <2>1. init_arena_once(ok)
    BY <1>2 DEF InitializeSubsystem, uacpi_kernel_initialize
  <2>2. held' = held /\ phase = "early" /\ phase' \in {"up", "reset"}
    BY <1>2 DEF InitializeSubsystem
  <2> QED
    BY <1>2, <2>1, <2>2, InitArena DEF IndInv
<1>3. ASSUME NEW ok \in BOOLEAN, NEW given \in SUBSET Pointer, Allocate(ok, given)
      PROVE  IndInv'
  <2>1. init_arena_once(ok)
    BY <1>3 DEF Allocate, uacpi_kernel_alloc
  <2>2. /\ \A p \in given : p.arena = tlsf'
        /\ held' = held \cup given
        /\ phase # "off" /\ phase' # "off"
    BY <1>3 DEF Allocate, uacpi_kernel_alloc
  <2>3. arena # NULL
    BY <2>2 DEF IndInv
  <2> QED
    BY <2>1, <2>2, <2>3, InitArena DEF IndInv
<1>4. ASSUME NEW p \in Pointer, Release(p) PROVE IndInv'
  BY <1>4 DEF Release, uacpi_kernel_free, IndInv, mem
<1>5. CASE NamespaceLoad
  BY <1>5 DEF NamespaceLoad, IndInv, mem
<1>6. CASE WalkDone
  BY <1>6 DEF WalkDone, IndInv, mem
<1>7. ASSUME NEW freed \in BOOLEAN, StateReset(freed) PROVE IndInv'
  <2>1. /\ arena' = NULL /\ tlsf' = NULL /\ born' = born
        /\ held' = {} /\ phase' = "off"
    BY <1>7 DEF StateReset, uacpi_kernel_deinitialize
  <2>2. /\ born \in Nat /\ arena \in Nat /\ arena <= born /\ arena \notin refused
        /\ refused \subseteq 1 .. born /\ pool = ({arena} \ {NULL}) \cup refused
    BY DEF IndInv
  <2>3. refused' \subseteq 1 .. born /\ pool' = refused'
    <3>1. CASE freed
      <4>1. refused' = refused /\ pool' = pool \ {arena}
        BY <1>7, <3>1 DEF StateReset, uacpi_kernel_deinitialize
      <4> QED
        BY <2>2, <4>1
    <3>2. CASE ~ freed
      <4>1. pool' = pool /\ refused' = refused \cup ({arena} \ {NULL})
        BY <1>7, <3>2 DEF StateReset, uacpi_kernel_deinitialize
      <4>2. {arena} \ {NULL} \subseteq 1 .. born
        BY <2>2 DEF NULL
      <4> QED
        BY <2>2, <4>1, <4>2
    <3> QED
      BY <3>1, <3>2
  <2> QED
    BY <2>1, <2>2, <2>3 DEF IndInv, NULL
<1>8. CASE ReadClock \/ Tick \/ UNCHANGED vars
  BY <1>8 DEF ReadClock, Tick, IndInv, vars, mem
<1>9. ASSUME NEW ok \in BOOLEAN, Allocate(ok, {}) PROVE IndInv'
  BY <1>3, <1>9
<1>10. ASSUME NEW ok \in BOOLEAN, NEW p \in Pointer, Allocate(ok, {p}) PROVE IndInv'
  BY <1>3, <1>10
<1> QED
  BY <1>1, <1>2, <1>4, <1>5, <1>6, <1>7, <1>8, <1>9, <1>10 DEF Next

LEMMA IndInvHolds == Spec => []IndInv
  BY InitIndInv, NextIndInv, PTL DEF Spec

(* init_arena_once and uacpi_kernel_deinitialize never lose an arena, and  *)
(* none is left when fix_dsdt has returned, on any path through uACPI,     *)
(* except for those FreePool did not take back.                            *)
THEOREM ArenaAccounted == Spec => []NoArenaLost
<1>1. IndInv => NoArenaLost
  BY DEF IndInv, NoArenaLost, NULL
<1> QED
  BY <1>1, IndInvHolds, PTL

(* uacpi_kernel_free is only ever handed pointers into the present heap,   *)
(* and that heap lies in memory the program owns.                          *)
THEOREM PointersStayValid == Spec => []HeapOutlivesPointers
<1>1. IndInv => HeapOutlivesPointers
  BY DEF IndInv, HeapOutlivesPointers, NULL
<1> QED
  BY <1>1, IndInvHolds, PTL

-----------------------------------------------------------------------------
(* The clock *)

LEMMA PowerNat == 2 ^ WIDTH \in Nat \ {0}
  BY KernelConstants

LEMMA ModSmall ==
    ASSUME NEW a \in Nat, NEW b \in Nat, a < b PROVE a % b = a
  OBVIOUS

LEMMA DivMonotone ==
    ASSUME NEW a \in Nat, NEW b \in Nat, NEW c \in Nat \ {0}, a <= b
    PROVE  a \div c \in Nat /\ a \div c <= b \div c
  OBVIOUS

LEMMA ProductGrows ==
    ASSUME NEW t \in Nat, NEW c \in Nat
    PROVE  t * c \in Nat /\ t * c <= (t + 1) * c /\ (t + 1) * c \in Nat
  OBVIOUS

(* What the clock said last is not ahead of the counter.                   *)
Behind ==
    /\ freq \in {0, CNTFRQ} /\ ticks \in Nat /\ now \in Nat
    /\ ticks * NS < 2 ^ WIDTH => now <= (ticks * NS) \div CNTFRQ

LEMMA OtherSteps ==
    ASSUME [Next]_vars PROVE ReadClock \/ Tick \/ UNCHANGED clock
  BY DEF Next, vars, InitializeEarly, InitializeSubsystem, Allocate, Release,
         NamespaceLoad, WalkDone, StateReset

LEMMA ClockRead ==
    ASSUME Behind, ReadClock, ticks * NS < 2 ^ WIDTH
    PROVE  now' = (ticks * NS) \div CNTFRQ
<1>1. ticks * NS \in Nat /\ 2 ^ WIDTH \in Nat
  BY PowerNat, ProductGrows, KernelConstants DEF Behind
<1>2. (ticks * NS) % 2 ^ WIDTH = ticks * NS
  BY <1>1, ModSmall
<1>3. freq' = CNTFRQ
  BY DEF Behind, ReadClock, uacpi_kernel_get_nanoseconds_since_boot
<1>4. now' = ((ticks * NS) % 2 ^ WIDTH) \div CNTFRQ
  BY <1>3 DEF ReadClock, uacpi_kernel_get_nanoseconds_since_boot, Nanoseconds
<1> QED
  BY <1>2, <1>4

LEMMA NextBehind == Behind /\ [Next]_vars => Behind'
<1> SUFFICES ASSUME Behind, [Next]_vars PROVE Behind'
  OBVIOUS
<1> DEFINE W == 2 ^ WIDTH
<1>1. /\ W \in Nat \ {0} /\ CNTFRQ \in Nat \ {0} /\ NS \in Nat /\ ticks \in Nat
      /\ now \in Nat /\ ticks * NS \in Nat
  BY PowerNat, KernelConstants, ProductGrows DEF Behind
<1>2. CASE ReadClock
  <2>1. freq' = CNTFRQ /\ ticks' = ticks
    BY <1>2 DEF Behind, ReadClock, uacpi_kernel_get_nanoseconds_since_boot
  <2>2. now' = ((ticks * NS) % W) \div CNTFRQ
    BY <1>2, <2>1 DEF ReadClock, uacpi_kernel_get_nanoseconds_since_boot, Nanoseconds
  <2>3. (ticks * NS) % W \in Nat
    BY <1>1
  <2>4. now' \in Nat
    BY <1>1, <2>2, <2>3, DivMonotone
  <2>5. ticks * NS < W => now' = (ticks * NS) \div CNTFRQ
    BY <1>2, ClockRead
  <2>6. (ticks * NS) \div CNTFRQ \in Nat
    BY <1>1, DivMonotone
  <2> QED
    BY <2>1, <2>4, <2>5, <2>6 DEF Behind
<1>3. CASE Tick
  <2>1. ticks' = ticks + 1 /\ freq' = freq /\ now' = now
    BY <1>3 DEF Tick
  <2>2. ticks * NS <= ticks' * NS /\ ticks' * NS \in Nat
    BY <1>1, <2>1, ProductGrows
  <2>3. /\ (ticks * NS) \div CNTFRQ \in Nat /\ (ticks' * NS) \div CNTFRQ \in Nat
        /\ (ticks * NS) \div CNTFRQ <= (ticks' * NS) \div CNTFRQ
    BY <1>1, <2>2, DivMonotone
  <2>4. ticks' * NS < W => ticks * NS < W
    BY <1>1, <2>2
  <2>5. ticks' * NS < W => now' <= (ticks' * NS) \div CNTFRQ
    BY <1>1, <2>1, <2>3, <2>4 DEF Behind
  <2>6. ticks' \in Nat
    BY <1>1, <2>1
  <2> QED
    BY <2>1, <2>5, <2>6 DEF Behind
<1>4. CASE UNCHANGED clock
  BY <1>4 DEF Behind, clock
<1> QED
  BY <1>2, <1>3, <1>4, OtherSteps

(* The clock uACPI measures its timeouts with never goes back, for every   *)
(* frequency of the counter, as long as the product of ticks and           *)
(* nanoseconds per second fits into the 64 bits it is computed in.         *)
THEOREM ClockNeverGoesBack == Spec => ClockMonotone
<1> DEFINE Ahead == ticks' * NS < 2 ^ WIDTH => now' >= now
<1>1. Init => Behind
  <2>1. 0 * NS = 0 /\ 0 \div CNTFRQ = 0
    BY KernelConstants
  <2> QED
    BY <2>1 DEF Init, Behind
<1>2. ASSUME Behind, [Next]_vars PROVE [Ahead]_vars
  <2>1. CASE ReadClock
    <3>1. ticks' = ticks
      BY <2>1 DEF ReadClock, uacpi_kernel_get_nanoseconds_since_boot
    <3>2. ticks * NS < 2 ^ WIDTH => now' = (ticks * NS) \div CNTFRQ
      BY <1>2, <2>1, ClockRead
    <3>3. ticks * NS < 2 ^ WIDTH => now <= (ticks * NS) \div CNTFRQ
      BY <1>2 DEF Behind
    <3>4. now \in Nat /\ (ticks * NS) \div CNTFRQ \in Nat
      BY <1>2, KernelConstants, ProductGrows, DivMonotone DEF Behind
    <3> QED
      BY <3>1, <3>2, <3>3, <3>4
  <2>2. CASE Tick \/ UNCHANGED clock
    <3>1. now' = now /\ now \in Nat
      BY <1>2, <2>2 DEF Tick, clock, Behind
    <3> QED
      BY <3>1
  <2> QED
    BY <1>2, <2>1, <2>2, OtherSteps
<1>3. Spec => []Behind
  BY <1>1, NextBehind, PTL DEF Spec
<1>4. [][Next]_vars /\ []Behind => [][Ahead]_vars
  BY <1>2, PTL
<1> QED
  BY <1>3, <1>4, PTL DEF Spec, ClockMonotone
=============================================================================
