---------------------------- MODULE UacpiKernel ----------------------------
(***************************************************************************)
(* uacpi_kernel.c: what uACPI needs of its host.  The state of that file   *)
(* is the arena (64 MiB of UEFI pool memory), the TLSF heap in it, and the *)
(* cached frequency of the system counter.                                 *)
(*                                                                         *)
(* The callers are external: uACPI, and the four calls fix_dsdt makes to   *)
(* it (dsdt_fix.c:186-208).  uACPI is built with                           *)
(* UACPI_KERNEL_INITIALIZATION (Makefile:90), so uacpi_initialize calls    *)
(* uacpi_kernel_initialize twice, once per init level, and                 *)
(* uacpi_state_reset ends in uacpi_kernel_deinitialize; uacpi_initialize   *)
(* resets by itself when it fails behind its first call.                   *)
(*                                                                         *)
(* A pointer is [arena, slot]; which slot of an arena a request gets is    *)
(* the business of module Tlsf.                                            *)
(***************************************************************************)
EXTENDS Integers, FiniteSets, FiniteSetsExt

CONSTANTS
    Slots,          \* the blocks one arena has room for
    ConfigTables,   \* configuration tables the firmware may pass: sequences of [guid, rsdp]
    CNTFRQ,         \* the counter's frequency in Hz
    NS,             \* 1000000000
    WIDTH,          \* 64: width of uacpi_u64
    MaxTicks,       \* bound: how far the counter runs
    MaxArenas       \* bound: successful calls of AllocatePool

(* That 2 ^ WIDTH is a number is arithmetic; it is stated because the      *)
(* provers know nothing of powers.                                         *)
ASSUME KernelConstants ==
    /\ CNTFRQ \in Nat \ {0} /\ NS \in Nat \ {0}
    /\ WIDTH \in Nat /\ 2 ^ WIDTH \in Nat \ {0}
    /\ MaxTicks \in Nat /\ MaxArenas \in Nat

VARIABLES
    arena,          \* 0 for NULL, or the number of the arena
    tlsf,           \* uacpi_kernel_tlsf: 0 for NULL, or the arena it lies in
    pool,           \* arenas the firmware has allocated and not freed
    born,           \* how many arenas there have been
    refused,        \* history: arenas FreePool did not take back
    held,           \* pointers uACPI has and has not freed
    phase,          \* how far uACPI and fix_dsdt are
    tables,         \* ST->ConfigurationTable
    freq,           \* static freq
    ticks,          \* CNTPCT_EL0
    now             \* what the clock said last

mem   == <<arena, tlsf, pool, born, refused>>
clock == <<freq, ticks, now>>
vars  == <<mem, held, phase, tables, clock>>

NULL == 0

Pointer == [arena : 1 .. MaxArenas, slot : Slots]

-----------------------------------------------------------------------------
(* uacpi_kernel.c *)

(* The first entry that has one of the two ACPI GUIDs and starts with      *)
(* "RSD PTR "; 0 stands for UACPI_STATUS_NOT_FOUND.                        *)
uacpi_kernel_get_rsdp ==
    LET hits == {i \in DOMAIN tables : tables[i].guid \in {"acpi", "acpi2"} /\ tables[i].rsdp}
    IN  IF hits = {} THEN 0 ELSE Min(hits)

\* mutant: the second init level makes an arena of its own
InitArenaAgain(ok) ==
    IF ok
    THEN /\ born < MaxArenas
         /\ born' = born + 1
         /\ pool' = pool \cup {born + 1}
         /\ arena' = born + 1 /\ tlsf' = born + 1
         /\ UNCHANGED refused
    ELSE UNCHANGED mem

(* ok is FALSE when AllocatePool fails.  tlsf_create_with_pool fails only  *)
(* for memory that is not aligned to 8 bytes, which AllocatePool never     *)
(* returns.                                                                *)
init_arena_once(ok) ==
    CASE tlsf # NULL       -> ok /\ UNCHANGED mem
      [] tlsf = NULL /\ ok -> /\ born < MaxArenas
                              /\ born' = born + 1
                              /\ pool' = pool \cup {born + 1}
                              /\ arena' = born + 1 /\ tlsf' = born + 1
                              /\ UNCHANGED refused
      [] OTHER             -> UNCHANGED mem

uacpi_kernel_initialize(ok) == init_arena_once(ok)

\* mutant: tlsf_destroy is taken to free the memory
DeinitializeKeepsPool(freed) ==
    /\ tlsf' = NULL
    /\ arena' = NULL
    /\ UNCHANGED <<pool, born, refused>>

(* freed is FALSE when FreePool fails: that is printed, and the arena is   *)
(* forgotten all the same.  FreePool(NULL), after a failed initialisation, *)
(* is refused and changes nothing.                                         *)
uacpi_kernel_deinitialize(freed) ==
    /\ tlsf' = NULL
    /\ IF freed
       THEN pool' = pool \ {arena} /\ UNCHANGED refused
       ELSE refused' = refused \cup ({arena} \ {NULL}) /\ UNCHANGED pool
    /\ arena' = NULL
    /\ UNCHANGED born

(* given holds the pointer that is returned; it is empty for NULL, which   *)
(* is the answer when ok is FALSE, when the heap is full, and to requests  *)
(* that are too large.  The heap is the one init_arena_once leaves.        *)
uacpi_kernel_alloc(ok, given) ==
    /\ init_arena_once(ok)
    /\ \A p \in given : ok /\ p \notin held /\ p.arena = tlsf'
    /\ held' = held \cup given

(* tlsf_free ignores NULL; any other pointer must be one of this heap.     *)
uacpi_kernel_free(p) == held' = held \ {p} /\ UNCHANGED mem

\* mutant: the counter is read into 32 of 64 bits
HalfWidth(f, t) == (((t % 2 ^ (WIDTH \div 2)) * NS) % 2 ^ WIDTH) \div f

Nanoseconds(f, t) == ((t * NS) % 2 ^ WIDTH) \div f

uacpi_kernel_get_nanoseconds_since_boot ==
    /\ freq' = IF freq = 0 THEN CNTFRQ ELSE freq
    /\ now' = Nanoseconds(freq', ticks)
    /\ UNCHANGED ticks

-----------------------------------------------------------------------------
(* The callers *)

Init ==
    /\ arena = NULL /\ tlsf = NULL /\ pool = {} /\ born = 0 /\ refused = {}
    /\ held = {}
    /\ phase = "off"
    /\ tables \in ConfigTables
    /\ freq = 0 /\ ticks = 0 /\ now = 0

(* uacpi_initialize, first half.  Without an arena it returns at once.     *)
InitializeEarly(ok) ==
    /\ phase = "off"
    /\ uacpi_kernel_initialize(ok)
    /\ phase' = IF ok THEN "early" ELSE "off"
    /\ UNCHANGED <<held, tables, clock>>

(* uacpi_initialize, second half: it looks for the RSDP and initialises    *)
(* the host again.                                                         *)
InitializeSubsystem(ok) ==
    /\ phase = "early"
    /\ uacpi_kernel_initialize(ok)
    /\ phase' = IF ok /\ uacpi_kernel_get_rsdp # 0 THEN "up" ELSE "reset"
    /\ UNCHANGED <<held, tables, clock>>

(* A call of uACPI to its host for memory.  Any call may be the one that   *)
(* fails and ends the phase; fix_dsdt resets uACPI then.                   *)
Allocate(ok, given) ==
    /\ phase \in {"early", "up", "loaded"}
    /\ uacpi_kernel_alloc(ok, given)
    /\ phase' \in IF given = {} THEN {phase, "reset"} ELSE {phase}
    /\ UNCHANGED <<tables, clock>>

Release(p) ==
    /\ phase # "off"
    /\ p \in held
    /\ uacpi_kernel_free(p)
    /\ UNCHANGED <<phase, tables, clock>>

(* uacpi_namespace_load                                                    *)
NamespaceLoad ==
    /\ phase = "up"
    /\ phase' \in {"loaded", "reset"}
    /\ UNCHANGED <<mem, held, tables, clock>>

(* The walk is over, and fix_dsdt calls uacpi_state_reset.                 *)
WalkDone ==
    /\ phase = "loaded"
    /\ phase' = "reset"
    /\ UNCHANGED <<mem, held, tables, clock>>

(* The end of uacpi_state_reset.  What uACPI has not freed is gone with    *)
(* the arena, and uACPI forgets it.                                        *)
StateReset(freed) ==
    /\ phase = "reset"
    /\ uacpi_kernel_deinitialize(freed)
    /\ held' = {}
    /\ phase' = "off"
    /\ UNCHANGED <<tables, clock>>

ReadClock ==
    /\ phase # "off"
    /\ uacpi_kernel_get_nanoseconds_since_boot
    /\ UNCHANGED <<mem, held, phase, tables>>

Tick ==
    /\ ticks < MaxTicks
    /\ ticks' = ticks + 1
    /\ UNCHANGED <<mem, held, phase, tables, freq, now>>

Next ==
    \/ \E ok \in BOOLEAN : InitializeEarly(ok)
    \/ \E ok \in BOOLEAN : InitializeSubsystem(ok)
    \/ \E ok \in BOOLEAN : Allocate(ok, {})
    \/ \E ok \in BOOLEAN, p \in Pointer : Allocate(ok, {p})
    \/ \E p \in Pointer : Release(p)
    \/ NamespaceLoad
    \/ WalkDone
    \/ \E freed \in BOOLEAN : StateReset(freed)
    \/ ReadClock
    \/ Tick

Spec == Init /\ [][Next]_vars

-----------------------------------------------------------------------------
(* Properties *)

(* Every variable holds a value of its type.                               *)
TypeOK ==
    /\ arena \in 0 .. MaxArenas /\ tlsf \in 0 .. MaxArenas
    /\ pool \subseteq 1 .. MaxArenas
    /\ born \in 0 .. MaxArenas /\ refused \subseteq pool
    /\ held \subseteq Pointer
    /\ phase \in {"off", "early", "up", "loaded", "reset"}
    /\ tables \in ConfigTables
    /\ freq \in {0, CNTFRQ} /\ ticks \in 0 .. MaxTicks /\ now \in Nat

(* The firmware's pool holds the arena the file knows of and those that    *)
(* FreePool did not take back, and no other: the 64 MiB are neither leaked *)
(* by a second initialisation or a failed one, nor kept by the program     *)
(* when fix_dsdt has returned.                                             *)
NoArenaLost ==
    /\ pool = ({arena} \ {NULL}) \cup refused
    /\ arena \notin refused
    /\ phase = "off" => arena = NULL

(* The heap handed to tlsf_malloc and tlsf_free lies in memory the program *)
(* owns, and every pointer uACPI may free lies in that heap: the on-demand *)
(* initialisation never replaces the heap below live pointers, and an      *)
(* arena that FreePool did not take back is not used again.                *)
HeapOutlivesPointers ==
    /\ tlsf # NULL => tlsf \in pool \ refused
    /\ \A p \in held : p.arena = tlsf

(* The clock never goes back, as the timeouts of the AML interpreter need, *)
(* before ticks * 1000000000 leaves its 64 bits (184 seconds at 100 MHz).  *)
ClockMonotone ==
    [][ticks' * NS < 2 ^ WIDTH => now' >= now]_vars
=============================================================================
