# A TLA+ model of d920s10

The repository holds tools that make operating systems boot on HiSilicon Hi1620
(Kunpeng 920) desktop boards: a UEFI application that corrects the ACPI tables
(`tablesfix`), a tool that patches the BL31 image in a flash dump (`patch_bl`),
and a tool that reads the flash (`readnor`). This directory models them in TLA+,
checks the models with TLC on small instances and proves the central properties
with TLAPS for all values of the constants.

## 1. The system

| Component | Source | State | Operations |
|---|---|---|---|
| main of tablesfix | `tablesfix.c` | `cpus`, `is_w510`, `has_*`; the firmware's list of ACPI tables | choose a resolution, read SMBIOS, scan the XSDT, uninstall PCCT, install DBG2 and SPCR, call `fix_dsdt`, chainload the boot manager |
| set_fhd | `tablesfix.c` | two running maxima | one pass over the GOP's modes, SetMode |
| fix_dsdt | `dsdt_fix.c` | lists `missing_hids`, `offline_ddrcs`; uACPI; an AML tree and a buffer | initialise and load uACPI, walk the devices, build, serialise and install an SSDT |
| memory map HOB | `hob.c`, `hob.h` | array `online_ddrcs_base` | find the HOB, list the online DDR controllers |
| AML serialiser | `aml.c`, `aml.h` | a tree, a buffer | `aml_node_size`, `aml_node_serialize` |
| patch_el3 | `patch_bl.c` | the buffer | find BL31, find room for the stub, patch every init sequence, copy the stub |
| main of patch_bl | `patch_bl.c` | input, output file | check, read, patch, write head, FIP and tail |
| uACPI glue | `uacpi_kernel.c` | the arena, the heap in it, the counter's frequency | create on demand, allocate, free, destroy; read the clock; find the RSDP |
| TLSF | `tlsf.c`, `tlsf.h` | block headers in the arena, bitmaps and heads of the free lists | malloc, memalign, realloc, free, add and remove pools |
| readnor | `readnor.c` | a file | read 16 MiB of flash in chunks and write them |

**Interaction.** `main` calls `set_fhd`, then `fix_dsdt`, which calls
`hob_get_online_ddrcs`, hands `dsdt_walker` to uACPI as a callback, and calls the
AML serialiser. What outlives a run is the firmware's list of ACPI tables: a
second run from the shell reads a list, and a namespace, that the first has
changed. uACPI gets its memory from `uacpi_kernel.c`, which cuts it from one arena
with TLSF; the calls of `fix_dsdt` decide when the arena comes and goes. `readnor`
and `patch_bl` are programs of their own, run one after the other: `readnor` makes
the dump, `main` of `patch_bl` calls `patch_el3` on a region of it; what outlives a
run is a file.

**What is hard.** All programs are single-threaded. Their difficulty is in the
environment and in repetition: each call to uACPI, `malloc`, the firmware or the
kernel can fail, and several results are ignored; the programs are started again
on what they left behind; two variables are read uninitialised on rare paths;
the allocator keeps its headers between, and partly inside, memory that its users
write to; names, lengths and branches go through encodings that another program (the AML
interpreter, the processor) undoes; two functions must agree about every length;
and a file is looked for long before it is created. `PROJECT.json` lists these
hazards with their lines and the properties that would notice them; a hazard without
one has a note that says why.

## 2. Modules

| Module | Models | Remarks |
|---|---|---|
| `Hob` | `hob_get_online_ddrcs` | operators only; addresses in units of 64 KiB |
| `DsdtContract` | what callers may rely on from `fix_dsdt` | abstract specification |
| `DsdtFix` | `fix_dsdt`, `dsdt_walker`, `crs_callback`, `devpath_list_append_...` | extends `Hob`; implements `DsdtContract` |
| `TablesFix` | `main`, `uinstall_pcct`, `install_dbg2`, `install_spcr`, `chainload_bootmgr` | uses `DsdtContract` in place of `fix_dsdt` |
| `SetFhd` | `set_fhd` | |
| `PatchEl3` | `patch_el3`, `search_pattern_in_buffer` | on real bytes |
| `Files` | the files of the two flash tools, as the pieces they were written from | operators only |
| `PatchFile` | `main` of `patch_bl.c` | extends `Files` |
| `ReadNor` | `main` of `readnor.c` | extends `Files` |
| `FlashTools` | `readnor`, then `patch_bl` on the dump | extends `PatchFile`, instantiates `ReadNor` |
| `UacpiKernel` | `uacpi_kernel.c` without its stubs | uACPI and the phases of `fix_dsdt` as callers |
| `TlsfMapping` | sizes, rounding and size classes of `tlsf.c` | operators only |
| `Tlsf` | every function of `tlsf.c` that changes memory | extends `TlsfMapping`; implements `HeapContract` |
| `TlsfInvariant` | no code: the inductive invariant of `Tlsf`, and what a call may be for the users | extends `Tlsf`, for `TlsfProofs` |
| `HeapContract` | what the users of an allocator rely on | abstract specification |
| `AmlPkg` | the PkgLength code of both functions of `aml.c` | operators only |
| `Aml` | `aml_node_size`, `aml_node_serialize` | extends `AmlPkg`; the size as a recursive function, the serialiser's recursion as a stack |
| `*Proofs` | theorems about the module they extend | `DsdtFixProofs` also holds those about `Hob`, `FlashToolsProofs` those about `PatchFile` and `ReadNor`, `AmlProofs` those about `AmlPkg`, `TlsfProofs` (over `TlsfInvariant`) those about `TlsfMapping` and `HeapContract` |
| `MC*` | instances for TLC | |

`PatchFile` and `FlashTools` have no MC module: their constants are numbers, given
in the `.cfg`.

A definition marked `\* mutant` is not part of a model: it is a plausible mistake
in the code, kept beside the definition it could replace. Each property is known to
be violated when the replacement listed in `PROJECT.json` is made.

### DsdtFix

One action per step that can fail. `Enter` is the start of the call with the HOB
lookup, whose return value is ignored. `Initialize`, `LoadNamespace` and their
failing versions are the two calls at the start. `WalkNode(d)` is one call of
`dsdt_walker`, whole: depth test, missing `_HID`, `_STA`, `_CRS`, comparison with
the array, and the two possible appends. `WalkBadNode` is the path on which `info`
is never assigned: the outcome is a choice between "the stack held NULL" and a
crash. A `_CRS` without an Address64 descriptor leaves `addr` open (`CrsBases`).
`WalkDone` resets uACPI and decides whether there is work; `Build`, `Install` and
`InstallFails` do the rest. A `malloc` of the build that fails is either used all the
same (`BuildCrashes`) or was that of a data node, which both functions of `aml.c` leave
out (`BuildWithoutNodes`): the table is installed with Scopes that lack their name or
their object. These have no effect, the others do; `gone` says which, and `lost` has
the devices they were for. What an interpreter does behind a Scope without a name is
not defined, and it may give up there, so any set of Scopes may be gone.

Names are records `[prefix, count, segs]`, encoded from a path and `(uint8_t)depth`
as the code does and decoded as an AML interpreter does; what a table does to a
device is always determined through `DecodeName`, never from what was intended. An
SSDT can add a `_STA` or `_HID`, but does not replace one of the firmware's.

Abstracted: the table header, the text of the HID (its number is the index in the
list), printing (including the absolute path made for it), and the bytes of the
tree, which `Aml` looks at. The `ret < 0` path of `aml_node_serialize` cannot be
taken: every opcode of the tree is implemented. The entries of the two lists are
never freed by the code; the model does not count that memory.

### TablesFix

`Start` is the entry of `main`; each stage has one action for every line of output
it may end with: `skipped`, `ok`, `failed`. `report` is that output. `CountCpu`,
`CpusDone` and `CpusFail` are the loop over SMBIOS type 4; `cpus` is a `uint8_t` that
wraps, `seen` the place in the list of records. `CallDsdt` and
`DsdtReturns` are the corresponding actions of the contract joined with `main`'s own
state. A table is a record of its signature and of who made it, `by`: its place in the
firmware's list, or 0 for the application's own; that is how a property tells the
firmware's DBG2 from an installed one. `Restart` gives back the firmware's tables. `ScanFails` is the error of
`GetAcpiTable` that `uinstall_pcct` takes for the end of the list; the history
variable `misread` remembers it, as `miscounted` does for SMBIOS.

### Tlsf

The memory is a function from word addresses to numbers, and a block header is
where the code puts it: `prev_phys_block` in the last word of the data of the block
before, the links of a free list in the first two words of the block's own data,
two flags in the low bits of the size word. Each C function that changes memory is
an operator from heap to heap with the same name and the same order of stores; the
public functions are the actions. `control_t` is a record of bitmaps (as sets) and
list heads; only its `block_null`, to which the code really writes, has addresses.

Users fill what they are given with `Data`, a value that looks like a size word
with both flags set. Words on which neither a user nor a valid header field relies
(`Needed`) may have any value of `Garbage` after each call, all of them the same:
they contain old headers and old data, and the code must not care which. That
replaces the history of a word by a choice, which makes the state space small, and
it is what would expose a header field that is read while it is not valid.
`tlsf_check` and `tlsf_check_pool`, the debugging functions of the source, are used
in the invariant `HeapSound`; its assertions are compiled out (`tlsf.c:5`).

### UacpiKernel

The actions in the first half are the functions of `uacpi_kernel.c`; those in the
second are its callers, in the order in which uACPI's initialisation (twice, one
per init level), its use by `fix_dsdt` and its reset can happen. Any allocation may
be the one that fails, and so may `FreePool`, whose failure is printed and forgotten:
`refused` remembers the arenas that the firmware did not take back. `NoArenaLost` does
not hold these against the code. uACPI allocates only while it is initialised
(`Allocate`), because it makes no call of the glue between its reset and the next
initialisation. Which part of an arena a pointer names is left to `Tlsf`.

### SetFhd, PatchEl3, PatchFile, ReadNor, Aml

`SetFhd` takes one action per round of the loop. `PatchEl3` keeps the patterns, the
stub and the message that makes room for it byte for byte. The header is a record:
whether the magic is right, and the table of contents. Every round of the `while`
loop is an action; `CallAgain` calls `patch_el3` again on its own output.
`PatchFile` uses the real offsets (0xba0000 and 0x100000); a file is a list of
pieces `[src, at, from, len]`, len bytes at offset `at` that `src` has at offset
`from`, so that a misplaced or missing piece shows. `ReadNor`
appends a piece per chunk, of full length or one byte short, because `main` does not
look at what `fwrite` returns. In `FlashTools` the dump, whole or not, replaces the
input of `patch_bl`; a `readnor` that cannot start leaves it alone (`CannotDump`).

In `Aml` a tree is the sequence of its nodes, root first; a child is the number of a
node behind its parent, or `NULL` where an allocation failed, and `aml_node_size` is a
recursive function on these numbers. The calls of `aml_node_serialize` that are active
are a stack, and each write is recorded as a chunk with its place and the depth of the
call that made it. `NodeHead` is the part of a call in front of its loop, `NextChild`
one round of the loop. The errors for an opcode that is not implemented and the second
byte of a two-byte opcode are left out: no tree has such a node.

## 3. Runs

All passing runs finish in less than two minutes with two workers.

| Run | Instance | Shows |
|---|---|---|
| `dsdt_failures` | 4 devices, 2 sockets x 2 channels x 2 DIMMs, 4 HOB lists, 2 calls per boot, all failures; 257 171 states | `DisablesOnlyOffline`, `HidOnlyOnce`, `CompleteFix`, `ResourcesReleased`, and the refinement of `DsdtContract`, crashes, restarts and tables with missing nodes included |
| `dsdt_repeat` | more kinds of controllers, 3 calls per boot, no failure of malloc or of the walk, fair | `HidUnique`, `OneSsdtPerBoot`, also when installs failed; each call ends |
| `tables` | 11 machines, 4 table lists, 3 runs per boot, all failures, fair; 623 512 states | only intended tables change; output is truthful; a failed stage costs no other its fix, nor the boot manager; a clean run is final; outside `fix_dsdt` every run ends |
| `set_fhd` | all lists of up to 4 modes of 7 kinds | the best mode is chosen |
| `patch_el3` | 29 packages, 2 calls, fair | every site calls the stub, nothing else changes |
| `flash_tools` | 8 input sizes at the boundaries or a dump, 2 runs of `readnor`, 3 of `patch_bl`, another writer, fair; 113 519 states | success of both means an image of the whole flash; success of `patch_bl` means complete; what an earlier run left is not written to |
| `uacpi_kernel` | 3 firmware tables, 3 arenas of 2 blocks, AllocatePool fails at will, a clock of 7 bits | no arena is lost; the heap is not replaced below live pointers; time does not go back before the overflow |
| `tlsf` | 224 bytes with the control structure and a pool of 40, 4 classes per level, up to 3 blocks in use, sizes 0, 1, 64, 72 and 1016, which is too large, alignment 32, a `size_t` of 10 bits; 11 646 states | headers, lists and bitmaps agree; requests are refused only when nothing fits; the refinement of `HeapContract` |
| `aml` | 465 trees of up to five list entries, packages on both sides of 63 and 4094, missing nodes; 30 554 states | the buffer is filled exactly; packages nest |

**Bounds.** `MaxRuns` (calls before a restart, two or three) is enough for a call
to meet the tables of two earlier ones, which is what repetition can change: a
further call sees nothing new. The device `deep` is 258 segments deep, so that its
path cut to `(uint8_t)258 = 2` is another device's. Two sockets and channels make
every mix of online and offline slots; the theorems cover the rest. Input sizes of
`flash_tools` lie on and around each offset the code uses, except for the one that
`patch_file_short` is about. In `patch_el3` the message lies at each of the four
alignments with sites before and behind it, so that branch offsets have both
signs. `MaxScan` is 3 instead of the
code's 256, so that one of the table lists is longer. `Uint8Values` is 4 instead of
256, so that the count of a machine with five processors wraps to 1. `CHUNK` is 2 MiB instead of
4096 bytes, so that a dump has 8 pieces; both divide the flash. The clock has
`NS` 10, `CNTFRQ` 3 and 7 bits instead of 10^9, the board's frequency and 64: the
counter runs past the overflow in both. `tlsf` has two bits per second level
instead of five, 8 first-level bits instead of 32 and 10 bits in a `size_t` instead of
64: sizes below and above
`SMALL_BLOCK_SIZE` (32) occur, rounding up changes the class for 72 but not for
64, blocks are split, merged with either neighbour and with both, and an aligned block
has a gap that is too small at first. Memory failures are left out of
`dsdt_repeat` because `HidUnique` does not hold with them: a device lost in one call
to a failed `malloc` receives the number 1 in the next one.

**Runs that end in a violation** show where the code does not do what its own
comments or messages say; each is a finding in `PROJECT.json`:

| Run | Disagreement |
|---|---|
| `dsdt_bad_node` | "skip bad node", but an unassigned `info` is freed |
| `patch_el3_no_sites` | "Init pattern not found", then success is returned |
| `patch_file_short` | success for an input one byte too short: -1 equals -1 |

**Fairness.** `WF_vars(Step)` in `DsdtFix` and `PatchEl3`, `WF_vars(MainStep)` in
`TablesFix`, and on `patch_bl`'s steps in `FlashTools`:
a single thread that has been started executes its next statement, and none of the
calls it makes blocks for ever. Starting a program, a restart and other programs
are never forced. `fix_dsdt` may crash instead of returning (the first finding above).
`MainStep` therefore leaves its return out, and `Terminates` of `TablesFix` says that
`main` comes to the shell, to the boot manager or to `fix_dsdt`, and again to one of the
first two when that has returned; in `dsdt_repeat`, where every call has to end, the
walk does not fail. Deadlock is checked in all runs; a program that has ended
stutters in `Over` where nothing else can happen.

## 4. Proofs

| Theorem | Statement |
|---|---|
| `DsdtFixProofs!OnlineArrayExact` | an address is found in the array iff it is the base of a channel with an enabled DIMM |
| `DsdtFixProofs!TypeCorrect` | types |
| `DsdtFixProofs!OnlyOfflineDisabled` | `[]DisablesOnlyOffline` |
| `DsdtFixProofs!HidGivenOnce` | `[]HidOnlyOnce` |
| `DsdtFixProofs!ReleasedOnReturn` | `[]ResourcesReleased` |
| `DsdtFixProofs!ImplementsContract` | `DsdtFix` implements `DsdtContract` |
| `DsdtFixProofs!NothingLeftOut` | `[]CompleteFix` |
| `DsdtFixProofs!NumbersNotReused` | `[]HidUnique`, while `malloc` and uACPI do not fail |
| `DsdtFixProofs!SecondCallInstallsNothing` | `[]OneSsdtPerBoot`, under the same condition |
| `SetFhdProofs!SetsBestMode` | `[]BestModeSet` |
| `SetFhdProofs!GivesUpOnlyWithoutModesHolds` | `[]GivesUpOnlyWithoutModes` |
| `PatchEl3Proofs!TypeCorrect` | types |
| `PatchEl3Proofs!ChangesOnlyIntendedBytes` | `[]OnlyIntendedBytes` |
| `PatchEl3Proofs!EverySiteIsPatched` | `[]EverySiteCallsStub` |
| `PatchEl3Proofs!FailureKeepsBuffer` | `[]FailureChangesNothing` |
| `PatchEl3Proofs!PatchedOnce` | `[]SecondCallRefused` |
| `TablesFixProofs!TypesKept` | types |
| `TablesFixProofs!OnlyPcctRemoved` | `[]FirmwareTablesKept` |
| `TablesFixProofs!PcctOkIsTrue` | `[]PcctFoundWhereverItIs` |
| `TablesFixProofs!CleanRunIsFinal` | `Converges` |
| `TablesFixProofs!PcctKeptOnManyCpus` | `[]PcctOnlyOnSingleCpu` |
| `TablesFixProofs!NoSecondSerialTable` | `[]NoDuplicateTables` |
| `TablesFixProofs!ReportsStayTrue` | `[]ReportsTruthful` |
| `TablesFixProofs!OneFailureOneFix` | `[]FailuresStayLocal` |
| `FlashToolsProofs!EarlierOutputKept` | `NeverOverwrites` |
| `FlashToolsProofs!SuccessIsComplete` | `[]SuccessMeansComplete`, for every size of the input but `HEAD + BUF - 1` |
| `FlashToolsProofs!ImageIsOfFlash` | `[]ImageOfFlash` |
| `FlashToolsProofs!ToolsSafe` | the first two also when the input is a dump that `readnor` has made |
| `UacpiKernelProofs!ArenaAccounted` | `[]NoArenaLost` |
| `UacpiKernelProofs!PointersStayValid` | `[]HeapOutlivesPointers` |
| `UacpiKernelProofs!ClockNeverGoesBack` | `ClockMonotone` |
| `TlsfProofs!HeapInvariant` | `[]IInv`, the inductive invariant of `TlsfInvariant` |
| `TlsfProofs!HeapStaysSound` | `[]HeapSound` |
| `TlsfProofs!RefusalsAreJustified` | `[]RefusesOnlyWhenFull` |
| `TlsfProofs!HeapKeepsItsContract` | `ImplementsHeap`, the refinement of `HeapContract` |
| `TlsfProofs!GoodFit` | in a sound heap the block found for a request is a free one and at least as large, for every size but the `ALIGN_SIZE - 1` largest (`Requests`) |
| `TlsfProofs!SoundHeapRefusesOnlyWhenFull` | `HeapSound => RefusesOnlyWhenFull` |
| `TlsfProofs!BlocksNeverOverlap` | with any allocator that keeps the contract, blocks are aligned, share no word and lie in memory it was given |
| `AmlProofs!PkgLengthAgrees` | size and bytes of a PkgLength agree and decode to the length |
| `AmlProofs!SerialiserTilesBuffer` | `[]TilesBuffer` |
| `AmlProofs!SerialiserNestsPackages` | `[]PackagesNest` |

**Assumptions.** At most 4 sockets (the code aborts otherwise) and 2048 channels,
so that the controllers of two sockets do not overlap; paths of devices are
distinct and not empty; modes whose pixel product fits 32 bits; a table of contents
that describes files inside the buffer, not shorter than the message, in a buffer of
at most 128 MiB (the code checks none of this; the buffer has 1 MiB). `CHUNK` divides
`FLASH`, and the FIP region lies inside the flash (4096, 16 MiB, and 0xba0000 +
0x100000 in the code). `2 ^ WIDTH` is a positive number: the provers know nothing of
powers, TLC evaluates it. The tree given to the serialiser is one (`IsTree`: children
have larger numbers than their parent, and only the root is a ROOT), and its size is
below 2^28, the limit of a PkgLength; the code has no test for it, but its lists would
need millions of entries. The tables of a firmware list carry their places, which only
names them. The arena and the second pool of the allocator are aligned, whole numbers
of words, disjoint, and large enough for their headers, alignments are powers of two,
and no pool has exactly `block_size_max` bytes (`TlsfMemory`; see Not modelled). A
`size_t` has at least two bits more than a block size (64 and 32, or 32 and 30), so
that what `tlsf_memalign` adds up does not wrap, and requests are sizes that `align_up`
does not wrap either (`Requests`).

`NumbersNotReused` and `SecondCallInstallsNothing` have `~AllocFails` and `~UacpiFails` as
hypotheses, because they are false without them (see Bounds). `SuccessIsComplete`
leaves out the one size for which it is false, which is the finding
`patch_file_short`.

**Arguments.** `DsdtFix`: the safety properties speak of installed tables, which
are written from the lists long after the decision was made. `IndInv` therefore
carries the decision along: `OnlineFromHob` (the array is what the HOB says),
`ListsSafe` (each name on a list decodes to a device that may be named there and has
no `_HID` yet) and `TablesSafe`; `HeldWhere` ties uACPI and the buffers to `pc`. The
step that makes it work is `NameRoundTrip`: between 2 and 255 segments decoding
undoes encoding. The refinement needs the same invariant: `Install` is
`ReturnFixed` because of `ListsSafe`, all other steps stutter or are `Call`,
`ReturnUnchanged` or `Restart`.

`CompleteFix` is about devices that are on no list. `WalkCovers` says that a device
which the walk has visited, and which no failure made it lose, is fixed or is on the
list that will fix it, from its visit to the installation, and that a device whose
Scope is gone was counted as lost (`BuiltTargets` compares the lists with what the
table does). `FirstFixesAll` follows
for the first SSDT when nothing fails: it leaves no device to give a number to, so
that a second call numbers nothing, and whatever it lists is a controller that no
SSDT can settle (`OnlyStubbornAgain`).

`TablesFix`: the properties count tables in a list that three kinds of steps change;
`TableSteps` names them, and `CountAppend` and `CountRemoveAt` say what they do to a
count. `Counted` carries the processors from the SMBIOS loop to the PCCT, `FlagsTrue`
the scan of the XSDT to the stage that relies on it (a flag that is not set means
that the table is still missing, although the PCCT and DBG2 stages have changed the
list in between), `Truthful` and `StagesDone` the reports to the end of `main`.
`PcctPlaced` bounds the place of the PCCT by the length of the firmware's list, because
`main` only appends; a scan that reaches its end has therefore looked at it. For
`Converges` the invariant says what a run without failure leaves (`AllSettled`) and that
the flags of every later run are those of the list it finds (`FlagsExact`), so that
none of the three steps that change the list is enabled. `FailuresStayLocal`
takes from `FlagsExact` that a flag which was not set truly means a missing table, carries
the outcome of each stage past the failures of the others (`PcctGone`, `StagesSettled`),
and has `StagesDone` for what `main` has been through when it returns.

`PatchFile`: between the test for the output file and its creation a file of that
name can only be another program's, and while `main` writes, the file is its own. A
write extends the file where its last piece ends, so pieces tile the file; `Progress`
says for each `pc` which part of the input the file is by then. `FlashTools` adds
`DumpInv`: while no write was cut short, the dump is the flash up to `offset`, and
`patch_bl`'s input has the size of the dump while `readnor` runs and after a run of it
that succeeded. `readnor` runs before `patch_bl`, any
number of times, and its steps leave the variables of `Progress` but `size` alone.

`UacpiKernel`: `arena` and `tlsf` are set and cleared together, and they are NULL
exactly while uACPI is not initialised; so an allocation never finds the heap
missing, and the one place that creates an arena never runs while one is live. The
clock: `now` is behind what the counter would give (`Behind`); products and quotients
grow with the counter as long as the product fits.

`Aml`: the proof starts with what the recursive definitions compute. The provers
cannot use the library's induction theorems, which take an operator, but the existence
of a least element (`WFMin`) gives induction for a set (`SetInduction`); with it sums of
prefixes and sizes of nodes exist and satisfy their equations for every tree. `AmlInv`
then describes the stack as a path in the tree: each call's node is the child its caller
is at, and `Begin` and `End` of a call, computed from sizes alone, lie inside those of its
caller. `Tiled` says that the chunks fill the buffer up to the place of the innermost
call. For the packages, the chunk with the length of a package belongs either to an
active call and ends where that call's node ends (`Open`), or it is closed, and the chunks
below it in the tree are exactly those in front of its end (`Closed`); popping a call
turns the one into the other. `PkgLengthAgrees` is what makes the end that an interpreter
computes the `End` of the call.

`Tlsf`: `Pow2` is a recursive function, so what it computes is proved first
(`Pow2Def`, `Pow2Sum`), and from it that `tlsf_fls_sizet` is the place of the highest
bit. The classes are ordered as the bitmaps are searched (`NotBefore`); `mapping_insert`
respects that order (`InsertMono`), and rounding up before the search makes every block
of the class found large enough (`SearchLargeEnough`) and leaves out no block that is
larger than the rounded request (`SearchSkipsNothing`). In a sound heap a bit that is
set stands for a free block of its class and a free block for a bit that is set, which
gives `GoodFit` and `SoundHeapRefusesOnlyWhenFull`. `BlocksApart` of `HeapContract` is inductive by itself: a step
places or moves one block next to blocks it leaves alone.

`HeapSound` is stated by walks through memory, and no step can be compared with a
walk. The invariant `IInv` (`TlsfInvariant`) says instead that there are blocks `S`
with sizes `z`, of which `Fr` are free, and that the memory describes them: they tile
the pools (`Chain`); each header has its size and its two flags, and the word behind a
free block its address (`Rep`); the free ones are doubly linked in the list of their
class, with a number that grows along each list, so that there is no cycle, and the
bitmaps belong to the heads (`Lists`); no two neighbours are free (`Coalesced`); and
the users hold exactly the others, large enough and aligned (`Users`). Inside a call a
free block may be in no list yet (`ListState` with `F` smaller than `Fr`, `Loose`).

The proof goes up through the source. Words and flags come first (`PutFacts` to
`SetSize`); then where the words of headers, links and users lie and that they are
apart (`HeadApart`, `TailApart`, `LinkApart`, `OwnApart`), so that a store leaves alone
what it should (`LinkFrame`, `MetaFrame`); the chain under split, absorb and changes of
pools (`ChainSplit` to `ChainRemovePool`); the lists (`Remove`, `Insert`); one lemma for
each function (`TrimFree`, `TrimLeading`, `PrepareUsed`, `Rejoin`, `MergePrev`,
`FreeBlock`, `TrimUsed`, `GrowUsed`, `Locate`, `MallocGives`, `MemalignGives`,
`AddsPool`); and one for each call (`GivenStep`, `ReleasedStep`, `MovedStep`,
`StaysStep`, `AddPoolStep`, `RemovePoolStep`). Each also says that the words of the
users it does not serve are unchanged; `UserStep` collects that, and `UserStepRefines`
turns it into a step of `HeapContract`. No two blocks share a place for a header, so a
walk that stays among blocks ends (`BlocksBound`, `WalkEnds`), and the walks of
`HeapSound` find exactly `S` and the lists (`StateIsSound`).

`SetFhd`: the two maxima are those of the modes seen so far.

`PatchEl3`: while the loop runs, a changed byte belongs to a BL inside an init
sequence of the original whose first byte is still there (`ChangesAreBls`), each
original sequence either still matches or has its BL (`SitesHandled`), and the stub
lies inside the message (`StubInMessage`). No byte of the pattern looks like the last
byte of a BL, 0xff occurs in it once only, and it shares no byte with the message;
so sequences do not overlap each other or the message, and a patch neither creates
nor damages another one. `BlRoundTrip` shows that the processor's reading of the
encoded branch is the address of the stub for offsets of both signs. For
`SecondCallRefused` the only copy of the message has to be gone after the first call
and must not come back (`RefusedAgain`). 38 bytes in a row that take in a byte of the
stub or of a BL also take in one that is no character of the message (a BL has its
opcode byte, and the first byte of the init sequence in front of it); so a message that
is left over was one before, at another place.

**Only model-checked.** Liveness (`Terminates` of four modules): fairness is outside
the prover's reach. `IInv` of `TlsfInvariant` is only proved: TLC cannot enumerate the
sets and functions it says exist, and checks `HeapSound` instead, which finds them by
walking.

## 5. Not modelled

- The functions of `uacpi_kernel.c` that keep no state: register, port and PCI
  access, stalls, and the stubs for locks, events, interrupts and deferred work.
- `aml_test.c`, `definitions.h`, the static contents of DBG2 and SPCR, the printing of
  SMBIOS strings (`dmi_string`), `aml_free_node` other than as a step of `fix_dsdt`.
- The submodules uACPI and posix-uefi and the firmware, which are external.
- Memory reached through malformed firmware structures (a HOB of length 0, a FIP
  entry outside the buffer), excluded by assumption.
- `tlsf_realloc` to a size that `adjust_request_size` refuses. The code does not test
  for its answer 0 there and would shrink the block to nothing; no caller in this
  repository uses `tlsf_realloc`. A pool of exactly `block_size_max` bytes would
  need one more first level than `control_t` has; the arena has 64 MiB.
- Requests of the seven largest values of a `size_t`. `align_up` wraps them to 0
  (`tlsf.c:477`), which `adjust_request_size` takes for a small size, so that `malloc`
  returns a block of 24 bytes instead of NULL. `align_up` and `adjust_request_size` of
  `TlsfMapping` do the same, but `Requests` leaves these sizes out.

Some behaviours are in the models, but the properties that come near make an exception
for them, because the code does allow them and no text of the repository says what
should happen instead:

- a `_CRS` without an Address64 descriptor leaves `addr` as it was, so that a controller
  may pass for online or for offline (`CrsBases`, `crs = "ok"` in the properties);
- on a Hi1620 without a memory map HOB every controller counts as offline
  (`HasMemoryMap`);
- a build phase that runs out of memory dereferences NULL (`BuildCrashes`);
- an SMBIOS error ends the count of processors like the end of the records (`CpusFail`,
  `miscounted`), and 257 records count as one;
- a `GetAcpiTable` error ends the search for the PCCT like the end of the list
  (`ScanFails`, `misread`);
- without a readable XSDT every run installs another DBG2 and SPCR (`Readable`);
- a file that another program creates while `patch_bl` sleeps is overwritten
  (`OtherCreates`);
- a write of `readnor` that is cut short goes unnoticed (`short`);
- the nanosecond clock goes back when its product overflows (`ClockMonotone`).

## 6. Plan

Done: the modules and proofs above; every safety property of the runs has a proof.
Left, should the code change: a test of the table of contents in `patch_bl.c` and of
the size in `tlsf_realloc` would allow the assumptions that stand for them to go.
