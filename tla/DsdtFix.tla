------------------------------ MODULE DsdtFix ------------------------------
(***************************************************************************)
(* dsdt_fix.c: fix_dsdt loads the firmware's ACPI namespace into uACPI,    *)
(* walks its devices, and installs one SSDT that                           *)
(*   - gives a _HID "DIXYnnnn" to every device with neither _HID nor _ADR, *)
(*   - gives _STA = 0 to every DDR controller (HISI0233) that the firmware *)
(*     did not bring up according to the memory map HOB (module Hob).      *)
(*                                                                         *)
(* fix_dsdt is sequential.  What makes it interesting is its environment:  *)
(* every call to uACPI, malloc and the firmware can fail, the program is   *)
(* run again on a machine whose tables already hold the SSDTs of earlier   *)
(* runs, and names travel through an encoding the AML interpreter undoes.  *)
(*                                                                         *)
(* uACPI, malloc and the firmware are external: they are modelled by what  *)
(* fix_dsdt sees of them.                                                  *)
(***************************************************************************)
EXTENDS Hob, FiniteSets

CONSTANTS
    Device,         \* Device objects of the namespace
    Path,           \* absolute path of a device, a sequence of name segments
    Namespaces,     \* the namespaces the firmware may describe
    HobEnvs,        \* the HOB lists the firmware may leave
    AllocFails,     \* TRUE: malloc may return NULL
    UacpiFails,     \* TRUE: uACPI may fail on a node, or give up the walk
    MaxRuns         \* bound: how often fix_dsdt is called before a reboot

(* What the firmware's tables say of a device: its _HID, whether it has an *)
(* _ADR, what its _STA evaluates to, and whether its _CRS can be evaluated *)
(* and holds an Address64 descriptor (minimum: addr).                      *)
Attr == [hid : {"none", "HISI0233", "other"}, adr : BOOLEAN,
         sta : {"absent", "zero", "nonzero", "error"},
         crs : {"ok", "noaddr", "error"}, addr : Nat]

ASSUME DsdtConstants ==
    /\ Namespaces \subseteq [Device -> Attr]
    /\ HobEnvs \subseteq HobEnv
    /\ AllocFails \in BOOLEAN
    /\ UacpiFails \in BOOLEAN
    /\ MaxRuns \in Nat
    /\ IsFiniteSet(Device)

(* Two namespace nodes never have the same absolute path.                  *)
ASSUME PathAssumption ==
    /\ \A d \in Device : Path[d] \in Seq(STRING) /\ Len(Path[d]) > 0
    /\ \A d, e \in Device : Path[d] = Path[e] => d = e

VARIABLES
    ns,             \* the firmware's own description of every device
    hi1620,         \* midr_el1 names a HiSilicon Hi1620
    hob,            \* the HOB list
    ssdts,          \* SSDTs installed by fix_dsdt, oldest first
    pc,             \* where fix_dsdt is; "idle" when it is not running
    uacpi,          \* uACPI's own state: "up" between initialize and reset
    online,         \* data.online_ddrcs_base
    todo,           \* devices the walk has still to visit
    missing_hids,   \* data.missing_hids
    offline_ddrcs,  \* data.offline_ddrcs
    tree,           \* the aml_node tree: "none" or "held"
    gone,           \* Scopes of the tree that lack a data node
    buffer,         \* ssdt_buffer: "none" or "held"
    result,         \* what the last call returned
    lost,           \* history: devices a failure made the last call leave out
    runs            \* number of calls since the machine was started

env    == <<ns, hi1620, hob>>
locals == <<online, todo, missing_hids, offline_ddrcs>>
vars   == <<env, ssdts, pc, uacpi, locals, tree, gone, buffer, result, lost, runs>>

-----------------------------------------------------------------------------
(* Names.  A list entry is an AML NameString: '\', a DualNamePrefix or a   *)
(* MultiNamePrefix with a segment count of one byte, and the segments.     *)

depth(d) == Len(Path[d])

\* (uint8_t)depth, as devpath_list_append_uacpi_object_names receives it
ByteOf(n) == n % 256

EncodeName(names, n) ==
    IF n = 2
    THEN [prefix |-> "dual", count |-> 2, segs |-> SubSeq(names, 1, 2)]
    ELSE [prefix |-> "multi", count |-> n, segs |-> SubSeq(names, 1, n)]

NameOf(d) == EncodeName(Path[d], ByteOf(depth(d)))

Name == [prefix : {"dual", "multi"}, count : 0 .. 255, segs : Seq(STRING)]

(* The AML interpreter's side: a dual name has two segments, a multi name  *)
(* as many as its count byte says.                                         *)
DecodeName(n) ==
    IF n.prefix = "dual" THEN SubSeq(n.segs, 1, 2)
                         ELSE SubSeq(n.segs, 1, n.count)

Targets(name) == {d \in Device : Path[d] = DecodeName(name)}

(* An installed SSDT has a Scope for every entry of the two lists: hid[i]  *)
(* receives the _HID "DIXY" with number i, sta[i] a _STA of 0.  The Scopes *)
(* with a number in gone have no effect.                                   *)
Gone     == [hid : SUBSET Nat, sta : SUBSET Nat]
NoneGone == [hid |-> {}, sta |-> {}]

Ssdt == [hid : Seq(Name), sta : Seq(Name), gone : Gone]

Names(list) == {list[i] : i \in DOMAIN list}

ListTargets(list) == UNION {Targets(n) : n \in Names(list)}

(* The devices that table t gives a _HID or a _STA.                        *)
HidTargets(t) == UNION {Targets(t.hid[i]) : i \in DOMAIN t.hid \ t.gone.hid}
StaTargets(t) == UNION {Targets(t.sta[i]) : i \in DOMAIN t.sta \ t.gone.sta}

GivenHid(d) == \E i \in DOMAIN ssdts : d \in HidTargets(ssdts[i])
GivenSta(d) == \E i \in DOMAIN ssdts : d \in StaTargets(ssdts[i])

-----------------------------------------------------------------------------
(* The namespace as uACPI presents it: the firmware's tables, and on top   *)
(* of them the SSDTs already installed.  A Name that exists already keeps  *)
(* its first definition, so an SSDT cannot replace a firmware _STA.        *)

\* mutant: the SSDTs installed before are not looked at
HasHidInDsdt(d) == ns[d].hid # "none"

HasHid(d) == ns[d].hid # "none" \/ GivenHid(d)

\* mutant: the test for a controller already disabled is missing
StaNotTested(d) == FALSE

StaIsZero(d) == \/ ns[d].sta = "zero"
                \/ ns[d].sta = "absent" /\ GivenSta(d)

(* The base address crs_callback leaves in addr: the minimum of the first  *)
(* Address64 descriptor.  Without one, addr keeps whatever the stack held, *)
(* in particular the base of a controller visited before.                  *)
CrsBases(d) == IF ns[d].crs = "noaddr" THEN Bases \cup {0} ELSE {ns[d].addr}

\* mutant: the loop over the array stops one slot early
IsOnlineShort(a) ==
    \E i \in 0 .. MAX_SOCKET * MAX_CHANNEL - 2 : online[i] # 0 /\ online[i] = a

IsOnline(a) == \E i \in Slots : online[i] # 0 /\ online[i] = a

\* mutant: no upper limit on the depth
DepthAtLeast2(d) == depth(d) >= 2

DepthOk(d) == depth(d) \in 2 .. 255

NeedsHid(d) == DepthOk(d) /\ ~ HasHid(d) /\ ~ ns[d].adr

(* What dsdt_walker records as offline when _CRS yields base a.            *)
RecordsOffline(d, a) ==
    /\ DepthOk(d)
    /\ HasHid(d) /\ ~ StaIsZero(d)
    /\ ns[d].hid = "HISI0233"
    /\ ns[d].crs # "error"
    /\ ~ IsOnline(a)

(* devpath_list_append_uacpi_object_names: when one of its two allocations *)
(* fails the list is returned as it was.                                   *)
Appended(list, d) ==
    {Append(list, NameOf(d))} \cup (IF AllocFails THEN {list} ELSE {})

-----------------------------------------------------------------------------
Init ==
    /\ ns \in Namespaces
    /\ hi1620 \in BOOLEAN
    /\ hob \in HobEnvs
    /\ ssdts = <<>>
    /\ pc = "idle"
    /\ uacpi = "down"
    /\ online = NoDdrcs
    /\ todo = {}
    /\ missing_hids = <<>>
    /\ offline_ddrcs = <<>>
    /\ tree = "none"
    /\ gone = NoneGone
    /\ buffer = "none"
    /\ result = 0
    /\ lost = {}
    /\ runs = 0

(* fix_dsdt is called: hob_get_online_ddrcs runs only on a Hi1620, and its *)
(* return value is ignored.                                                *)
Enter ==
    /\ pc = "idle"
    /\ runs < MaxRuns
    /\ runs' = runs + 1
    /\ online' = IF hi1620 THEN hob_get_online_ddrcs(hob) ELSE NoDdrcs
    /\ lost' = {}
    /\ pc' = "initialize"
    /\ UNCHANGED <<env, ssdts, uacpi, todo, missing_hids, offline_ddrcs,
                   tree, gone, buffer, result>>

(* return r: the locals of the call are gone.                              *)
Return(r) ==
    /\ pc' = "idle"
    /\ result' = r
    /\ online' = NoDdrcs
    /\ todo' = {}
    /\ missing_hids' = <<>>
    /\ offline_ddrcs' = <<>>

Initialize ==
    /\ pc = "initialize"
    /\ pc' = "load"
    /\ uacpi' = "up"
    /\ UNCHANGED <<env, ssdts, locals, tree, gone, buffer, result, lost, runs>>

InitializeFails ==
    /\ pc = "initialize"
    /\ Return(1)
    /\ UNCHANGED <<env, ssdts, uacpi, tree, gone, buffer, lost, runs>>

LoadNamespace ==
    /\ pc = "load"
    /\ pc' = "walk"
    /\ todo' = Device
    /\ UNCHANGED <<env, ssdts, uacpi, online, missing_hids, offline_ddrcs,
                   tree, gone, buffer, result, lost, runs>>

\* mutant: uACPI is not reset on this error path
LoadFailsNoReset ==
    /\ pc = "load"
    /\ Return(1)
    /\ UNCHANGED <<env, ssdts, uacpi, tree, gone, buffer, lost, runs>>

\* mutant: a failed load is tried again from the start
LoadFailsRetry ==
    /\ pc = "load"
    /\ uacpi' = "down"
    /\ pc' = "initialize"
    /\ UNCHANGED <<env, ssdts, locals, tree, gone, buffer, result, lost, runs>>

LoadNamespaceFails ==
    /\ pc = "load"
    /\ uacpi' = "down"
    /\ Return(1)
    /\ UNCHANGED <<env, ssdts, tree, gone, buffer, lost, runs>>

(* dsdt_walker on a node whose info could be read.  The order of the walk  *)
(* is left open.                                                           *)
WalkNode(d) ==
    /\ pc = "walk"
    /\ d \in todo
    /\ todo' = todo \ {d}
    /\ IF NeedsHid(d)
       THEN missing_hids' \in Appended(missing_hids, d)
       ELSE missing_hids' = missing_hids
    /\ \E a \in CrsBases(d) :
          /\ IF RecordsOffline(d, a)
             THEN offline_ddrcs' \in Appended(offline_ddrcs, d)
             ELSE offline_ddrcs' = offline_ddrcs
          /\ lost' = IF \/ NeedsHid(d) /\ missing_hids' = missing_hids
                        \/ RecordsOffline(d, a) /\ offline_ddrcs' = offline_ddrcs
                     THEN lost \cup {d} ELSE lost
    /\ UNCHANGED <<env, ssdts, pc, uacpi, online, tree, gone, buffer, result, runs>>

(* dsdt_walker on a node whose info could not be read: it jumps to out,    *)
(* where it frees info if it is not NULL, but info was never assigned.     *)
(* Either the stack held a NULL or the allocator is given a wild pointer.  *)
WalkBadNode(d) ==
    /\ pc = "walk"
    /\ UacpiFails
    /\ d \in todo
    /\ todo' = todo \ {d}
    /\ lost' = lost \cup {d}
    /\ pc' \in {"walk", "crashed"}
    /\ UNCHANGED <<env, ssdts, uacpi, online, missing_hids, offline_ddrcs,
                   tree, gone, buffer, result, runs>>

(* uacpi_namespace_for_each_child gives up; its status is not looked at.   *)
WalkAborted ==
    /\ pc = "walk"
    /\ UacpiFails
    /\ todo # {}
    /\ todo' = {}
    /\ lost' = lost \cup todo
    /\ UNCHANGED <<env, ssdts, pc, uacpi, online, missing_hids, offline_ddrcs,
                   tree, gone, buffer, result, runs>>

\* mutant: only the list of missing HIDs decides whether there is work
WalkDoneHidsOnly ==
    /\ pc = "walk"
    /\ todo = {}
    /\ uacpi' = "down"
    /\ IF missing_hids = <<>>
       THEN Return(0)
       ELSE pc' = "build" /\ UNCHANGED <<locals, result>>
    /\ UNCHANGED <<env, ssdts, tree, gone, buffer, lost, runs>>

(* After the walk uACPI is reset, and fix_dsdt returns when nothing was    *)
(* recorded.                                                               *)
WalkDone ==
    /\ pc = "walk"
    /\ todo = {}
    /\ uacpi' = "down"
    /\ IF missing_hids = <<>> /\ offline_ddrcs = <<>>
       THEN Return(0)
       ELSE pc' = "build" /\ UNCHANGED <<locals, result>>
    /\ UNCHANGED <<env, ssdts, tree, gone, buffer, lost, runs>>

(* The tree is built, sized and serialised into ssdt_buffer.               *)
Build ==
    /\ pc = "build"
    /\ pc' = "install"
    /\ tree' = "held"
    /\ gone' = NoneGone
    /\ buffer' = "held"
    /\ UNCHANGED <<env, ssdts, uacpi, locals, result, lost, runs>>

(* A malloc of the build phase fails.  The nodes for the root, If, External*)
(* and Scope, and ssdt_buffer, are used without a test of the pointer.     *)
BuildCrashes ==
    /\ pc = "build"
    /\ AllocFails
    /\ pc' = "crashed"
    /\ lost' = Device
    /\ UNCHANGED <<env, ssdts, uacpi, locals, tree, gone, buffer, result, runs>>

(* The devices named by the Scopes in g.                                   *)
NamedBy(g) == (UNION {Targets(missing_hids[i]) : i \in g.hid})
                 \cup UNION {Targets(offline_ddrcs[i]) : i \in g.sta}

(* A data node, or the Zero of the If, that could not be allocated is left *)
(* out by aml_node_size and aml_node_serialize, with the lengths around it *)
(* right (module AmlPkg).  A Scope without its name or its object has no   *)
(* effect, and the External objects are in the branch not taken.  An       *)
(* interpreter that gives up where a name or the condition is missing      *)
(* loses the Scopes behind it as well: any of them may be gone.            *)
BuildWithoutNodes ==
    /\ pc = "build"
    /\ AllocFails
    /\ pc' = "install"
    /\ tree' = "held"
    /\ buffer' = "held"
    /\ gone' \in [hid : SUBSET DOMAIN missing_hids, sta : SUBSET DOMAIN offline_ddrcs]
    /\ lost' = lost \cup NamedBy(gone')
    /\ UNCHANGED <<env, ssdts, uacpi, locals, result, runs>>

(* InstallAcpiTable copies the table; buffer and tree are freed on both    *)
(* ways out.                                                               *)
FreeBuild == tree' = "none" /\ gone' = NoneGone /\ buffer' = "none"

BuiltSsdt == [hid |-> missing_hids, sta |-> offline_ddrcs, gone |-> gone]

Install ==
    /\ pc = "install"
    /\ ssdts' = Append(ssdts, BuiltSsdt)
    /\ FreeBuild
    /\ Return(0)
    /\ UNCHANGED <<env, uacpi, lost, runs>>

\* mutant: the firmware's status is returned instead of 1
InstallFailsStatus ==
    /\ pc = "install"
    /\ FreeBuild
    /\ Return(9)
    /\ UNCHANGED <<env, ssdts, uacpi, lost, runs>>

InstallFails ==
    /\ pc = "install"
    /\ FreeBuild
    /\ Return(1)
    /\ UNCHANGED <<env, ssdts, uacpi, lost, runs>>

(* The machine is started again, perhaps with other DIMMs: the firmware    *)
(* builds its ACPI tables anew.                                            *)
Restart ==
    /\ pc \in {"idle", "crashed"}
    /\ hob' \in HobEnvs
    /\ ssdts' = <<>>
    /\ uacpi' = "down"
    /\ FreeBuild
    /\ Return(0)
    /\ lost' = {}
    /\ runs' = 0
    /\ UNCHANGED <<ns, hi1620>>

(* The steps fix_dsdt takes on its own once it is called.                  *)
Step ==
    \/ Initialize \/ InitializeFails
    \/ LoadNamespace \/ LoadNamespaceFails
    \/ \E d \in Device : WalkNode(d) \/ WalkBadNode(d)
    \/ WalkAborted \/ WalkDone
    \/ Build \/ BuildCrashes \/ BuildWithoutNodes
    \/ Install \/ InstallFails

Next == Enter \/ Step \/ Restart

Spec == Init /\ [][Next]_vars

(* fix_dsdt runs on the only thread of a UEFI application: once called, it *)
(* keeps taking steps.  Nothing forces another call or a restart.          *)
FairSpec == Spec /\ WF_vars(Step)

-----------------------------------------------------------------------------
(* Properties *)

(* Every variable holds a value of its type; in particular the list        *)
(* entries are well-formed NameStrings and the address array has one entry *)
(* for every slot of online_ddrcs_base.                                    *)
TypeOK ==
    /\ ns \in Namespaces
    /\ hi1620 \in BOOLEAN
    /\ hob \in HobEnvs
    /\ ssdts \in Seq(Ssdt)
    /\ pc \in {"idle", "initialize", "load", "walk", "build", "install", "crashed"}
    /\ uacpi \in {"down", "up"}
    /\ online \in [Slots -> {0} \cup Bases]
    /\ todo \subseteq Device
    /\ missing_hids \in Seq(Name)
    /\ offline_ddrcs \in Seq(Name)
    /\ tree \in {"none", "held"}
    /\ gone \in Gone
    /\ buffer \in {"none", "held"}
    /\ result \in {0, 1}
    /\ lost \subseteq Device
    /\ runs \in 0 .. MaxRuns

(* The memory map, read without the array: device d is the controller of a *)
(* channel that has an enabled DIMM.                                       *)
OnOnlineChannel(d) ==
    \E s \in Socket, c \in Channel :
        ChannelOnline(MemoryMap(hob), s, c) /\ ns[d].addr = DdrcBase(s, c)

(* No SSDT of dsdt_walker's making ever disables a working controller: a   *)
(* device that is given _STA = 0 is a HISI0233, and on a Hi1620 whose HOB  *)
(* list has the memory map it has no channel with an enabled DIMM.  Names  *)
(* are followed through the encoding of                                    *)
(* devpath_list_append_uacpi_object_names and its decoding by the AML      *)
(* interpreter.                                                            *)
DisablesOnlyOffline ==
    \A d \in Device : GivenSta(d) =>
        /\ ns[d].hid = "HISI0233"
        /\ (hi1620 /\ HasMemoryMap(hob) /\ ns[d].crs = "ok") => ~ OnOnlineChannel(d)

(* A _HID is only given to a device that has neither _HID nor _ADR in the  *)
(* firmware's tables, and over all runs at most once.                      *)
HidOnlyOnce ==
    /\ \A d \in Device : GivenHid(d) => ns[d].hid = "none" /\ ~ ns[d].adr
    /\ \A i, j \in DOMAIN ssdts :
          i # j => HidTargets(ssdts[i]) \cap HidTargets(ssdts[j]) = {}

(* The controller of d is offline as far as fix_dsdt can know.             *)
KnownOffline(d) ==
    /\ ns[d].hid = "HISI0233" /\ ns[d].crs = "ok"
    /\ (hi1620 /\ HasMemoryMap(hob)) => ~ OnOnlineChannel(d)

(* A device that a NameString can name is fixed when it has a _HID or an   *)
(* _ADR and, being an offline controller without a _STA of its own, is     *)
(* disabled.                                                               *)
Fixed(d) ==
    DepthOk(d) =>
        /\ HasHid(d) \/ ns[d].adr
        /\ (KnownOffline(d) /\ ns[d].sta = "absent") => StaIsZero(d)

(* A call that returned 0 left no device unfixed except those it lost to a *)
(* failure.                                                                *)
CompleteFix ==
    (pc = "idle" /\ runs > 0 /\ result = 0) => \A d \in Device \ lost : Fixed(d)

(* The device is recorded again by every run whatever was installed: its   *)
(* firmware _STA cannot be replaced, or its recording depends on an        *)
(* uninitialised address.                                                  *)
Stubborn(d) ==
    /\ ns[d].hid = "HISI0233"
    /\ ns[d].sta \in {"nonzero", "error"} \/ ns[d].crs = "noaddr"

(* Running the program again is harmless: without failures of malloc and   *)
(* uACPI, and without stubborn devices, a machine never gets a second      *)
(* SSDT before it is restarted, however many calls are made and whichever  *)
(* of them failed to install their table.                                  *)
OneSsdtPerBoot == (\A d \in Device : ~ Stubborn(d)) => Len(ssdts) <= 1

(* The numbers of the HIDs that table t hands out.                         *)
Numbers(t) == DOMAIN t.hid \ t.gone.hid

(* fix_dsdt numbers its HIDs from 1 in every call, yet between two starts  *)
(* of the machine no number is handed out twice, so that two devices never *)
(* share a HID and none gets two.                                          *)
HidUnique ==
    \A t, u \in DOMAIN ssdts :
        t # u => Numbers(ssdts[t]) \cap Numbers(ssdts[u]) = {}

(* Whatever way fix_dsdt returns, uACPI has been reset and the tree and    *)
(* the SSDT buffer have been freed.                                        *)
ResourcesReleased ==
    pc = "idle" => uacpi = "down" /\ tree = "none" /\ buffer = "none"

(* dsdt_fix.c:101 says "skip bad node": a node whose info cannot be read   *)
(* costs fix_dsdt that node, not the run.                                  *)
BadNodeSkipped == pc # "crashed"

(* The two sets of devices an SSDT may name.                               *)
Unidentified ==
    {d \in Device : DepthOk(d) /\ ns[d].hid = "none" /\ ~ ns[d].adr}

Disableable ==
    {d \in Device : /\ DepthOk(d) /\ ns[d].hid = "HISI0233"
                    /\ ns[d].crs = "noaddr" \/ KnownOffline(d)}

(* The refinement mapping into DsdtContract: a table does to the devices   *)
(* what its decoded names say; a crashed call never returned.              *)
TableEffects ==
    [i \in DOMAIN ssdts |-> [hid |-> HidTargets(ssdts[i]), sta |-> StaTargets(ssdts[i])]]

Contract == INSTANCE DsdtContract WITH
    unidentified <- Unidentified, disableable <- Disableable,
    tables <- TableEffects, busy <- pc # "idle", result <- result

(* fix_dsdt keeps its contract: seen from the ACPI tables every call is    *)
(* one atomic step that adds nothing or one safe table.                    *)
KeepsContract == Contract!Spec

(* The inductive invariant behind the theorems of DsdtFixProofs.  uACPI    *)
(* and the build phase are held exactly where pc says; the address array   *)
(* is what the HOB says while a call runs; and every name on a list or in  *)
(* a table decodes to a device that may be named there.                    *)
HeldWhere ==
    /\ pc \in {"idle", "initialize", "build", "install"} => uacpi = "down"
    /\ pc \in {"idle", "initialize", "load", "walk", "build"} => tree = "none" /\ buffer = "none"

OnlineFromHob ==
    pc \notin {"idle", "crashed"} =>
        online = IF hi1620 THEN hob_get_online_ddrcs(hob) ELSE NoDdrcs

ListsSafe ==
    /\ ListTargets(missing_hids) \subseteq {d \in Unidentified : ~ GivenHid(d)}
    /\ ListTargets(offline_ddrcs) \subseteq Disableable

TablesSafe ==
    \A i \in DOMAIN ssdts :
        /\ HidTargets(ssdts[i]) \subseteq Unidentified
        /\ StaTargets(ssdts[i]) \subseteq Disableable
        /\ \A j \in DOMAIN ssdts :
              i # j => HidTargets(ssdts[i]) \cap HidTargets(ssdts[j]) = {}

IndInv == TypeOK /\ HeldWhere /\ OnlineFromHob /\ ListsSafe /\ TablesSafe

(* What CompleteFix needs: the walk misses no device.  Once visited, and   *)
(* not lost to a failure, a device is fixed or on the list that will fix   *)
(* it, from the walk until the SSDT is installed.                          *)
FixedOrListed(d) ==
    DepthOk(d) =>
        /\ HasHid(d) \/ ns[d].adr \/ d \in ListTargets(missing_hids)
        /\ (KnownOffline(d) /\ ns[d].sta = "absent") =>
              StaIsZero(d) \/ d \in ListTargets(offline_ddrcs)

WalkCovers ==
    pc \in {"walk", "build", "install"} =>
        /\ \A d \in Device \ (todo \cup lost) : FixedOrListed(d)
        /\ pc \in {"build", "install"} => todo = {}
        /\ pc = "install" => NamedBy(gone) \subseteq lost

(* What a repeated call relies on, as long as malloc and uACPI do not      *)
(* fail: the first SSDT fixes every device, so that nothing is left to be  *)
(* listed by a later walk.                                                 *)
FirstFixesAll ==
    /\ lost = {}
    /\ ssdts # <<>> => (\A d \in Device : Fixed(d)) /\ missing_hids = <<>>
    /\ \A i \in DOMAIN ssdts : i # 1 => ssdts[i].hid = <<>>

OnlyStubbornAgain ==
    (\A d \in Device : ~ Stubborn(d)) =>
        /\ ssdts # <<>> => offline_ddrcs = <<>> /\ pc \notin {"build", "install"}
        /\ Len(ssdts) <= 1

(* A call of fix_dsdt comes to an end.                                     *)
Terminates == pc = "initialize" ~> pc = "idle"
=============================================================================
