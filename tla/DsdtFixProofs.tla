--------------------------- MODULE DsdtFixProofs ---------------------------
(***************************************************************************)
(* Proofs about DsdtFix and Hob, for any number of channels and DIMMs that *)
(* hob.c can handle, and for every namespace, HOB list, number of calls    *)
(* and pattern of failures.                                                *)
(***************************************************************************)
EXTENDS DsdtFix, SequenceTheorems, TLAPS

-----------------------------------------------------------------------------
(* The address array of hob_get_online_ddrcs *)

(* Different controllers have different base addresses, none of them 0,    *)
(* the value that marks an unused slot of online_ddrcs_base.               *)
LEMMA DdrcBaseInjective ==
    /\ \A s \in Socket, c \in Channel : DdrcBase(s, c) \in Nat \ {0}
    /\ \A s, t \in Socket : \A c, e \in Channel :
          DdrcBase(s, c) = DdrcBase(t, e) => s = t /\ c = e
<1>1. \A s \in Socket : s \in {0, 1, 2, 3}
  BY HobConstants DEF Socket
<1>2. \A c \in Channel : c \in 0 .. 2047
  BY HobConstants DEF Channel
<1>3. /\ SocketBase(0) = 38098       /\ SocketBase(1) = 40146
      /\ SocketBase(2) = 1073779922  /\ SocketBase(3) = 1073781970
  BY DEF SocketBase
<1>4. \A s \in {0, 1, 2, 3} : SocketBase(s) \in Nat \ {0}
  BY <1>3
<1>5. \A s, t \in {0, 1, 2, 3} :
         s = t \/ SocketBase(s) + 2048 <= SocketBase(t) \/ SocketBase(t) + 2048 <= SocketBase(s)
  BY <1>3, SMTT(30)
<1>6. ASSUME NEW s \in Socket, NEW c \in Channel
      PROVE  DdrcBase(s, c) \in Nat \ {0}
  <2>1. SocketBase(s) \in Nat \ {0} /\ c \in 0 .. 2047
    BY <1>1, <1>2, <1>4
  <2> QED
    BY <2>1 DEF DdrcBase
<1>7. ASSUME NEW s \in Socket, NEW t \in Socket, NEW c \in Channel, NEW e \in Channel,
             DdrcBase(s, c) = DdrcBase(t, e)
      PROVE  s = t /\ c = e
  <2> DEFINE a == SocketBase(s)
             b == SocketBase(t)
  <2>1. a + c = b + e
    BY <1>7 DEF DdrcBase
  <2>2. a \in Nat /\ b \in Nat /\ c \in 0 .. 2047 /\ e \in 0 .. 2047
    BY <1>1, <1>2, <1>4
  <2>3. s = t \/ a + 2048 <= b \/ b + 2048 <= a
    BY <1>1, <1>5
  <2>4. s = t => a = b
    OBVIOUS
  <2> HIDE DEF a, b
  <2>5. ~ (a + 2048 <= b) /\ ~ (b + 2048 <= a)
    BY <2>1, <2>2
  <2>6. s = t
    BY <2>3, <2>5
  <2>7. c = e
    BY <2>1, <2>2, <2>4, <2>6
  <2> QED
    BY <2>6, <2>7
<1> QED
  BY <1>6, <1>7

(* The slots socket * MAX_CHANNEL + ch lie in the array and do not collide.*)
LEMMA SlotInjective ==
    /\ \A s \in Socket, c \in Channel : SlotOf(s, c) \in Slots
    /\ \A s, t \in Socket : \A c, e \in Channel :
          SlotOf(s, c) = SlotOf(t, e) => s = t /\ c = e
<1>1. ASSUME NEW s \in Socket, NEW c \in Channel
      PROVE  SlotOf(s, c) \in Slots
  <2>1. s * MAX_CHANNEL + c \in 0 .. MAX_SOCKET * MAX_CHANNEL - 1
    <3>1. CASE s = 0 BY <3>1, HobConstants DEF Socket, Channel
    <3>2. CASE s = 1 BY <3>2, HobConstants DEF Socket, Channel
    <3>3. CASE s = 2 BY <3>3, HobConstants DEF Socket, Channel
    <3>4. CASE s = 3 BY <3>4, HobConstants DEF Socket, Channel
    <3> QED BY <3>1, <3>2, <3>3, <3>4, HobConstants DEF Socket
  <2> QED BY <2>1 DEF SlotOf, Slots
<1>2. ASSUME NEW s \in Socket, NEW t \in Socket, NEW c \in Channel, NEW e \in Channel,
             SlotOf(s, c) = SlotOf(t, e)
      PROVE  s = t /\ c = e
  <2>1. s \in {0, 1, 2, 3} /\ t \in {0, 1, 2, 3}
    BY HobConstants DEF Socket
  <2>2. s * MAX_CHANNEL + c = t * MAX_CHANNEL + e
    BY <1>2 DEF SlotOf
  <2> QED BY <2>1, <2>2, HobConstants DEF Channel
<1> QED BY <1>1, <1>2

(* The array has one entry per slot, a base address or 0.                  *)
LEMMA OnlineArrayType ==
    \A enabled : OnlineArray(enabled) \in [Slots -> {0} \cup Bases]
<1> SUFFICES ASSUME NEW enabled, NEW i \in Slots
             PROVE  OnlineArray(enabled)[i] \in {0} \cup Bases
    BY DEF OnlineArray
<1>1. CASE \E a \in Bases : Stores(enabled, i, a)
  <2> OnlineArray(enabled)[i] = CHOOSE a \in Bases : Stores(enabled, i, a)
    BY <1>1 DEF OnlineArray
  <2> QED BY <1>1
<1>2. CASE ~ \E a \in Bases : Stores(enabled, i, a)
  BY <1>2 DEF OnlineArray
<1> QED BY <1>1, <1>2

(* A base address in the array is that of an online channel.               *)
LEMMA OnlineArrayOnly ==
    ASSUME NEW enabled, NEW i \in Slots, OnlineArray(enabled)[i] # 0
    PROVE  \E s \in Socket, c \in Channel :
              /\ ChannelOnline(enabled, s, c)
              /\ OnlineArray(enabled)[i] = DdrcBase(s, c)
<1>1. \E b \in Bases : Stores(enabled, i, b)
  BY DEF OnlineArray
<1>2. OnlineArray(enabled)[i] = CHOOSE b \in Bases : Stores(enabled, i, b)
  BY <1>1 DEF OnlineArray
<1>3. Stores(enabled, i, OnlineArray(enabled)[i])
  BY <1>1, <1>2
<1> QED BY <1>3 DEF Stores

(* Looking an address up in the array, as dsdt_walker does, is the same as *)
(* asking the memory map whether it is the base of an online channel: no   *)
(* channel is lost or overwritten, and the 0 entries match no address.     *)
THEOREM OnlineArrayExact ==
    \A enabled, a :
        (\E i \in Slots : OnlineArray(enabled)[i] # 0 /\ OnlineArray(enabled)[i] = a)
        <=> (\E s \in Socket, c \in Channel :
                ChannelOnline(enabled, s, c) /\ a = DdrcBase(s, c))
<1> SUFFICES ASSUME NEW enabled, NEW a
             PROVE  (\E i \in Slots : OnlineArray(enabled)[i] # 0 /\ OnlineArray(enabled)[i] = a)
                    <=> (\E s \in Socket, c \in Channel :
                            ChannelOnline(enabled, s, c) /\ a = DdrcBase(s, c))
    OBVIOUS
<1>1. ASSUME NEW i \in Slots, OnlineArray(enabled)[i] # 0, OnlineArray(enabled)[i] = a
      PROVE  \E s \in Socket, c \in Channel :
                ChannelOnline(enabled, s, c) /\ a = DdrcBase(s, c)
  BY <1>1, OnlineArrayOnly
<1>2. ASSUME NEW s \in Socket, NEW c \in Channel,
             ChannelOnline(enabled, s, c), a = DdrcBase(s, c)
      PROVE  \E i \in Slots : OnlineArray(enabled)[i] # 0 /\ OnlineArray(enabled)[i] = a
  <2> DEFINE i == SlotOf(s, c)
             b == CHOOSE x \in Bases : Stores(enabled, i, x)
  <2>1. i \in Slots BY SlotInjective
  <2>2. a \in Bases BY <1>2 DEF Bases
  <2>3. Stores(enabled, i, a) BY <1>2 DEF Stores
  <2>4. Stores(enabled, i, b) BY <2>2, <2>3
  <2>5. PICK t \in Socket, e \in Channel : i = SlotOf(t, e) /\ b = DdrcBase(t, e)
    BY <2>4 DEF Stores
  <2>6. t = s /\ e = c BY <2>5, SlotInjective
  <2>7. b = a BY <1>2, <2>5, <2>6
  <2>8. OnlineArray(enabled)[i] = b BY <2>1, <2>2, <2>3 DEF OnlineArray
  <2>9. a # 0 BY <1>2, DdrcBaseInjective
  <2> QED BY <2>1, <2>7, <2>8, <2>9
<1> QED BY <1>1, <1>2

-----------------------------------------------------------------------------
(* Names and lists *)

(* The cast (uint8_t)depth loses nothing up to 255.                        *)
LEMMA ByteOfSmall == \A n \in 0 .. 255 : ByteOf(n) = n
BY DEF ByteOf

(* What devpath_list_append_uacpi_object_names encodes for a device the    *)
(* walker does not skip, the AML interpreter decodes to that device.       *)
LEMMA NameRoundTrip ==
    ASSUME NEW d \in Device, DepthOk(d)
    PROVE  NameOf(d) \in Name /\ Targets(NameOf(d)) = {d}
<1> DEFINE n == Len(Path[d])
<1>1. Path[d] \in Seq(STRING) /\ n \in 2 .. 255
  BY PathAssumption DEF DepthOk, depth
<1>2. ByteOf(depth(d)) = n
  <2> HIDE DEF n
  <2>1. n \in 0 .. 255 BY <1>1
  <2>2. ByteOf(n) = n BY <2>1, ByteOfSmall
  <2> QED BY <2>2 DEF depth, n
<1>3. SubSeq(Path[d], 1, n) = Path[d]
  BY <1>1, SubSeqFull
<1>4. NameOf(d) = [prefix |-> IF n = 2 THEN "dual" ELSE "multi",
                   count |-> n, segs |-> Path[d]]
  BY <1>1, <1>2, <1>3 DEF NameOf, EncodeName
<1>5. NameOf(d) \in Name
  <2> HIDE DEF n
  <2>1. n \in 0 .. 255
    BY <1>1
  <2>2. (IF n = 2 THEN "dual" ELSE "multi") \in {"dual", "multi"}
    OBVIOUS
  <2> QED
    BY <1>1, <1>4, <2>1, <2>2, SMTT(30) DEF Name
<1>6. DecodeName(NameOf(d)) = Path[d]
  <2>1. CASE n = 2 BY <1>3, <1>4, <2>1 DEF DecodeName
  <2>2. CASE n # 2 BY <1>3, <1>4, <2>2 DEF DecodeName
  <2> QED BY <2>1, <2>2
<1>7. Targets(NameOf(d)) = {d}
  BY <1>6, PathAssumption DEF Targets
<1> QED BY <1>5, <1>7

(* Appending a name adds its target, and nothing else, to a list.          *)
LEMMA AppendTargets ==
    ASSUME NEW list \in Seq(Name), NEW n \in Name
    PROVE  /\ Append(list, n) \in Seq(Name)
           /\ ListTargets(Append(list, n)) = ListTargets(list) \cup Targets(n)
<1> DEFINE new == Append(list, n)
<1>1. /\ new \in Seq(Name) /\ Len(new) = Len(list) + 1
      /\ DOMAIN new = 1 .. Len(list) + 1 /\ DOMAIN list = 1 .. Len(list)
      /\ new[Len(list) + 1] = n
      /\ \A i \in DOMAIN list : new[i] = list[i]
  OBVIOUS
<1>2. Names(new) = Names(list) \cup {n}
  <2>1. ASSUME NEW x \in Names(new) PROVE x \in Names(list) \cup {n}
    BY <1>1 DEF Names
  <2>2. Names(list) \subseteq Names(new)
    BY <1>1 DEF Names
  <2>3. n \in Names(new)
    <3>1. Len(list) + 1 \in DOMAIN new BY <1>1
    <3> QED BY <1>1, <3>1 DEF Names
  <2> QED BY <2>1, <2>2, <2>3
<1>3. ListTargets(new) = ListTargets(list) \cup Targets(n)
  BY <1>2 DEF ListTargets
<1> QED BY <1>1, <1>3

(* An SSDT list with no names concerns no device.                          *)
LEMMA EmptyTargets == ListTargets(<<>>) = {}
BY DEF ListTargets, Names

(* The array the walker compares with: its type on every path through      *)
(* hob_get_online_ddrcs.                                                   *)
LEMMA OnlineType ==
    /\ NoDdrcs \in [Slots -> {0} \cup Bases]
    /\ \A h : hob_get_online_ddrcs(h) \in [Slots -> {0} \cup Bases]
BY OnlineArrayType DEF NoDdrcs, hob_get_online_ddrcs

(* A list after devpath_list_append_uacpi_object_names, whether or not     *)
(* its allocations succeeded.                                              *)
LEMMA AppendedSafe ==
    ASSUME NEW list \in Seq(Name), NEW d \in Device, DepthOk(d),
           NEW new \in Appended(list, d)
    PROVE  new \in Seq(Name) /\ ListTargets(new) \subseteq ListTargets(list) \cup {d}
<1>1. CASE new = list BY <1>1
<1>2. CASE new = Append(list, NameOf(d))
  BY <1>2, NameRoundTrip, AppendTargets
<1> QED BY <1>1, <1>2 DEF Appended
-----------------------------------------------------------------------------
(* Types at the start of a boot.                                           *)
LEMMA InitType == Init => TypeOK
BY DsdtConstants, OnlineType DEF Init, TypeOK, Gone, NoneGone

(* Every step of fix_dsdt keeps the types.                                 *)
LEMMA NextType == TypeOK /\ [Next]_vars => TypeOK'
<1> SUFFICES ASSUME TypeOK, [Next]_vars PROVE TypeOK'
    OBVIOUS
<1> USE DEF TypeOK, env, locals
<1>1. CASE Enter
  BY <1>1, DsdtConstants, OnlineType DEF Enter
<1>2. CASE Initialize BY <1>2 DEF Initialize
<1>3. CASE InitializeFails BY <1>3, OnlineType DEF InitializeFails, Return
<1>4. CASE LoadNamespace BY <1>4 DEF LoadNamespace
<1>5. CASE LoadNamespaceFails BY <1>5, OnlineType DEF LoadNamespaceFails, Return
<1>6. ASSUME NEW d \in Device, WalkNode(d) PROVE TypeOK'
  <2>1. missing_hids' \in Seq(Name)
    BY <1>6, AppendedSafe DEF WalkNode, NeedsHid
  <2>2. offline_ddrcs' \in Seq(Name)
    BY <1>6, AppendedSafe DEF WalkNode, RecordsOffline
  <2>3. lost' \subseteq Device
    BY <1>6 DEF WalkNode
  <2> QED BY <1>6, <2>1, <2>2, <2>3 DEF WalkNode
<1>7. ASSUME NEW d \in Device, WalkBadNode(d) PROVE TypeOK'
  BY <1>7 DEF WalkBadNode
<1>8. CASE WalkAborted BY <1>8 DEF WalkAborted
<1>9. CASE WalkDone BY <1>9, OnlineType DEF WalkDone, Return
<1>10. CASE Build BY <1>10 DEF Build, Gone, NoneGone
<1>11. CASE BuildCrashes BY <1>11 DEF BuildCrashes
<1>12. CASE BuildWithoutNodes
  <2>1. gone' \in Gone
    <3>1. DOMAIN missing_hids \subseteq Nat /\ DOMAIN offline_ddrcs \subseteq Nat
      OBVIOUS
    <3> QED BY <1>12, <3>1 DEF BuildWithoutNodes, Gone
  <2>2. lost' \subseteq Device
    BY <1>12 DEF BuildWithoutNodes, NamedBy, Targets
  <2> QED BY <1>12, <2>1, <2>2 DEF BuildWithoutNodes
<1>13. CASE Install
  <2>1. BuiltSsdt \in Ssdt BY DEF BuiltSsdt, Ssdt
  <2>2. ssdts' \in Seq(Ssdt) BY <1>13, <2>1 DEF Install
  <2> QED BY <1>13, <2>2, OnlineType DEF Install, Return, FreeBuild, Gone, NoneGone
<1>14. CASE InstallFails
  BY <1>14, OnlineType DEF InstallFails, Return, FreeBuild, Gone, NoneGone
<1>15. CASE Restart
  BY <1>15, DsdtConstants, OnlineType DEF Restart, Return, FreeBuild, Gone, NoneGone
<1>16. CASE UNCHANGED vars BY <1>16 DEF vars
<1> QED
  BY <1>1, <1>2, <1>3, <1>4, <1>5, <1>6, <1>7, <1>8, <1>9, <1>10, <1>11,
     <1>12, <1>13, <1>14, <1>15, <1>16 DEF Next, Step

(* Every variable of fix_dsdt keeps its type; in particular the lists only *)
(* ever hold well-formed NameStrings.                                      *)
THEOREM TypeCorrect == Spec => []TypeOK
BY InitType, NextType, PTL DEF Spec

-----------------------------------------------------------------------------
(* The firmware's description decides who may be named: it does not change *)
(* while the machine runs.                                                 *)
LEMMA EnvSame ==
    ASSUME UNCHANGED env
    PROVE  Unidentified' = Unidentified /\ Disableable' = Disableable
BY DEF env, Unidentified, Disableable, KnownOffline, OnOnlineChannel

(* A step that installs nothing keeps what is said of the installed        *)
(* tables.                                                                 *)
LEMMA TablesSame ==
    ASSUME UNCHANGED <<env, ssdts>>
    PROVE  /\ TablesSafe => TablesSafe'
           /\ \A d : GivenHid(d)' <=> GivenHid(d)
BY EnvSame DEF TablesSafe, GivenHid

(* A step that leaves the walker's lists alone keeps what is said of them. *)
LEMMA ListsSame ==
    ASSUME UNCHANGED <<env, ssdts, missing_hids, offline_ddrcs>>, ListsSafe
    PROVE  ListsSafe'
BY EnvSame, TablesSame DEF ListsSafe

(* Nothing is claimed of empty lists.                                      *)
LEMMA ListsCleared ==
    ASSUME missing_hids' = <<>>, offline_ddrcs' = <<>>
    PROVE  ListsSafe'
BY EmptyTargets DEF ListsSafe

(* The decision of dsdt_walker: a controller it records as offline has no  *)
(* enabled DIMM, unless _CRS gave it no address to judge by.               *)
LEMMA RecordedIsDisableable ==
    ASSUME TypeOK, OnlineFromHob, pc = "walk",
           NEW d \in Device, NEW a \in CrsBases(d), RecordsOffline(d, a)
    PROVE  d \in Disableable
<1>1. /\ DepthOk(d) /\ ns[d].hid = "HISI0233" /\ ns[d].crs # "error"
      /\ ~ IsOnline(a)
  BY DEF RecordsOffline
<1>2. CASE ns[d].crs = "noaddr"
  BY <1>1, <1>2 DEF Disableable
<1>3. CASE ns[d].crs # "noaddr"
  <2>1. ns[d] \in Attr
    BY DsdtConstants DEF TypeOK
  <2>2. ns[d].crs = "ok" /\ a = ns[d].addr
    BY <1>1, <1>3, <2>1 DEF Attr, CrsBases
  <2>3. ASSUME hi1620, HasMemoryMap(hob) PROVE ~ OnOnlineChannel(d)
    <3>1. online = OnlineArray(MemoryMap(hob))
      BY <2>3 DEF OnlineFromHob, hob_get_online_ddrcs
    <3>2. ~ \E s \in Socket, c \in Channel :
              ChannelOnline(MemoryMap(hob), s, c) /\ a = DdrcBase(s, c)
      BY <1>1, <3>1, OnlineArrayExact DEF IsOnline
    <3> QED BY <2>2, <3>2 DEF OnOnlineChannel
  <2> QED BY <1>1, <2>2, <2>3 DEF Disableable, KnownOffline
<1> QED BY <1>2, <1>3

(* The inductive invariant holds before the first call.                    *)
LEMMA InitInv == Init => IndInv
<1> SUFFICES ASSUME Init PROVE IndInv
    OBVIOUS
<1>1. TypeOK BY InitType
<1>2. HeldWhere BY DEF Init, HeldWhere
<1>3. OnlineFromHob BY DEF Init, OnlineFromHob
<1>4. ListsSafe BY EmptyTargets DEF Init, ListsSafe
<1>5. TablesSafe BY DEF Init, TablesSafe
<1> QED BY <1>1, <1>2, <1>3, <1>4, <1>5 DEF IndInv

(* The walk records only names that may stand in the SSDT.                 *)
LEMMA WalkNodeLists ==
    ASSUME IndInv, NEW d \in Device, WalkNode(d)
    PROVE  ListsSafe'
<1> USE DEF IndInv
<1>1. UNCHANGED <<env, ssdts>> BY DEF WalkNode
<1>2. pc = "walk" /\ missing_hids \in Seq(Name) /\ offline_ddrcs \in Seq(Name)
  BY DEF WalkNode, TypeOK
<1>3. ListTargets(missing_hids') \subseteq {e \in Unidentified : ~ GivenHid(e)}
  <2>1. CASE NeedsHid(d)
    <3>1. d \in Unidentified /\ ~ GivenHid(d)
      BY <2>1 DEF NeedsHid, HasHid, Unidentified
    <3>2. ListTargets(missing_hids') \subseteq ListTargets(missing_hids) \cup {d}
      BY <1>2, <2>1, AppendedSafe DEF WalkNode, NeedsHid
    <3> QED BY <3>1, <3>2 DEF ListsSafe
  <2>2. CASE ~ NeedsHid(d) BY <2>2 DEF WalkNode, ListsSafe
  <2> QED BY <2>1, <2>2
<1>4. ListTargets(offline_ddrcs') \subseteq Disableable
  <2>1. PICK a \in CrsBases(d) :
            IF RecordsOffline(d, a)
            THEN offline_ddrcs' \in Appended(offline_ddrcs, d)
            ELSE offline_ddrcs' = offline_ddrcs
    BY DEF WalkNode
  <2>2. CASE RecordsOffline(d, a)
    <3>1. d \in Disableable BY <1>2, <2>2, RecordedIsDisableable
    <3>2. ListTargets(offline_ddrcs') \subseteq ListTargets(offline_ddrcs) \cup {d}
      BY <1>2, <2>1, <2>2, AppendedSafe DEF RecordsOffline
    <3> QED BY <3>1, <3>2 DEF ListsSafe
  <2>3. CASE ~ RecordsOffline(d, a) BY <2>1, <2>3 DEF ListsSafe
  <2> QED BY <2>2, <2>3
<1> QED BY <1>1, <1>3, <1>4, EnvSame, TablesSame DEF ListsSafe

(* The built table does nothing to a device that is not on its lists, and  *)
(* fixes every device on them that no missing Scope names.                 *)
LEMMA BuiltTargets ==
    /\ HidTargets(BuiltSsdt) \subseteq ListTargets(missing_hids)
    /\ StaTargets(BuiltSsdt) \subseteq ListTargets(offline_ddrcs)
    /\ ListTargets(missing_hids) \subseteq HidTargets(BuiltSsdt) \cup NamedBy(gone)
    /\ ListTargets(offline_ddrcs) \subseteq StaTargets(BuiltSsdt) \cup NamedBy(gone)
<1>1. /\ BuiltSsdt.hid = missing_hids /\ BuiltSsdt.sta = offline_ddrcs
      /\ BuiltSsdt.gone = gone
  BY DEF BuiltSsdt
<1>2. ASSUME NEW d \in ListTargets(missing_hids)
      PROVE  d \in HidTargets(BuiltSsdt) \cup NamedBy(gone)
  <2>1. PICK i \in DOMAIN missing_hids : d \in Targets(missing_hids[i])
    BY DEF ListTargets, Names
  <2>2. CASE i \in gone.hid BY <2>1, <2>2 DEF NamedBy
  <2>3. CASE i \notin gone.hid BY <1>1, <2>1, <2>3 DEF HidTargets
  <2> QED BY <2>2, <2>3
<1>3. ASSUME NEW d \in ListTargets(offline_ddrcs)
      PROVE  d \in StaTargets(BuiltSsdt) \cup NamedBy(gone)
  <2>1. PICK i \in DOMAIN offline_ddrcs : d \in Targets(offline_ddrcs[i])
    BY DEF ListTargets, Names
  <2>2. CASE i \in gone.sta BY <2>1, <2>2 DEF NamedBy
  <2>3. CASE i \notin gone.sta BY <1>1, <2>1, <2>3 DEF StaTargets
  <2> QED BY <2>2, <2>3
<1>4. HidTargets(BuiltSsdt) \subseteq ListTargets(missing_hids)
  BY <1>1 DEF HidTargets, ListTargets, Names
<1>5. StaTargets(BuiltSsdt) \subseteq ListTargets(offline_ddrcs)
  BY <1>1 DEF StaTargets, ListTargets, Names
<1> QED BY <1>2, <1>3, <1>4, <1>5

(* The table that is installed identifies no device an earlier one did.    *)
LEMMA InstallTables ==
    ASSUME IndInv, Install
    PROVE  TablesSafe'
<1> USE DEF IndInv
<1>1. UNCHANGED env /\ ssdts' = Append(ssdts, BuiltSsdt)
  BY DEF Install
<1>2. ssdts \in Seq(Ssdt) /\ BuiltSsdt \in Ssdt
  BY DEF TypeOK, BuiltSsdt, Ssdt
<1>3. /\ DOMAIN ssdts = 1 .. Len(ssdts) /\ DOMAIN ssdts' = 1 .. Len(ssdts) + 1
      /\ \A i \in DOMAIN ssdts : ssdts'[i] = ssdts[i]
      /\ ssdts'[Len(ssdts) + 1] = BuiltSsdt
      /\ Len(ssdts) \in Nat
  BY <1>1, <1>2
<1>4. /\ HidTargets(BuiltSsdt) \subseteq {e \in Unidentified : ~ GivenHid(e)}
      /\ StaTargets(BuiltSsdt) \subseteq Disableable
  BY BuiltTargets DEF ListsSafe
<1>5. \A i \in DOMAIN ssdts : HidTargets(ssdts[i]) \cap HidTargets(BuiltSsdt) = {}
  BY <1>4 DEF GivenHid
<1>6. \A i \in DOMAIN ssdts' : i \in DOMAIN ssdts \/ i = Len(ssdts) + 1
  BY <1>3
<1> SUFFICES ASSUME NEW i \in DOMAIN ssdts'
             PROVE  /\ HidTargets(ssdts'[i]) \subseteq Unidentified
                    /\ StaTargets(ssdts'[i]) \subseteq Disableable
                    /\ \A j \in DOMAIN ssdts' :
                          i # j => HidTargets(ssdts'[i]) \cap HidTargets(ssdts'[j]) = {}
    BY <1>1, EnvSame DEF TablesSafe
<1>7. CASE i \in DOMAIN ssdts
  BY <1>3, <1>5, <1>6, <1>7 DEF TablesSafe
<1>8. CASE i = Len(ssdts) + 1
  BY <1>3, <1>4, <1>5, <1>6, <1>8
<1> QED BY <1>6, <1>7, <1>8

(* Every step of fix_dsdt keeps the inductive invariant.                   *)
LEMMA NextInv == IndInv /\ [Next]_vars => IndInv'
<1> SUFFICES ASSUME IndInv, [Next]_vars PROVE IndInv'
    OBVIOUS
<1> USE DEF IndInv, env, locals
<1>0. TypeOK' BY NextType
<1>1. CASE Enter
  <2>1. HeldWhere' BY <1>1 DEF Enter, HeldWhere
  <2>2. OnlineFromHob' BY <1>1 DEF Enter, OnlineFromHob
  <2>3. ListsSafe' /\ TablesSafe' BY <1>1, ListsSame, TablesSame DEF Enter
  <2> QED BY <1>0, <2>1, <2>2, <2>3
<1>2. CASE Initialize
  <2>1. HeldWhere' BY <1>2 DEF Initialize, HeldWhere
  <2>2. OnlineFromHob' BY <1>2 DEF Initialize, OnlineFromHob
  <2>3. ListsSafe' /\ TablesSafe' BY <1>2, ListsSame, TablesSame DEF Initialize
  <2> QED BY <1>0, <2>1, <2>2, <2>3
<1>3. CASE InitializeFails
  <2>1. HeldWhere' BY <1>3 DEF InitializeFails, Return, HeldWhere
  <2>2. OnlineFromHob' BY <1>3 DEF InitializeFails, Return, OnlineFromHob
  <2>3. ListsSafe' /\ TablesSafe'
    BY <1>3, ListsCleared, TablesSame DEF InitializeFails, Return
  <2> QED BY <1>0, <2>1, <2>2, <2>3
<1>4. CASE LoadNamespace
  <2>1. HeldWhere' BY <1>4 DEF LoadNamespace, HeldWhere
  <2>2. OnlineFromHob' BY <1>4 DEF LoadNamespace, OnlineFromHob
  <2>3. ListsSafe' /\ TablesSafe' BY <1>4, ListsSame, TablesSame DEF LoadNamespace
  <2> QED BY <1>0, <2>1, <2>2, <2>3
<1>5. CASE LoadNamespaceFails
  <2>1. HeldWhere' BY <1>5 DEF LoadNamespaceFails, Return, HeldWhere
  <2>2. OnlineFromHob' BY <1>5 DEF LoadNamespaceFails, Return, OnlineFromHob
  <2>3. ListsSafe' /\ TablesSafe'
    BY <1>5, ListsCleared, TablesSame DEF LoadNamespaceFails, Return
  <2> QED BY <1>0, <2>1, <2>2, <2>3
<1>6. ASSUME NEW d \in Device, WalkNode(d) PROVE IndInv'
  <2>1. HeldWhere' BY <1>6 DEF WalkNode, HeldWhere
  <2>2. OnlineFromHob' BY <1>6 DEF WalkNode, OnlineFromHob
  <2>3. ListsSafe' BY <1>6, WalkNodeLists
  <2>4. TablesSafe' BY <1>6, TablesSame DEF WalkNode
  <2> QED BY <1>0, <2>1, <2>2, <2>3, <2>4
<1>7. ASSUME NEW d \in Device, WalkBadNode(d) PROVE IndInv'
  <2>1. HeldWhere' BY <1>7 DEF WalkBadNode, HeldWhere
  <2>2. OnlineFromHob' BY <1>7 DEF WalkBadNode, OnlineFromHob
  <2>3. ListsSafe' /\ TablesSafe' BY <1>7, ListsSame, TablesSame DEF WalkBadNode
  <2> QED BY <1>0, <2>1, <2>2, <2>3
<1>8. CASE WalkAborted
  <2>1. HeldWhere' BY <1>8 DEF WalkAborted, HeldWhere
  <2>2. OnlineFromHob' BY <1>8 DEF WalkAborted, OnlineFromHob
  <2>3. ListsSafe' /\ TablesSafe' BY <1>8, ListsSame, TablesSame DEF WalkAborted
  <2> QED BY <1>0, <2>1, <2>2, <2>3
<1>9. CASE WalkDone
  <2>1. HeldWhere' BY <1>9 DEF WalkDone, Return, HeldWhere
  <2>2. OnlineFromHob' BY <1>9 DEF WalkDone, Return, OnlineFromHob
  <2>3. ListsSafe'
    BY <1>9, ListsCleared, ListsSame DEF WalkDone, Return
  <2>4. TablesSafe' BY <1>9, TablesSame DEF WalkDone
  <2> QED BY <1>0, <2>1, <2>2, <2>3, <2>4
<1>10. CASE Build
  <2>1. HeldWhere' BY <1>10 DEF Build, HeldWhere
  <2>2. OnlineFromHob' BY <1>10 DEF Build, OnlineFromHob
  <2>3. ListsSafe' /\ TablesSafe' BY <1>10, ListsSame, TablesSame DEF Build
  <2> QED BY <1>0, <2>1, <2>2, <2>3
<1>11. CASE BuildCrashes
  <2>1. HeldWhere' BY <1>11 DEF BuildCrashes, HeldWhere
  <2>2. OnlineFromHob' BY <1>11 DEF BuildCrashes, OnlineFromHob
  <2>3. ListsSafe' /\ TablesSafe' BY <1>11, ListsSame, TablesSame DEF BuildCrashes
  <2> QED BY <1>0, <2>1, <2>2, <2>3
<1>12. CASE BuildWithoutNodes
  <2>1. HeldWhere' BY <1>12 DEF BuildWithoutNodes, HeldWhere
  <2>2. OnlineFromHob' BY <1>12 DEF BuildWithoutNodes, OnlineFromHob
  <2>3. ListsSafe' /\ TablesSafe' BY <1>12, ListsSame, TablesSame DEF BuildWithoutNodes
  <2> QED BY <1>0, <2>1, <2>2, <2>3
<1>13. CASE Install
  <2>1. HeldWhere' BY <1>13 DEF Install, Return, FreeBuild, HeldWhere
  <2>2. OnlineFromHob' BY <1>13 DEF Install, Return, OnlineFromHob
  <2>3. ListsSafe' BY <1>13, ListsCleared DEF Install, Return
  <2>4. TablesSafe' BY <1>13, InstallTables
  <2> QED BY <1>0, <2>1, <2>2, <2>3, <2>4
<1>14. CASE InstallFails
  <2>1. HeldWhere' BY <1>14 DEF InstallFails, Return, FreeBuild, HeldWhere
  <2>2. OnlineFromHob' BY <1>14 DEF InstallFails, Return, OnlineFromHob
  <2>3. ListsSafe' /\ TablesSafe'
    BY <1>14, ListsCleared, TablesSame DEF InstallFails, Return
  <2> QED BY <1>0, <2>1, <2>2, <2>3
<1>15. CASE Restart
  <2>1. HeldWhere' BY <1>15 DEF Restart, Return, FreeBuild, HeldWhere
  <2>2. OnlineFromHob' BY <1>15 DEF Restart, Return, OnlineFromHob
  <2>3. ListsSafe' BY <1>15, ListsCleared DEF Restart, Return
  <2>4. TablesSafe' BY <1>15 DEF Restart, TablesSafe
  <2> QED BY <1>0, <2>1, <2>2, <2>3, <2>4
<1>16. CASE UNCHANGED vars
  <2>1. HeldWhere' /\ OnlineFromHob' BY <1>16 DEF vars, HeldWhere, OnlineFromHob
  <2>2. ListsSafe' /\ TablesSafe' BY <1>16, ListsSame, TablesSame DEF vars
  <2> QED BY <1>0, <2>1, <2>2
<1> QED
  BY <1>1, <1>2, <1>3, <1>4, <1>5, <1>6, <1>7, <1>8, <1>9, <1>10, <1>11,
     <1>12, <1>13, <1>14, <1>15, <1>16 DEF Next, Step

(* The inductive invariant holds in every reachable state.                 *)
LEMMA Invariance == Spec => []IndInv
BY InitInv, NextInv, PTL DEF Spec

(* No run of fix_dsdt, whatever fails in it and however often it is        *)
(* repeated, gives _STA = 0 to a controller with an enabled DIMM or to a   *)
(* device that is not a DDR controller.                                    *)
THEOREM OnlyOfflineDisabled == Spec => []DisablesOnlyOffline
<1>1. IndInv => DisablesOnlyOffline
  BY DEF IndInv, TablesSafe, DisablesOnlyOffline, GivenSta, Disableable, KnownOffline
<1> QED BY <1>1, Invariance, PTL

(* Over all runs a device is given at most one _HID, and only when the     *)
(* firmware gave it neither _HID nor _ADR.                                 *)
THEOREM HidGivenOnce == Spec => []HidOnlyOnce
<1>1. IndInv => HidOnlyOnce
  BY DEF IndInv, TablesSafe, HidOnlyOnce, GivenHid, Unidentified
<1> QED BY <1>1, Invariance, PTL

(* Every return of fix_dsdt leaves uACPI reset and the build phase freed.  *)
THEOREM ReleasedOnReturn == Spec => []ResourcesReleased
<1>1. IndInv => ResourcesReleased
  BY DEF IndInv, HeldWhere, ResourcesReleased
<1> QED BY <1>1, Invariance, PTL

-----------------------------------------------------------------------------
(* No device is forgotten *)

(* devpath_list_append_uacpi_object_names drops no earlier entry, and when *)
(* it changes the list the device is on it.                                *)
LEMMA AppendedGrows ==
    ASSUME NEW list \in Seq(Name), NEW d \in Device, DepthOk(d),
           NEW new \in Appended(list, d)
    PROVE  /\ ListTargets(list) \subseteq ListTargets(new)
           /\ new # list => d \in ListTargets(new)
<1>1. CASE new = list BY <1>1
<1>2. CASE new = Append(list, NameOf(d))
  BY <1>2, NameRoundTrip, AppendTargets
<1> QED BY <1>1, <1>2 DEF Appended

(* Without a failure of malloc the list does change.                       *)
LEMMA AppendedChanges ==
    ASSUME NEW list \in Seq(Name), NEW d \in Device, DepthOk(d), ~ AllocFails,
           NEW new \in Appended(list, d)
    PROVE  new # list
<1>1. new = Append(list, NameOf(d)) BY DEF Appended
<1>2. Len(new) = Len(list) + 1 /\ Len(list) \in Nat BY <1>1, NameRoundTrip
<1> QED BY <1>2

(* The other half of dsdt_walker's decision: an offline controller that is *)
(* not disabled yet is recorded.                                           *)
LEMMA OfflineIsRecorded ==
    ASSUME TypeOK, OnlineFromHob, pc = "walk", NEW d \in Device,
           NEW a \in CrsBases(d), DepthOk(d), KnownOffline(d), ~ StaIsZero(d)
    PROVE  RecordsOffline(d, a)
<1>1. ns[d].hid = "HISI0233" /\ ns[d].crs = "ok" /\ a = ns[d].addr
  BY DEF KnownOffline, CrsBases
<1>2. ~ IsOnline(a)
  <2>1. CASE hi1620 /\ HasMemoryMap(hob)
    <3>1. online = OnlineArray(MemoryMap(hob))
      BY <2>1 DEF OnlineFromHob, hob_get_online_ddrcs
    <3>2. ~ OnOnlineChannel(d)
      BY <2>1 DEF KnownOffline
    <3>3. ~ \E s \in Socket, c \in Channel :
              ChannelOnline(MemoryMap(hob), s, c) /\ a = DdrcBase(s, c)
      BY <1>1, <3>2 DEF OnOnlineChannel
    <3>4. ASSUME NEW i \in Slots, online[i] # 0, online[i] = a
          PROVE  FALSE
      BY <3>1, <3>3, <3>4, OnlineArrayOnly
    <3> QED BY <3>4 DEF IsOnline
  <2>2. CASE ~ (hi1620 /\ HasMemoryMap(hob))
    <3>1. online = NoDdrcs
      BY <2>2 DEF OnlineFromHob, hob_get_online_ddrcs
    <3> QED BY <3>1 DEF IsOnline, NoDdrcs
  <2> QED BY <2>1, <2>2
<1>3. HasHid(d) BY <1>1 DEF HasHid
<1> QED BY <1>1, <1>2, <1>3 DEF RecordsOffline

(* What is said of a device depends on the firmware's tables and on the    *)
(* SSDTs only.                                                             *)
LEMMA FixedSame ==
    ASSUME UNCHANGED <<env, ssdts>>
    PROVE  /\ \A d : Fixed(d)' <=> Fixed(d)
           /\ \A d : HasHid(d)' <=> HasHid(d)
           /\ \A d : StaIsZero(d)' <=> StaIsZero(d)
           /\ \A d : KnownOffline(d)' <=> KnownOffline(d)
BY DEF env, Fixed, HasHid, GivenHid, StaIsZero, GivenSta, KnownOffline,
       OnOnlineChannel

(* A step that leaves the lists alone keeps what is said of them.          *)
LEMMA ListedSame ==
    ASSUME UNCHANGED <<env, ssdts, missing_hids, offline_ddrcs>>
    PROVE  \A d : FixedOrListed(d)' <=> FixedOrListed(d)
BY FixedSame DEF env, FixedOrListed

(* A visit takes care of the visited device, or counts it as lost, and     *)
(* undoes nothing done for another.                                        *)
LEMMA WalkNodeCovers ==
    ASSUME IndInv, NEW d \in Device, WalkNode(d)
    PROVE  /\ \A e \in Device : FixedOrListed(e) => FixedOrListed(e)'
           /\ d \notin lost' => FixedOrListed(d)'
           /\ lost \subseteq lost'
<1> USE DEF IndInv
<1>1. UNCHANGED <<env, ssdts>> /\ pc = "walk" BY DEF WalkNode
<1>2. missing_hids \in Seq(Name) /\ offline_ddrcs \in Seq(Name)
  BY DEF TypeOK
<1>3. /\ ListTargets(missing_hids) \subseteq ListTargets(missing_hids')
      /\ NeedsHid(d) /\ missing_hids' # missing_hids => d \in ListTargets(missing_hids')
  <2>1. CASE NeedsHid(d)
    <3>1. DepthOk(d) /\ missing_hids' \in Appended(missing_hids, d)
      BY <2>1 DEF WalkNode, NeedsHid
    <3> QED BY <1>2, <3>1, AppendedGrows
  <2>2. CASE ~ NeedsHid(d) BY <2>2 DEF WalkNode
  <2> QED BY <2>1, <2>2
<1>4. PICK a \in CrsBases(d) :
          /\ IF RecordsOffline(d, a)
             THEN offline_ddrcs' \in Appended(offline_ddrcs, d)
             ELSE offline_ddrcs' = offline_ddrcs
          /\ lost' = IF \/ NeedsHid(d) /\ missing_hids' = missing_hids
                        \/ RecordsOffline(d, a) /\ offline_ddrcs' = offline_ddrcs
                     THEN lost \cup {d} ELSE lost
  BY DEF WalkNode
<1>5. /\ ListTargets(offline_ddrcs) \subseteq ListTargets(offline_ddrcs')
      /\ RecordsOffline(d, a) /\ offline_ddrcs' # offline_ddrcs =>
            d \in ListTargets(offline_ddrcs')
  <2>1. CASE RecordsOffline(d, a)
    <3>1. DepthOk(d) /\ offline_ddrcs' \in Appended(offline_ddrcs, d)
      BY <1>4, <2>1 DEF RecordsOffline
    <3> QED BY <1>2, <3>1, AppendedGrows
  <2>2. CASE ~ RecordsOffline(d, a) BY <1>4, <2>2
  <2> QED BY <2>1, <2>2
<1>6. \A e \in Device : FixedOrListed(e) => FixedOrListed(e)'
  BY <1>1, <1>3, <1>5, FixedSame DEF FixedOrListed, env
<1>7. ASSUME d \notin lost' PROVE FixedOrListed(d)'
  <2>1. /\ NeedsHid(d) => d \in ListTargets(missing_hids')
        /\ RecordsOffline(d, a) => d \in ListTargets(offline_ddrcs')
    BY <1>3, <1>4, <1>5, <1>7
  <2>2. DepthOk(d) => HasHid(d) \/ ns[d].adr \/ d \in ListTargets(missing_hids')
    BY <2>1 DEF NeedsHid
  <2>3. (DepthOk(d) /\ KnownOffline(d)) =>
            StaIsZero(d) \/ d \in ListTargets(offline_ddrcs')
    BY <1>1, <2>1, OfflineIsRecorded
  <2> QED BY <1>1, <2>2, <2>3, FixedSame DEF FixedOrListed, env
<1>8. lost \subseteq lost' BY <1>4
<1> QED BY <1>6, <1>7, <1>8

(* The installed table fixes every device on the lists, and leaves the     *)
(* others as they were.                                                    *)
LEMMA InstallFixes ==
    ASSUME IndInv, Install
    PROVE  /\ \A d : HasHid(d) => HasHid(d)'
           /\ \A d : StaIsZero(d) => StaIsZero(d)'
           /\ \A d : Fixed(d) => Fixed(d)'
           /\ \A d : d \notin NamedBy(gone) /\ FixedOrListed(d) => Fixed(d)'
<1> USE DEF IndInv
<1>1. UNCHANGED env /\ ssdts' = Append(ssdts, BuiltSsdt)
  BY DEF Install
<1>2. ssdts \in Seq(Ssdt) /\ BuiltSsdt \in Ssdt
  BY DEF TypeOK, BuiltSsdt, Ssdt
<1>3. /\ DOMAIN ssdts = 1 .. Len(ssdts) /\ DOMAIN ssdts' = 1 .. Len(ssdts) + 1
      /\ \A i \in DOMAIN ssdts : i \in DOMAIN ssdts' /\ ssdts'[i] = ssdts[i]
      /\ Len(ssdts) + 1 \in DOMAIN ssdts'
      /\ ssdts'[Len(ssdts) + 1] = BuiltSsdt
  BY <1>1, <1>2
<1>4. \A d : GivenHid(d) \/ d \in HidTargets(BuiltSsdt) => GivenHid(d)'
  BY <1>3 DEF GivenHid
<1>5. \A d : GivenSta(d) \/ d \in StaTargets(BuiltSsdt) => GivenSta(d)'
  BY <1>3 DEF GivenSta
<1>6. /\ \A d : HasHid(d) => HasHid(d)'
      /\ \A d : StaIsZero(d) => StaIsZero(d)'
      /\ \A d : KnownOffline(d)' <=> KnownOffline(d)
  BY <1>1, <1>4, <1>5 DEF env, HasHid, StaIsZero, KnownOffline, OnOnlineChannel
<1>7. \A d : Fixed(d) => Fixed(d)'
  BY <1>1, <1>6 DEF Fixed, env
<1>8. ASSUME NEW d, d \notin NamedBy(gone), FixedOrListed(d) PROVE Fixed(d)'
  <2>1. /\ d \in ListTargets(missing_hids) => d \in HidTargets(BuiltSsdt)
        /\ d \in ListTargets(offline_ddrcs) => d \in StaTargets(BuiltSsdt)
    BY <1>8, BuiltTargets
  <2>2. d \in ListTargets(missing_hids) => HasHid(d)'
    BY <1>4, <2>1 DEF HasHid
  <2>3. d \in ListTargets(offline_ddrcs) /\ ns[d].sta = "absent" => StaIsZero(d)'
    BY <1>1, <1>5, <2>1 DEF StaIsZero, env
  <2> QED BY <1>1, <1>6, <1>8, <2>2, <2>3 DEF FixedOrListed, Fixed, env
<1> QED BY <1>6, <1>7, <1>8

(* Every step keeps both halves of the argument: the walk covers what it   *)
(* has visited, and a call that returned 0 left nothing undone.            *)
LEMMA NextCovers ==
    IndInv /\ WalkCovers /\ CompleteFix /\ [Next]_vars => WalkCovers' /\ CompleteFix'
<1> SUFFICES ASSUME IndInv, WalkCovers, CompleteFix, [Next]_vars
             PROVE  WalkCovers' /\ CompleteFix'
    OBVIOUS
<1> USE DEF env, locals
<1>1. CASE Enter BY <1>1 DEF Enter, WalkCovers, CompleteFix
<1>2. CASE Initialize BY <1>2 DEF Initialize, WalkCovers, CompleteFix
<1>3. CASE InitializeFails
  BY <1>3 DEF InitializeFails, Return, WalkCovers, CompleteFix
<1>4. CASE LoadNamespace
  <2>1. pc' = "walk" /\ todo' = Device BY <1>4 DEF LoadNamespace
  <2> QED BY <2>1 DEF WalkCovers, CompleteFix
<1>5. CASE LoadNamespaceFails
  BY <1>5 DEF LoadNamespaceFails, Return, WalkCovers, CompleteFix
<1>6. ASSUME NEW d \in Device, WalkNode(d) PROVE WalkCovers' /\ CompleteFix'
  <2>1. pc = "walk" /\ pc' = "walk" /\ todo' = todo \ {d} BY <1>6 DEF WalkNode
  <2>2. \A e \in Device \ (todo' \cup lost') : FixedOrListed(e)'
    BY <1>6, <2>1, WalkNodeCovers DEF WalkCovers
  <2> QED BY <2>1, <2>2 DEF WalkCovers, CompleteFix
<1>7. ASSUME NEW d \in Device, WalkBadNode(d) PROVE WalkCovers' /\ CompleteFix'
  <2>1. /\ pc = "walk" /\ pc' \in {"walk", "crashed"}
        /\ todo' = todo \ {d} /\ lost' = lost \cup {d}
        /\ UNCHANGED <<env, ssdts, missing_hids, offline_ddrcs>>
    BY <1>7 DEF WalkBadNode
  <2>2. \A e \in Device \ (todo' \cup lost') : FixedOrListed(e)'
    BY <2>1, ListedSame DEF WalkCovers
  <2> QED BY <2>1, <2>2 DEF WalkCovers, CompleteFix
<1>8. CASE WalkAborted
  <2>1. /\ pc = "walk" /\ pc' = "walk" /\ todo' = {} /\ lost' = lost \cup todo
        /\ UNCHANGED <<env, ssdts, missing_hids, offline_ddrcs>>
    BY <1>8 DEF WalkAborted
  <2>2. \A e \in Device \ (todo' \cup lost') : FixedOrListed(e)'
    BY <2>1, ListedSame DEF WalkCovers
  <2> QED BY <2>1, <2>2 DEF WalkCovers, CompleteFix
<1>9. CASE WalkDone
  <2>1. /\ pc = "walk" /\ todo = {}
        /\ UNCHANGED <<env, ssdts, lost>>
    BY <1>9 DEF WalkDone
  <2>2. \A e \in Device \ lost : FixedOrListed(e)
    BY <2>1 DEF WalkCovers
  <2>3. CASE missing_hids = <<>> /\ offline_ddrcs = <<>>
    <3>1. pc' = "idle" BY <1>9, <2>3 DEF WalkDone, Return
    <3>2. \A e \in Device \ lost : Fixed(e)
      BY <2>2, <2>3, EmptyTargets DEF FixedOrListed, Fixed
    <3>3. \A e \in Device \ lost' : Fixed(e)'
      BY <2>1, <3>2, FixedSame
    <3> QED BY <3>1, <3>3 DEF WalkCovers, CompleteFix
  <2>4. CASE ~ (missing_hids = <<>> /\ offline_ddrcs = <<>>)
    <3>1. pc' = "build" /\ UNCHANGED locals BY <1>9, <2>4 DEF WalkDone
    <3>2. \A e \in Device \ lost' : FixedOrListed(e)'
      BY <2>1, <2>2, <3>1, ListedSame
    <3> QED BY <2>1, <3>1, <3>2 DEF WalkCovers, CompleteFix
  <2> QED BY <2>3, <2>4
<1>10. CASE Build
  <2>1. /\ pc = "build" /\ pc' = "install" /\ gone' = NoneGone
        /\ UNCHANGED <<env, ssdts, locals, lost>>
    BY <1>10 DEF Build
  <2>2. \A e \in Device \ (todo' \cup lost') : FixedOrListed(e)'
    BY <2>1, ListedSame DEF WalkCovers
  <2>3. NamedBy(gone)' = {} BY <2>1 DEF NamedBy, NoneGone
  <2> QED BY <2>1, <2>2, <2>3 DEF WalkCovers, CompleteFix
<1>11. CASE BuildCrashes
  BY <1>11 DEF BuildCrashes, WalkCovers, CompleteFix
<1>12. CASE BuildWithoutNodes
  <2>1. /\ pc = "build" /\ pc' = "install" /\ lost' = lost \cup NamedBy(gone')
        /\ UNCHANGED <<env, ssdts, locals>>
    BY <1>12 DEF BuildWithoutNodes
  <2>2. \A e \in Device \ (todo' \cup lost') : FixedOrListed(e)'
    BY <2>1, ListedSame DEF WalkCovers
  <2>3. NamedBy(gone)' = NamedBy(gone') BY <2>1 DEF NamedBy, Targets, DecodeName
  <2> QED BY <2>1, <2>2, <2>3 DEF WalkCovers, CompleteFix
<1>13. CASE Install
  <2>1. pc = "install" /\ pc' = "idle" /\ lost' = lost
    BY <1>13 DEF Install, Return
  <2>2. \A e \in Device \ lost' : FixedOrListed(e) /\ e \notin NamedBy(gone)
    BY <2>1 DEF WalkCovers
  <2>3. \A e \in Device \ lost' : Fixed(e)'
    BY <1>13, <2>2, InstallFixes
  <2> QED BY <2>1, <2>3 DEF WalkCovers, CompleteFix
<1>14. CASE InstallFails
  BY <1>14 DEF InstallFails, Return, WalkCovers, CompleteFix
<1>15. CASE Restart
  BY <1>15 DEF Restart, Return, WalkCovers, CompleteFix
<1>16. CASE UNCHANGED vars
  <2>1. NamedBy(gone)' = NamedBy(gone)
    BY <1>16 DEF vars, NamedBy, Targets, DecodeName
  <2> QED BY <1>16, <2>1, FixedSame, ListedSame DEF vars, WalkCovers, CompleteFix
<1> QED
  BY <1>1, <1>2, <1>3, <1>4, <1>5, <1>6, <1>7, <1>8, <1>9, <1>10, <1>11,
     <1>12, <1>13, <1>14, <1>15, <1>16 DEF Next, Step

(* What the walk covers, in every reachable state.                         *)
LEMMA CoversInvariance == Spec => [](WalkCovers /\ CompleteFix)
<1>1. Init => WalkCovers /\ CompleteFix
  BY DEF Init, WalkCovers, CompleteFix
<1> QED BY <1>1, NextCovers, Invariance, PTL DEF Spec

(* A call of fix_dsdt that returned 0 left no nameable device without a    *)
(* _HID or _ADR and no offline controller enabled, except those that a     *)
(* failure of malloc or uACPI made it lose.                                *)
THEOREM NothingLeftOut == Spec => []CompleteFix
BY CoversInvariance, PTL

-----------------------------------------------------------------------------
(* A second call finds nothing to do *)

(* Steps that touch neither the tables nor the lists, and do not enter the *)
(* build phase.                                                            *)
LEMMA RepeatSame ==
    ASSUME FirstFixesAll, OnlyStubbornAgain,
           UNCHANGED <<env, ssdts>>, lost' = {},
           missing_hids' \in {missing_hids, <<>>},
           offline_ddrcs' \in {offline_ddrcs, <<>>},
           pc' \in {"build", "install"} => ssdts = <<>> \/ \E d \in Device : Stubborn(d)
    PROVE  FirstFixesAll' /\ OnlyStubbornAgain'
<1>1. FirstFixesAll' BY FixedSame DEF FirstFixesAll
<1>2. \A d : Stubborn(d)' <=> Stubborn(d) BY DEF env, Stubborn
<1>3. OnlyStubbornAgain' BY <1>2 DEF OnlyStubbornAgain
<1> QED BY <1>1, <1>3

(* A walk over a fixed namespace: no _HID is missing, and only a stubborn  *)
(* controller is recorded.                                                 *)
LEMMA FixedNotRecorded ==
    ASSUME IndInv, pc = "walk", NEW d \in Device, Fixed(d)
    PROVE  /\ ~ NeedsHid(d)
           /\ ~ Stubborn(d) => \A a \in CrsBases(d) : ~ RecordsOffline(d, a)
<1>1. ~ NeedsHid(d) BY DEF Fixed, NeedsHid
<1>2. ASSUME ~ Stubborn(d), NEW a \in CrsBases(d), RecordsOffline(d, a)
      PROVE  FALSE
  <2>1. /\ DepthOk(d) /\ ~ StaIsZero(d) /\ ns[d].hid = "HISI0233"
    BY <1>2 DEF RecordsOffline
  <2>2. d \in Disableable BY <1>2, RecordedIsDisableable DEF IndInv
  <2>3. KnownOffline(d) BY <1>2, <2>1, <2>2 DEF Stubborn, Disableable
  <2>4. ns[d] \in Attr BY DsdtConstants DEF IndInv, TypeOK
  <2>5. ns[d].sta \in {"absent", "zero"} BY <1>2, <2>1, <2>4 DEF Stubborn, Attr
  <2>6. ns[d].sta = "absent" BY <2>1, <2>5 DEF StaIsZero
  <2> QED BY <2>1, <2>3, <2>6 DEF Fixed
<1> QED BY <1>1, <1>2

(* A visit without failures.                                               *)
LEMMA WalkNodeRepeat ==
    ASSUME ~ AllocFails, IndInv, FirstFixesAll, OnlyStubbornAgain,
           NEW d \in Device, WalkNode(d)
    PROVE  FirstFixesAll' /\ OnlyStubbornAgain'
<1>1. /\ UNCHANGED <<env, ssdts>> /\ pc = "walk" /\ pc' = "walk"
      /\ missing_hids \in Seq(Name) /\ offline_ddrcs \in Seq(Name)
  BY DEF WalkNode, IndInv, TypeOK
<1>2. PICK a \in CrsBases(d) :
          /\ IF RecordsOffline(d, a)
             THEN offline_ddrcs' \in Appended(offline_ddrcs, d)
             ELSE offline_ddrcs' = offline_ddrcs
          /\ lost' = IF \/ NeedsHid(d) /\ missing_hids' = missing_hids
                        \/ RecordsOffline(d, a) /\ offline_ddrcs' = offline_ddrcs
                     THEN lost \cup {d} ELSE lost
  BY DEF WalkNode
<1>3. NeedsHid(d) => missing_hids' # missing_hids
  BY <1>1, AppendedChanges DEF WalkNode, NeedsHid
<1>4. RecordsOffline(d, a) => offline_ddrcs' # offline_ddrcs
  BY <1>1, <1>2, AppendedChanges DEF RecordsOffline
<1>5. lost' = {} BY <1>2, <1>3, <1>4 DEF FirstFixesAll
<1>6. ssdts # <<>> =>
          /\ missing_hids' = missing_hids
          /\ ~ Stubborn(d) => offline_ddrcs' = offline_ddrcs
  BY <1>1, <1>2, FixedNotRecorded DEF WalkNode, FirstFixesAll
<1>7. FirstFixesAll'
  BY <1>1, <1>5, <1>6, FixedSame DEF FirstFixesAll
<1>8. \A e : Stubborn(e)' <=> Stubborn(e) BY <1>1 DEF env, Stubborn
<1>9. OnlyStubbornAgain'
  BY <1>1, <1>6, <1>8 DEF OnlyStubbornAgain
<1> QED BY <1>7, <1>9

(* The first table fixes everything; a later one gives no _HID.            *)
LEMMA InstallRepeat ==
    ASSUME IndInv, WalkCovers, FirstFixesAll, OnlyStubbornAgain, Install
    PROVE  FirstFixesAll' /\ OnlyStubbornAgain'
<1>1. /\ UNCHANGED <<env, lost>> /\ ssdts' = Append(ssdts, BuiltSsdt)
      /\ pc = "install" /\ pc' = "idle"
      /\ missing_hids' = <<>> /\ offline_ddrcs' = <<>>
  BY DEF Install, Return
<1>2. ssdts \in Seq(Ssdt) /\ BuiltSsdt \in Ssdt /\ BuiltSsdt.hid = missing_hids
  BY DEF IndInv, TypeOK, BuiltSsdt, Ssdt
<1>3. /\ DOMAIN ssdts = 1 .. Len(ssdts) /\ DOMAIN ssdts' = 1 .. Len(ssdts) + 1
      /\ Len(ssdts) \in Nat /\ Len(ssdts') = Len(ssdts) + 1
      /\ \A i \in DOMAIN ssdts : ssdts'[i] = ssdts[i]
      /\ ssdts'[Len(ssdts) + 1] = BuiltSsdt
      /\ ssdts = <<>> <=> Len(ssdts) = 0
  BY <1>1, <1>2
<1>4. \A d \in Device : Fixed(d)'
  <2>1. \A d \in Device : FixedOrListed(d) /\ d \notin NamedBy(gone)
    BY <1>1 DEF WalkCovers, FirstFixesAll
  <2> QED BY <2>1, InstallFixes
<1>5. ASSUME NEW i \in DOMAIN ssdts', i # 1 PROVE ssdts'[i].hid = <<>>
  <2>1. i \in DOMAIN ssdts \/ i = Len(ssdts) + 1 BY <1>3
  <2>2. CASE i \in DOMAIN ssdts BY <1>3, <1>5, <2>2 DEF FirstFixesAll
  <2>3. CASE i = Len(ssdts) + 1
    <3>1. ssdts # <<>> BY <1>3, <1>5, <2>3
    <3> QED BY <1>2, <1>3, <2>3, <3>1 DEF FirstFixesAll
  <2> QED BY <2>1, <2>2, <2>3
<1>6. FirstFixesAll' BY <1>1, <1>4, <1>5 DEF FirstFixesAll
<1>7. \A e : Stubborn(e)' <=> Stubborn(e) BY <1>1 DEF env, Stubborn
<1>8. ASSUME \A d \in Device : ~ Stubborn(d) PROVE Len(ssdts') <= 1
  BY <1>1, <1>3, <1>8 DEF OnlyStubbornAgain
<1>9. OnlyStubbornAgain' BY <1>1, <1>7, <1>8 DEF OnlyStubbornAgain
<1> QED BY <1>6, <1>9

(* Every step of a machine on which malloc and uACPI do not fail.          *)
LEMMA NextRepeat ==
    ASSUME ~ AllocFails, ~ UacpiFails
    PROVE  /\ IndInv /\ WalkCovers /\ FirstFixesAll /\ OnlyStubbornAgain
           /\ [Next]_vars
           => FirstFixesAll' /\ OnlyStubbornAgain'
<1> SUFFICES ASSUME IndInv, WalkCovers, FirstFixesAll, OnlyStubbornAgain, [Next]_vars
             PROVE  FirstFixesAll' /\ OnlyStubbornAgain'
    OBVIOUS
<1> USE DEF env, locals
<1>0. lost = {} BY DEF FirstFixesAll
<1>1. CASE Enter BY <1>1, RepeatSame DEF Enter
<1>2. CASE Initialize BY <1>0, <1>2, RepeatSame DEF Initialize
<1>3. CASE InitializeFails BY <1>0, <1>3, RepeatSame DEF InitializeFails, Return
<1>4. CASE LoadNamespace BY <1>0, <1>4, RepeatSame DEF LoadNamespace
<1>5. CASE LoadNamespaceFails
  BY <1>0, <1>5, RepeatSame DEF LoadNamespaceFails, Return
<1>6. ASSUME NEW d \in Device, WalkNode(d) PROVE FirstFixesAll' /\ OnlyStubbornAgain'
  BY <1>6, WalkNodeRepeat
<1>7. CASE WalkDone
  <2>1. pc = "walk" /\ UNCHANGED <<env, ssdts, lost>> BY <1>7 DEF WalkDone
  <2>2. CASE missing_hids = <<>> /\ offline_ddrcs = <<>>
    BY <1>0, <1>7, <2>1, <2>2, RepeatSame DEF WalkDone, Return
  <2>3. CASE ~ (missing_hids = <<>> /\ offline_ddrcs = <<>>)
    <3>1. UNCHANGED locals BY <1>7, <2>3 DEF WalkDone
    <3>2. ssdts = <<>> \/ \E d \in Device : Stubborn(d)
      BY <2>3 DEF FirstFixesAll, OnlyStubbornAgain
    <3> QED BY <1>0, <2>1, <3>1, <3>2, RepeatSame
  <2> QED BY <2>2, <2>3
<1>8. CASE Build
  <2>1. ssdts = <<>> \/ \E d \in Device : Stubborn(d)
    BY <1>8 DEF Build, OnlyStubbornAgain
  <2> QED BY <1>0, <1>8, <2>1, RepeatSame DEF Build
<1>9. CASE Install BY <1>9, InstallRepeat
<1>10. CASE InstallFails BY <1>0, <1>10, RepeatSame DEF InstallFails, Return
<1>11. CASE Restart
  <2>1. ssdts' = <<>> /\ lost' = {} BY <1>11 DEF Restart
  <2> QED BY <2>1 DEF FirstFixesAll, OnlyStubbornAgain
<1>12. CASE UNCHANGED vars
  BY <1>12, FixedSame DEF vars, FirstFixesAll, OnlyStubbornAgain, Stubborn
<1> QED
  BY <1>1, <1>2, <1>3, <1>4, <1>5, <1>6, <1>7, <1>8, <1>9, <1>10, <1>11, <1>12
  DEF Next, Step, WalkBadNode, WalkAborted, BuildCrashes, BuildWithoutNodes

(* What a repeated call relies on, in every reachable state.               *)
LEMMA RepeatInvariance ==
    ASSUME ~ AllocFails, ~ UacpiFails
    PROVE  Spec => [](FirstFixesAll /\ OnlyStubbornAgain)
<1>1. Init => FirstFixesAll /\ OnlyStubbornAgain
  BY DEF Init, FirstFixesAll, OnlyStubbornAgain
<1>2. IndInv /\ WalkCovers /\ FirstFixesAll /\ OnlyStubbornAgain /\ [Next]_vars
          => FirstFixesAll' /\ OnlyStubbornAgain'
  BY NextRepeat
<1> QED BY <1>1, <1>2, Invariance, CoversInvariance, PTL DEF Spec

(* As long as malloc and uACPI do not fail, fix_dsdt never hands out a HID *)
(* number twice between two starts of the machine, although every call     *)
(* counts from 1 again.                                                    *)
THEOREM NumbersNotReused ==
    ASSUME ~ AllocFails, ~ UacpiFails
    PROVE  Spec => []HidUnique
<1>1. FirstFixesAll => HidUnique
  <2> SUFFICES ASSUME FirstFixesAll, NEW t \in DOMAIN ssdts,
                      NEW u \in DOMAIN ssdts, t # u
               PROVE  Numbers(ssdts[t]) \cap Numbers(ssdts[u]) = {}
      BY DEF HidUnique
  <2>1. DOMAIN <<>> = {} OBVIOUS
  <2> QED BY <2>1 DEF FirstFixesAll, Numbers
<1> QED BY <1>1, RepeatInvariance, PTL

(* As long as malloc and uACPI do not fail, and unless the firmware left a *)
(* controller no SSDT can settle, calling fix_dsdt again before a restart  *)
(* installs no second SSDT.                                                *)
THEOREM SecondCallInstallsNothing ==
    ASSUME ~ AllocFails, ~ UacpiFails
    PROVE  Spec => []OneSsdtPerBoot
<1>1. OnlyStubbornAgain => OneSsdtPerBoot
  BY DEF OnlyStubbornAgain, OneSsdtPerBoot
<1> QED BY <1>1, RepeatInvariance, PTL

-----------------------------------------------------------------------------
(* Refinement of DsdtContract *)

(* A step that installs nothing leaves the contract's view unchanged.      *)
LEMMA EffectsSame ==
    ASSUME UNCHANGED <<env, ssdts>>
    PROVE  /\ Unidentified' = Unidentified /\ Disableable' = Disableable
           /\ TableEffects' = TableEffects
BY EnvSame DEF TableEffects

(* No tables, no effects: the contract starts from an empty list.          *)
LEMMA NoEffects == ssdts = <<>> => TableEffects = <<>>
BY DEF TableEffects

(* The devices the contract calls identified are those with a given _HID.  *)
LEMMA IdentifiedIsGiven ==
    \A d : d \in Contract!Identified <=> GivenHid(d)
BY DEF Contract!Identified, TableEffects, GivenHid

(* A step that leaves the tables and keeps fix_dsdt running is invisible;  *)
(* one that only returns is the contract's ReturnUnchanged.                *)
LEMMA InternalStep ==
    ASSUME UNCHANGED <<env, ssdts, result>>, pc # "idle", pc' # "idle"
    PROVE  UNCHANGED Contract!vars
BY EffectsSame DEF Contract!vars

(* A return of fix_dsdt that installs nothing is ReturnUnchanged.          *)
LEMMA ReturnStep ==
    ASSUME UNCHANGED <<env, ssdts>>, pc # "idle", pc' = "idle", result' \in {0, 1}
    PROVE  Contract!ReturnUnchanged
BY EffectsSame DEF Contract!ReturnUnchanged

(* Installing the built SSDT is the contract's ReturnFixed.                *)
LEMMA InstallStep ==
    ASSUME IndInv, Install
    PROVE  Contract!ReturnFixed
<1> DEFINE t == [hid |-> HidTargets(BuiltSsdt), sta |-> StaTargets(BuiltSsdt)]
<1>1. /\ UNCHANGED env /\ ssdts' = Append(ssdts, BuiltSsdt)
      /\ pc = "install" /\ pc' = "idle" /\ result' = 0
  BY DEF Install, Return
<1>2. /\ HidTargets(BuiltSsdt) \subseteq {e \in Unidentified : ~ GivenHid(e)}
      /\ StaTargets(BuiltSsdt) \subseteq Disableable
  BY BuiltTargets DEF IndInv, ListsSafe
<1>3. t \in [hid : SUBSET (Unidentified \ Contract!Identified), sta : SUBSET Disableable]
  BY <1>2, IdentifiedIsGiven DEF Unidentified, Disableable
<1>4. TableEffects' = Append(TableEffects, t)
  <2>1. ssdts \in Seq(Ssdt) /\ BuiltSsdt \in Ssdt
    BY DEF IndInv, TypeOK, BuiltSsdt, Ssdt
  <2>2. /\ DOMAIN ssdts = 1 .. Len(ssdts) /\ DOMAIN ssdts' = 1 .. Len(ssdts) + 1
        /\ \A i \in DOMAIN ssdts : ssdts'[i] = ssdts[i]
        /\ ssdts'[Len(ssdts) + 1] = BuiltSsdt
        /\ Len(ssdts) \in Nat
    BY <1>1, <2>1
  <2> DEFINE Effect == [hid : SUBSET Device, sta : SUBSET Device]
             Eff(x) == [hid |-> HidTargets(x), sta |-> StaTargets(x)]
  <2>3. \A x : Eff(x) \in Effect
    BY DEF HidTargets, StaTargets, Targets
  <2>4. TableEffects = [i \in 1 .. Len(ssdts) |-> Eff(ssdts[i])]
    BY <2>2 DEF TableEffects
  <2>5. TableEffects' = [i \in 1 .. Len(ssdts) + 1 |-> Eff(ssdts'[i])]
    BY <2>2 DEF TableEffects
  <2> HIDE DEF Effect, Eff
  <2>6. TableEffects \in Seq(Effect) /\ Len(TableEffects) = Len(ssdts)
    BY <2>2, <2>3, <2>4
  <2>7. TableEffects' \in Seq(Effect) /\ Len(TableEffects') = Len(ssdts) + 1
    BY <2>2, <2>3, <2>5
  <2>8. t \in Effect /\ t = Eff(BuiltSsdt)
    BY <2>3 DEF Eff
  <2> HIDE DEF t
  <2>9. /\ Append(TableEffects, t) \in Seq(Effect)
        /\ Len(Append(TableEffects, t)) = Len(ssdts) + 1
        /\ \A i \in 1 .. Len(ssdts) : Append(TableEffects, t)[i] = TableEffects[i]
        /\ Append(TableEffects, t)[Len(ssdts) + 1] = t
    BY <2>6, <2>8
  <2>10. ASSUME NEW i \in 1 .. Len(ssdts) + 1
         PROVE  TableEffects'[i] = Append(TableEffects, t)[i]
    <3>1. CASE i \in 1 .. Len(ssdts) BY <2>2, <2>4, <2>5, <2>9, <3>1
    <3>2. CASE i = Len(ssdts) + 1 BY <2>2, <2>5, <2>8, <2>9, <3>2
    <3>3. Len(ssdts) \in Nat BY <2>2
    <3>4. i \in 1 .. Len(ssdts) \/ i = Len(ssdts) + 1 BY <3>3
    <3> QED BY <3>1, <3>2, <3>4
  <2> QED BY <2>7, <2>9, <2>10, SeqEqual
<1> HIDE DEF t
<1> QED BY <1>1, <1>3, <1>4, EnvSame DEF Contract!ReturnFixed

(* fix_dsdt implements its contract: to whoever looks at the ACPI tables,  *)
(* a call is one step that adds nothing or one table, and that table names *)
(* only devices it may name.                                               *)
THEOREM ImplementsContract == Spec => KeepsContract
<1>1. Init => Contract!Init
  <2> SUFFICES ASSUME Init PROVE Contract!Init
      OBVIOUS
  <2>1. TableEffects = <<>> BY NoEffects DEF Init
  <2>2. Unidentified \in SUBSET Device /\ Disableable \in SUBSET Device
    BY DEF Unidentified, Disableable
  <2> QED BY <2>1, <2>2 DEF Init, Contract!Init
<1>2. IndInv /\ [Next]_vars => [Contract!Next]_(Contract!vars)
  <2> SUFFICES ASSUME IndInv, [Next]_vars PROVE [Contract!Next]_(Contract!vars)
      OBVIOUS
  <2> USE DEF env, locals
  <2>1. CASE Enter
    <3>1. Contract!Call BY <2>1, EffectsSame DEF Enter, Contract!Call
    <3> QED BY <3>1 DEF Contract!Next
  <2>2. CASE Initialize BY <2>2, InternalStep DEF Initialize
  <2>3. CASE InitializeFails
    BY <2>3, ReturnStep DEF InitializeFails, Return, Contract!Next
  <2>4. CASE LoadNamespace BY <2>4, InternalStep DEF LoadNamespace
  <2>5. CASE LoadNamespaceFails
    BY <2>5, ReturnStep DEF LoadNamespaceFails, Return, Contract!Next
  <2>6. ASSUME NEW d \in Device, WalkNode(d) PROVE UNCHANGED Contract!vars
    BY <2>6, InternalStep DEF WalkNode
  <2>7. ASSUME NEW d \in Device, WalkBadNode(d) PROVE UNCHANGED Contract!vars
    BY <2>7, InternalStep DEF WalkBadNode
  <2>8. CASE WalkAborted BY <2>8, InternalStep DEF WalkAborted
  <2>9. CASE WalkDone
    BY <2>9, InternalStep, ReturnStep DEF WalkDone, Return, Contract!Next
  <2>10. CASE Build BY <2>10, InternalStep DEF Build
  <2>11. ASSUME BuildCrashes \/ BuildWithoutNodes PROVE UNCHANGED Contract!vars
    BY <2>11, InternalStep DEF BuildCrashes, BuildWithoutNodes
  <2>12. CASE Install BY <2>12, InstallStep DEF Contract!Next
  <2>13. CASE InstallFails
    BY <2>13, ReturnStep DEF InstallFails, Return, Contract!Next
  <2>14. CASE Restart
    <3>1. TableEffects' = <<>> BY <2>14, NoEffects DEF Restart, TableEffects
    <3>2. Unidentified' \in SUBSET Device /\ Disableable' \in SUBSET Device
      BY DEF Unidentified, Disableable
    <3>3. Contract!Restart BY <2>14, <3>1, <3>2 DEF Restart, Return, Contract!Restart
    <3> QED BY <3>3 DEF Contract!Next
  <2>15. CASE UNCHANGED vars
    BY <2>15, EffectsSame DEF vars, Contract!vars
  <2> QED
    BY <2>1, <2>2, <2>3, <2>4, <2>5, <2>6, <2>7, <2>8, <2>9, <2>10, <2>11,
       <2>12, <2>13, <2>14, <2>15 DEF Next, Step
<1> QED BY <1>1, <1>2, Invariance, PTL DEF Spec, KeepsContract, Contract!Spec
=============================================================================
