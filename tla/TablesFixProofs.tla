-------------------------- MODULE TablesFixProofs --------------------------
(***************************************************************************)
(* Proofs about TablesFix, for every set of machines and lists of tables   *)
(* and any number of runs.                                                 *)
(***************************************************************************)
EXTENDS TablesFix, FiniteSetTheorems, SequenceTheorems, TLAPS

-----------------------------------------------------------------------------
(* Counting tables *)

Having(list, sig) == {i \in DOMAIN list : list[i].sig = sig}

LEMMA HavingFinite ==
    ASSUME NEW list \in Seq(Table), NEW sig
    PROVE  /\ IsFiniteSet(Having(list, sig))
           /\ Count(list, sig) = Cardinality(Having(list, sig))
           /\ Count(list, sig) \in Nat
<1>1. Len(list) \in Int /\ DOMAIN list = 1 .. Len(list)
  OBVIOUS
<1>2. IsFiniteSet(1 .. Len(list))
  BY <1>1, FS_Interval
<1>3. Having(list, sig) \in SUBSET (1 .. Len(list))
  BY <1>1 DEF Having
<1>4. IsFiniteSet(Having(list, sig))
  BY <1>2, <1>3, FS_Subset
<1> QED
  BY <1>4, FS_CardinalityType DEF Count, Having

LEMMA CountAppend ==
    ASSUME NEW list \in Seq(Table), NEW t \in Table, NEW sig
    PROVE  Count(Append(list, t), sig) = Count(list, sig) + (IF t.sig = sig THEN 1 ELSE 0)
<1> DEFINE new == Append(list, t)
<1> DEFINE n == Len(list)
<1>1. /\ new \in Seq(Table) /\ DOMAIN new = 1 .. n + 1 /\ DOMAIN list = 1 .. n /\ n \in Nat
      /\ new[n + 1] = t /\ \A i \in 1 .. n : new[i] = list[i]
  OBVIOUS
<1>2. /\ Count(new, sig) = Cardinality(Having(new, sig))
      /\ Count(list, sig) = Cardinality(Having(list, sig))
      /\ Count(list, sig) \in Nat
      /\ IsFiniteSet(Having(list, sig))
  BY <1>1, HavingFinite
<1> HIDE DEF new, n
<1>3. CASE t.sig = sig
  <2>1. Having(new, sig) = Having(list, sig) \cup {n + 1}
    BY <1>1, <1>3 DEF Having
  <2>2. n + 1 \notin Having(list, sig)
    BY <1>1 DEF Having
  <2>3. Cardinality(Having(list, sig) \cup {n + 1}) = Cardinality(Having(list, sig)) + 1
    BY <1>2, <2>2, FS_AddElement
  <2> QED
    BY <1>2, <1>3, <2>1, <2>3 DEF new
<1>4. CASE t.sig # sig
  <2>1. Having(new, sig) = Having(list, sig)
    BY <1>1, <1>4 DEF Having
  <2> QED
    BY <1>2, <1>4, <2>1 DEF new
<1> QED
  BY <1>3, <1>4

LEMMA RemoveAtShape ==
    ASSUME NEW list \in Seq(Table), NEW k \in DOMAIN list
    PROVE  /\ RemoveAt(list, k) \in Seq(Table)
           /\ DOMAIN RemoveAt(list, k) = 1 .. Len(list) - 1
           /\ \A i \in 1 .. Len(list) - 1 :
                 RemoveAt(list, k)[i] = IF i < k THEN list[i] ELSE list[i + 1]
<1> DEFINE a == SubSeq(list, 1, k - 1)
<1> DEFINE b == SubSeq(list, k + 1, Len(list))
<1>1. k \in 1 .. Len(list) /\ Len(list) \in Nat
  OBVIOUS
<1>2. /\ a \in Seq(Table) /\ Len(a) = k - 1
      /\ \A i \in 1 .. k - 1 : a[i] = list[i]
  BY <1>1
<1>3. /\ b \in Seq(Table) /\ Len(b) = Len(list) - k
      /\ \A i \in 1 .. Len(list) - k : b[i] = list[k + i]
  BY <1>1
<1> HIDE DEF a, b
<1> DEFINE c == a \o b
<1>4. /\ c \in Seq(Table) /\ Len(c) = Len(a) + Len(b)
      /\ \A i \in 1 .. Len(a) + Len(b) : c[i] = IF i <= Len(a) THEN a[i] ELSE b[i - Len(a)]
  BY <1>2, <1>3, ConcatProperties
<1> HIDE DEF c
<1>5. Len(a) + Len(b) = Len(list) - 1
  BY <1>1, <1>2, <1>3
<1>6. ASSUME NEW i \in 1 .. Len(list) - 1
      PROVE  c[i] = IF i < k THEN list[i] ELSE list[i + 1]
  <2>1. c[i] = IF i <= k - 1 THEN a[i] ELSE b[i - (k - 1)]
    BY <1>2, <1>4, <1>5
  <2>2. CASE i < k
    BY <1>1, <1>2, <2>1, <2>2
  <2>3. CASE ~ (i < k)
    <3>1. i - (k - 1) \in 1 .. Len(list) - k /\ k + (i - (k - 1)) = i + 1
      BY <1>1, <2>3
    <3>2. c[i] = b[i - (k - 1)]
      BY <1>1, <2>1, <2>3
    <3> QED
      BY <1>3, <2>3, <3>1, <3>2
  <2> QED
    BY <2>2, <2>3
<1>7. DOMAIN c = 1 .. Len(list) - 1
  BY <1>4, <1>5, LenProperties
<1>8. RemoveAt(list, k) = c
  BY DEF RemoveAt, a, b, c
<1> QED
  BY <1>4, <1>6, <1>7, <1>8

LEMMA CountRemoveAt ==
    ASSUME NEW list \in Seq(Table), NEW k \in DOMAIN list, NEW sig
    PROVE  Count(RemoveAt(list, k), sig)
             = Count(list, sig) - (IF list[k].sig = sig THEN 1 ELSE 0)
<1> DEFINE new  == RemoveAt(list, k)
           rest == Having(list, sig) \ {k}
           f    == [i \in Having(new, sig) |-> IF i < k THEN i ELSE i + 1]
           g    == [j \in rest |-> IF j < k THEN j ELSE j - 1]
<1>1. /\ new \in Seq(Table) /\ DOMAIN new = 1 .. Len(list) - 1
      /\ \A i \in 1 .. Len(list) - 1 : new[i] = IF i < k THEN list[i] ELSE list[i + 1]
  BY RemoveAtShape
<1> HIDE DEF new
<1>2. k \in 1 .. Len(list) /\ Len(list) \in Nat /\ DOMAIN list = 1 .. Len(list)
  OBVIOUS
<1>3. \A i \in Having(new, sig) : i \in 1 .. Len(list) - 1 /\ f[i] \in rest
  BY <1>1, <1>2 DEF Having
<1>4. \A i, j \in Having(new, sig) : f[i] = f[j] => i = j
  BY <1>2, <1>3
<1>5. f \in Injection(Having(new, sig), rest)
  BY <1>3, <1>4 DEF Injection, IsInjective
<1>6. \A j \in rest : j \in 1 .. Len(list) /\ j # k /\ list[j].sig = sig
  BY <1>2 DEF Having
<1>7. \A j \in rest : g[j] \in Having(new, sig)
  <2> SUFFICES ASSUME NEW j \in rest PROVE g[j] \in Having(new, sig)
    OBVIOUS
  <2>1. CASE j < k
    <3>1. g[j] = j /\ j \in 1 .. Len(list) - 1 /\ new[j] = list[j]
      BY <1>1, <1>2, <1>6, <2>1
    <3> QED
      BY <1>1, <1>6, <3>1 DEF Having
  <2>2. CASE j > k
    <3>1. /\ g[j] = j - 1 /\ j - 1 \in 1 .. Len(list) - 1 /\ ~ (j - 1 < k)
          /\ (j - 1) + 1 = j
      BY <1>2, <1>6, <2>2
    <3>2. new[j - 1] = list[j]
      BY <1>1, <3>1
    <3> QED
      BY <1>1, <1>6, <3>1, <3>2 DEF Having
  <2> QED
    BY <1>2, <1>6, <2>1, <2>2
<1>8. \A i, j \in rest : g[i] = g[j] => i = j
  BY <1>2, <1>6
<1>9. g \in Injection(rest, Having(new, sig))
  BY <1>7, <1>8 DEF Injection, IsInjective
<1>10. /\ IsFiniteSet(Having(list, sig)) /\ IsFiniteSet(Having(new, sig))
       /\ Count(new, sig) = Cardinality(Having(new, sig)) /\ Count(new, sig) \in Nat
       /\ Count(list, sig) = Cardinality(Having(list, sig)) /\ Count(list, sig) \in Nat
  BY <1>1, HavingFinite
<1>11. /\ IsFiniteSet(rest)
       /\ Cardinality(rest) = IF k \in Having(list, sig)
                              THEN Cardinality(Having(list, sig)) - 1
                              ELSE Cardinality(Having(list, sig))
  BY <1>10, FS_RemoveElement
<1>12. k \in Having(list, sig) <=> list[k].sig = sig
  BY DEF Having
<1>13. Cardinality(rest) \in Nat
  BY <1>11, FS_CardinalityType
<1> HIDE DEF f, g, rest
<1>14. Cardinality(Having(new, sig)) <= Cardinality(rest)
  BY <1>5, <1>11, FS_Injection
<1>15. Cardinality(rest) <= Cardinality(Having(new, sig))
  BY <1>9, <1>10, FS_Injection
<1> QED
  BY <1>10, <1>11, <1>12, <1>13, <1>14, <1>15 DEF new

(* Where there is at most one table of a kind, two places are the same.    *)
LEMMA CountUnique ==
    ASSUME NEW list \in Seq(Table), NEW sig, Count(list, sig) <= 1,
           NEW i \in DOMAIN list, NEW j \in DOMAIN list,
           list[i].sig = sig, list[j].sig = sig
    PROVE  i = j
<1> SUFFICES ASSUME i # j PROVE FALSE
  OBVIOUS
<1>1. /\ IsFiniteSet(Having(list, sig)) /\ Count(list, sig) \in Nat
      /\ Count(list, sig) = Cardinality(Having(list, sig))
  BY HavingFinite
<1>2. IsFiniteSet({i}) /\ Cardinality({i}) = 1
  BY FS_Singleton
<1>3. Cardinality({i} \cup {j}) = 2
  <2>1. j \notin {i}
    OBVIOUS
  <2>2. Cardinality({i} \cup {j}) = Cardinality({i}) + 1
    BY <1>2, <2>1, FS_AddElement
  <2> QED
    BY <1>2, <2>2
<1>4. {i} \cup {j} \in SUBSET Having(list, sig)
  BY DEF Having
<1>5. Cardinality({i} \cup {j}) <= Cardinality(Having(list, sig))
  BY <1>1, <1>4, FS_Subset
<1> QED
  BY <1>1, <1>3, <1>5

LEMMA CountNone ==
    ASSUME NEW list \in Seq(Table), NEW sig
    PROVE  Count(list, sig) = 0 <=> \A i \in DOMAIN list : list[i].sig # sig
<1>1. /\ IsFiniteSet(Having(list, sig))
      /\ Count(list, sig) = Cardinality(Having(list, sig))
  BY HavingFinite
<1>2. Count(list, sig) = 0 <=> Having(list, sig) = {}
  BY <1>1, FS_EmptySet
<1> QED
  BY <1>2 DEF Having

-----------------------------------------------------------------------------
(* The uint8_t that counts the processors *)

LEMMA WrapSmall ==
    ASSUME NEW n \in Nat, n < Uint8Values PROVE n % Uint8Values = n
  BY TablesConstants, SMTT(30)

LEMMA Wraps ==
    ASSUME NEW n \in Nat PROVE n % Uint8Values \in 0 .. Uint8Values - 1
  BY TablesConstants, SMTT(30)

LEMMA WrapUnique ==
    ASSUME NEW n \in Nat, NEW q \in Int, NEW c \in 0 .. Uint8Values - 1,
           n = q * Uint8Values + c
    PROVE  n % Uint8Values = c
  BY TablesConstants, SMTT(30)

(* Counting up in a uint8_t and wrapping the whole count are the same.     *)
LEMMA WrapAdd ==
    ASSUME NEW n \in Nat
    PROVE  ((n % Uint8Values) + 1) % Uint8Values = (n + 1) % Uint8Values
<1> DEFINE q == n \div Uint8Values
           c == n % Uint8Values
<1>1. q \in Int /\ c \in 0 .. Uint8Values - 1 /\ n = q * Uint8Values + c
  BY TablesConstants, SMTT(30)
<1>2. Uint8Values \in Nat /\ Uint8Values > 1
  BY TablesConstants
<1> HIDE DEF q, c
<1>3. CASE c + 1 = Uint8Values
  <2>1. n + 1 = (q + 1) * Uint8Values + 0 /\ c + 1 = 1 * Uint8Values + 0
    BY <1>1, <1>2, <1>3
  <2>2. (n + 1) % Uint8Values = 0 /\ (c + 1) % Uint8Values = 0
    BY <1>1, <1>2, <2>1, WrapUnique
  <2> QED
    BY <2>2 DEF c
<1>4. CASE c + 1 < Uint8Values
  <2>1. n + 1 = q * Uint8Values + (c + 1) /\ c + 1 \in 0 .. Uint8Values - 1
    BY <1>1, <1>2, <1>4
  <2>2. (n + 1) % Uint8Values = c + 1
    BY <1>1, <2>1, WrapUnique
  <2>3. (c + 1) % Uint8Values = c + 1
    BY <1>1, <1>4, WrapSmall
  <2> QED
    BY <2>2, <2>3 DEF c
<1> QED
  BY <1>1, <1>2, <1>3, <1>4

-----------------------------------------------------------------------------
(* What main and the firmware's list can hold *)

Types ==
    /\ m \in Machines /\ firmware \in TableLists
    /\ tables \in Seq(Table)
    /\ seen \in Nat /\ cpus \in 0 .. Uint8Values - 1
    /\ report \in [Stage -> {"none", "ok", "failed", "skipped"}]

LEMMA MachineFields ==
    ASSUME Types
    PROVE  m.procs \in Nat /\ m.bootfiles \subseteq 1 .. 3
  BY TablesConstants DEF Types, Machine

LEMMA FirmwareTables ==
    ASSUME NEW list \in TableLists
    PROVE  list \in Seq(Table) /\ \A i \in DOMAIN list : list[i].by = i
  BY TablesConstants

LEMMA AppTable ==
    ASSUME NEW sig \in Sig
    PROVE  Own(sig) \in Table /\ Own(sig).sig = sig /\ Own(sig).by = 0
  BY DEF Table, Own

(* A step that changes neither the list of tables nor what main has found  *)
(* out about it.                                                           *)
Quiet == SetResolution \/ ReadProduct \/ CountCpu \/ CpusDone \/ CpusFail \/ Start

(* The stage of the PCCT, without its removal.                             *)
PcctStays == SkipPcct \/ UninstallFails \/ PcctNotFound \/ ScanFails

(* From the last stage on.                                                 *)
Leaving == ReturnToShell \/ NoBootFile \/ LoadFails \/ StartFails

LEMMA Cases ==
    ASSUME [Next]_vars
    PROVE  \/ Quiet \/ ScanXsdt \/ PcctStays \/ UninstallPcct
           \/ Serial("dbg2", "DBG2", "spcr") \/ Serial("spcr", "SPCR", "dsdt")
           \/ SkipDsdt \/ CallDsdt \/ DsdtReturns
           \/ Leaving \/ FindFile \/ LoadImage \/ StartImage
           \/ Restart \/ UNCHANGED vars
  BY DEF Next, Step, MainStep, Quiet, PcctStays, Leaving

LEMMA InitTypes == Init => Types
  BY FirmwareTables, TablesConstants DEF Init, Types, Fresh, Stage

LEMMA NextTypes == Types /\ [Next]_vars => Types'
<1> SUFFICES ASSUME Types, [Next]_vars PROVE Types'
  OBVIOUS
<1> USE DEF Types, Goto, Reported, Stage, locals
<1>1. CASE Quiet
  <2>1. CASE Start
    BY <2>1, TablesConstants DEF Start, Fresh
  <2>2. CASE SetResolution
    BY <2>2 DEF SetResolution
  <2>3. CASE ReadProduct
    BY <2>3 DEF ReadProduct
  <2>4. CASE CountCpu
    BY <2>4, Wraps DEF CountCpu
  <2>5. CASE CpusDone
    BY <2>5 DEF CpusDone
  <2>6. CASE CpusFail
    BY <2>6 DEF CpusFail
  <2> QED
    BY <1>1, <2>1, <2>2, <2>3, <2>4, <2>5, <2>6 DEF Quiet
<1>2. CASE ScanXsdt
  BY <1>2 DEF ScanXsdt
<1>3. CASE PcctStays
  <2>1. CASE SkipPcct
    BY <2>1 DEF SkipPcct
  <2>2. CASE UninstallFails
    BY <2>2 DEF UninstallFails
  <2>3. CASE PcctNotFound
    BY <2>3 DEF PcctNotFound
  <2>4. CASE ScanFails
    BY <2>4 DEF ScanFails
  <2> QED
    BY <1>3, <2>1, <2>2, <2>3, <2>4 DEF PcctStays
<1>4. CASE UninstallPcct
  <2>1. tables' \in Seq(Table)
    BY <1>4, RemoveAtShape DEF UninstallPcct
  <2> QED
    BY <1>4, <2>1 DEF UninstallPcct
<1>5. ASSUME NEW stage \in {"dbg2", "spcr"}, NEW sig \in {"DBG2", "SPCR"},
             NEW next, Serial(stage, sig, next)
      PROVE  Types'
  <2>1. CASE SkipSerial(stage, sig, next)
    BY <2>1 DEF SkipSerial
  <2>2. CASE InstallSerialFails(stage, sig, next)
    BY <2>2 DEF InstallSerialFails
  <2>3. CASE InstallSerial(stage, sig, next)
    <3>1. Own(sig) \in Table
      BY AppTable DEF Sig
    <3>2. tables' \in Seq(Table)
      BY <2>3, <3>1, AppendProperties DEF InstallSerial
    <3> QED
      BY <2>3, <3>2 DEF InstallSerial
  <2> QED
    BY <1>5, <2>1, <2>2, <2>3 DEF Serial
<1>6. CASE SkipDsdt \/ CallDsdt
  <2>1. CASE SkipDsdt
    BY <2>1 DEF SkipDsdt
  <2>2. CASE CallDsdt
    BY <2>2 DEF CallDsdt
  <2> QED
    BY <1>6, <2>1, <2>2
<1>7. CASE DsdtReturns
  <2>1. Own("SSDT") \in Table
    BY AppTable DEF Sig
  <2>2. tables' = tables \/ tables' = Append(tables, Own("SSDT"))
    BY <1>7 DEF DsdtReturns
  <2>3. tables' \in Seq(Table)
    BY <2>1, <2>2, AppendProperties
  <2> QED
    BY <1>7, <2>3 DEF DsdtReturns
<1>8. CASE Leaving \/ FindFile \/ LoadImage \/ StartImage
  BY <1>8 DEF Leaving, ReturnToShell, NoBootFile, LoadFails, StartFails, Exit,
              FindFile, LoadImage, StartImage
<1>9. CASE Restart
  <2>1. tables' \in Seq(Table)
    BY <1>9, FirmwareTables DEF Restart
  <2> QED
    BY <1>9, <2>1, TablesConstants DEF Restart, Fresh
<1>10. CASE UNCHANGED vars
  BY <1>10 DEF vars
<1> QED
  BY <1>1, <1>2, <1>3, <1>4, <1>5, <1>6, <1>7, <1>8, <1>9, <1>10, Cases

LEMMA Fixed == [Next]_vars => m' = m /\ firmware' = firmware
<1> SUFFICES ASSUME [Next]_vars PROVE m' = m /\ firmware' = firmware
  OBVIOUS
<1>1. CASE Quiet
  BY <1>1 DEF Quiet, Start, SetResolution, ReadProduct, CountCpu, CpusDone, CpusFail
<1>2. CASE ScanXsdt \/ PcctStays \/ UninstallPcct
  BY <1>2 DEF ScanXsdt, PcctStays, SkipPcct, UninstallFails, PcctNotFound, ScanFails,
              UninstallPcct
<1>3. CASE Serial("dbg2", "DBG2", "spcr") \/ Serial("spcr", "SPCR", "dsdt")
  BY <1>3 DEF Serial, SkipSerial, InstallSerial, InstallSerialFails
<1>4. CASE SkipDsdt \/ CallDsdt \/ DsdtReturns
  BY <1>4 DEF SkipDsdt, CallDsdt, DsdtReturns
<1>5. CASE Leaving \/ FindFile \/ LoadImage \/ StartImage
  BY <1>5 DEF Leaving, ReturnToShell, NoBootFile, LoadFails, StartFails, Exit,
              FindFile, LoadImage, StartImage
<1>6. CASE Restart \/ UNCHANGED vars
  BY <1>6 DEF Restart, vars
<1> QED
  BY <1>1, <1>2, <1>3, <1>4, <1>5, <1>6, Cases

-----------------------------------------------------------------------------
(* The PCCT *)

(* When the PCCT's turn comes, cpus is what SMBIOS has, as far as a        *)
(* uint8_t can say, or main was kept from counting; the count that         *)
(* justified a removal is not remembered, so the property itself is the    *)
(* other half of the invariant.                                            *)
Counted ==
    /\ pc \in {"gop", "smbios", "cpus"} => seen <= m.procs /\ cpus = seen % Uint8Values
    /\ pc \in {"xsdt", "pcct"} => \/ cpus = m.procs % Uint8Values
                                  \/ miscounted /\ (m.procs <= 1 => cpus <= 1)

LEMMA NextCounted == Types /\ Counted /\ [Next]_vars => Counted'
<1> SUFFICES ASSUME Types, Counted, [Next]_vars PROVE Counted'
  OBVIOUS
<1> USE DEF Counted, Goto, locals, history
<1>1. /\ m.procs \in Nat /\ cpus \in 0 .. Uint8Values - 1 /\ seen \in Nat
      /\ m' = m /\ (seen <= 1 => seen % Uint8Values <= 1)
  <2>1. seen \in Nat /\ (seen <= 1 => seen < Uint8Values)
    BY TablesConstants DEF Types
  <2>2. seen <= 1 => seen % Uint8Values <= 1
    BY <2>1, WrapSmall
  <2> QED
    BY <2>2, MachineFields, Fixed DEF Types
<1>2. CASE Quiet
  <2>1. CASE Start
    BY <1>1, <2>1, WrapSmall, TablesConstants DEF Start
  <2>2. CASE SetResolution
    BY <1>1, <2>2 DEF SetResolution
  <2>3. CASE ReadProduct
    BY <1>1, <2>3 DEF ReadProduct
  <2>4. CASE CountCpu
    BY <1>1, <2>4, WrapAdd DEF CountCpu
  <2>5. CASE CpusDone
    BY <1>1, <2>5 DEF CpusDone
  <2>6. CASE CpusFail
    BY <1>1, <2>6 DEF CpusFail
  <2> QED
    BY <1>2, <2>1, <2>2, <2>3, <2>4, <2>5, <2>6 DEF Quiet
<1>3. CASE ScanXsdt
  BY <1>1, <1>3 DEF ScanXsdt
<1>4. pc' \notin {"gop", "smbios", "cpus", "xsdt", "pcct"} => Counted'
  OBVIOUS
<1>5. CASE PcctStays \/ UninstallPcct
  BY <1>4, <1>5 DEF PcctStays, SkipPcct, UninstallFails, PcctNotFound, ScanFails,
                    UninstallPcct
<1>6. CASE Serial("dbg2", "DBG2", "spcr") \/ Serial("spcr", "SPCR", "dsdt")
  BY <1>4, <1>6 DEF Serial, SkipSerial, InstallSerial, InstallSerialFails
<1>7. CASE SkipDsdt \/ CallDsdt \/ DsdtReturns
  BY <1>4, <1>7 DEF SkipDsdt, CallDsdt, DsdtReturns
<1>8. CASE Leaving \/ FindFile \/ LoadImage \/ StartImage
  BY <1>4, <1>8 DEF Leaving, ReturnToShell, NoBootFile, LoadFails, StartFails, Exit,
                    FindFile, LoadImage, StartImage
<1>9. CASE Restart
  BY <1>4, <1>9 DEF Restart
<1>10. CASE UNCHANGED vars
  BY <1>1, <1>10 DEF vars
<1> QED
  BY <1>2, <1>3, <1>5, <1>6, <1>7, <1>8, <1>9, <1>10, Cases

(* All the ways in which the list of tables changes.                       *)
LEMMA TableSteps ==
    ASSUME [Next]_vars
    PROVE  \/ tables' = tables
           \/ Restart
           \/ UninstallPcct
           \/ InstallSerial("dbg2", "DBG2", "spcr")
           \/ InstallSerial("spcr", "SPCR", "dsdt")
           \/ tables' = Append(tables, Own("SSDT"))
<1>1. CASE Quiet
  BY <1>1 DEF Quiet, Start, SetResolution, ReadProduct, CountCpu, CpusDone, CpusFail
<1>2. CASE ScanXsdt \/ PcctStays
  BY <1>2 DEF ScanXsdt, PcctStays, SkipPcct, UninstallFails, PcctNotFound, ScanFails
<1>3. CASE Serial("dbg2", "DBG2", "spcr") \/ Serial("spcr", "SPCR", "dsdt")
  BY <1>3 DEF Serial, SkipSerial, InstallSerialFails
<1>4. CASE SkipDsdt \/ CallDsdt \/ DsdtReturns
  BY <1>4 DEF SkipDsdt, CallDsdt, DsdtReturns
<1>5. CASE Leaving \/ FindFile \/ LoadImage \/ StartImage
  BY <1>5 DEF Leaving, ReturnToShell, NoBootFile, LoadFails, StartFails, Exit,
              FindFile, LoadImage, StartImage
<1>6. CASE UNCHANGED vars
  BY <1>6 DEF vars
<1> QED
  BY <1>1, <1>2, <1>3, <1>4, <1>5, <1>6, Cases

LEMMA CountAppended ==
    ASSUME Types, NEW s \in Sig, NEW sig, tables' = Append(tables, Own(s))
    PROVE  Count(tables', sig) = Count(tables, sig) + (IF s = sig THEN 1 ELSE 0)
<1> DEFINE t == Own(s)
<1>1. t \in Table /\ t.sig = s
  BY AppTable
<1> HIDE DEF t
<1>2. Count(Append(tables, t), sig) = Count(tables, sig) + (IF t.sig = sig THEN 1 ELSE 0)
  BY <1>1, CountAppend DEF Types
<1> QED
  BY <1>1, <1>2 DEF t

(* Only two kinds of steps take a table away.                              *)
LEMMA CountGrows ==
    ASSUME Types, [Next]_vars, ~ UninstallPcct, ~ Restart, NEW sig
    PROVE  Count(tables', sig) >= Count(tables, sig)
<1>1. Count(tables, sig) \in Nat
  BY HavingFinite DEF Types
<1>2. tables' = tables \/ \E s \in Sig : tables' = Append(tables, Own(s))
  BY TableSteps DEF InstallSerial, Sig
<1>3. CASE tables' = tables
  BY <1>1, <1>3
<1>4. ASSUME NEW s \in Sig, tables' = Append(tables, Own(s))
      PROVE  Count(tables', sig) >= Count(tables, sig)
  <2>1. Count(tables', sig) = Count(tables, sig) + (IF s = sig THEN 1 ELSE 0)
    BY <1>4, CountAppended
  <2> QED
    BY <1>1, <2>1
<1> QED
  BY <1>2, <1>3, <1>4

(* miscounted stays set until the restart.                                 *)
LEMMA MiscountedStays ==
    ASSUME [Next]_vars, ~ Restart, miscounted PROVE miscounted'
<1> USE DEF history
<1>1. CASE Quiet
  BY <1>1 DEF Quiet, Start, SetResolution, ReadProduct, CountCpu, CpusDone, CpusFail
<1>2. CASE ScanXsdt \/ PcctStays \/ UninstallPcct
  BY <1>2 DEF ScanXsdt, PcctStays, SkipPcct, UninstallFails, PcctNotFound, ScanFails,
              UninstallPcct
<1>3. CASE Serial("dbg2", "DBG2", "spcr") \/ Serial("spcr", "SPCR", "dsdt")
  BY <1>3 DEF Serial, SkipSerial, InstallSerial, InstallSerialFails
<1>4. CASE SkipDsdt \/ CallDsdt \/ DsdtReturns
  BY <1>4 DEF SkipDsdt, CallDsdt, DsdtReturns
<1>5. CASE Leaving \/ FindFile \/ LoadImage \/ StartImage
  BY <1>5 DEF Leaving, ReturnToShell, NoBootFile, LoadFails, StartFails, Exit,
              FindFile, LoadImage, StartImage
<1>6. CASE UNCHANGED vars
  BY <1>6 DEF vars
<1> QED
  BY <1>1, <1>2, <1>3, <1>4, <1>5, <1>6, Cases

LEMMA NextPcct ==
    Types /\ Counted /\ PcctOnlyOnSingleCpu /\ [Next]_vars => PcctOnlyOnSingleCpu'
<1> SUFFICES ASSUME Types, Counted, PcctOnlyOnSingleCpu, [Next]_vars
             PROVE  PcctOnlyOnSingleCpu'
  OBVIOUS
<1>1. m' = m /\ firmware' = firmware /\ m.procs \in Nat
  BY Fixed, MachineFields
<1>2. /\ Count(tables, "PCCT") \in Nat /\ Count(firmware, "PCCT") \in Nat
      /\ Count(tables', "PCCT") \in Nat
  BY NextTypes, FirmwareTables, HavingFinite DEF Types
<1>3. CASE Restart
  <2>1. tables' = firmware
    BY <1>3 DEF Restart
  <2> QED
    BY <1>1, <1>2, <2>1 DEF PcctOnlyOnSingleCpu
<1>4. CASE UninstallPcct
  <2>1. pc = "pcct" /\ ~ (cpus > 1) /\ miscounted' = miscounted
    BY <1>4 DEF UninstallPcct, PcctSkipped, history
  <2>2. m.procs % Uint8Values <= 1 \/ miscounted
    BY <1>1, <2>1 DEF Counted, Types
  <2> QED
    BY <1>1, <2>1, <2>2 DEF PcctOnlyOnSingleCpu
<1>5. CASE ~ Restart /\ ~ UninstallPcct
  <2>1. Count(tables', "PCCT") >= Count(tables, "PCCT")
    BY <1>5, CountGrows
  <2>2. miscounted => miscounted'
    BY <1>5, MiscountedStays
  <2> QED
    BY <1>1, <1>2, <2>1, <2>2 DEF PcctOnlyOnSingleCpu
<1> QED
  BY <1>3, <1>4, <1>5

(* uinstall_pcct is only ever reached with a true count of one processor:  *)
(* a machine with more keeps its PCCT through any number of runs, unless   *)
(* SMBIOS kept processors from main.                                       *)
THEOREM PcctKeptOnManyCpus == Spec => []PcctOnlyOnSingleCpu
<1>1. Init => Counted /\ PcctOnlyOnSingleCpu
  <2> SUFFICES ASSUME Init PROVE Counted /\ PcctOnlyOnSingleCpu
    OBVIOUS
  <2>1. tables = firmware /\ Count(firmware, "PCCT") \in Nat /\ pc = "off"
    BY FirmwareTables, HavingFinite DEF Init
  <2> QED
    BY <2>1 DEF Counted, PcctOnlyOnSingleCpu
<1> QED
  BY <1>1, InitTypes, NextTypes, NextCounted, NextPcct, PTL DEF Spec

-----------------------------------------------------------------------------
(* DBG2 and SPCR *)

(* Until its turn comes, a table whose flag is not set is not there.       *)
FlagsTrue ==
    Readable =>
        /\ (pc \in {"pcct", "dbg2"} /\ "DBG2" \notin has) => Count(tables, "DBG2") = 0
        /\ (pc \in {"pcct", "dbg2", "spcr"} /\ "SPCR" \notin has) => Count(tables, "SPCR") = 0

(* The stage that installs a table with this signature.                    *)
Installs(sig) ==
    \/ sig = "DBG2" /\ InstallSerial("dbg2", "DBG2", "spcr")
    \/ sig = "SPCR" /\ InstallSerial("spcr", "SPCR", "dsdt")

LEMMA SerialCount ==
    ASSUME Types, [Next]_vars, ~ Restart, NEW sig \in {"DBG2", "SPCR"}
    PROVE  /\ Count(tables, sig) \in Nat /\ Count(tables', sig) \in Nat
           /\ Installs(sig) => Count(tables', sig) = Count(tables, sig) + 1
           /\ ~ Installs(sig) => Count(tables', sig) <= Count(tables, sig)
<1>1. Count(tables, sig) \in Nat /\ Count(tables', sig) \in Nat
  BY NextTypes, HavingFinite DEF Types
<1>2. CASE tables' = tables /\ ~ Installs(sig)
  BY <1>1, <1>2
<1>3. CASE UninstallPcct
  <2>1. PICK k \in DOMAIN tables : tables' = RemoveAt(tables, k)
    BY <1>3 DEF UninstallPcct
  <2>2. Count(tables', sig)
          = Count(tables, sig) - (IF tables[k].sig = sig THEN 1 ELSE 0)
    BY <2>1, CountRemoveAt DEF Types
  <2>3. Count(tables', sig) <= Count(tables, sig)
    BY <1>1, <2>2
  <2>4. ~ Installs(sig)
    BY <1>3 DEF UninstallPcct, Installs, InstallSerial
  <2> QED
    BY <1>1, <2>3, <2>4
<1>4. CASE InstallSerial("dbg2", "DBG2", "spcr")
  <2>1. tables' = Append(tables, Own("DBG2")) /\ pc = "dbg2"
    BY <1>4 DEF InstallSerial
  <2>2. Count(tables', sig) = Count(tables, sig) + (IF "DBG2" = sig THEN 1 ELSE 0)
    BY <2>1, CountAppended DEF Sig
  <2>3. Installs(sig) <=> sig = "DBG2"
    BY <1>4, <2>1 DEF Installs, InstallSerial
  <2> QED
    BY <1>1, <2>2, <2>3
<1>5. CASE InstallSerial("spcr", "SPCR", "dsdt")
  <2>1. tables' = Append(tables, Own("SPCR")) /\ pc = "spcr"
    BY <1>5 DEF InstallSerial
  <2>2. Count(tables', sig) = Count(tables, sig) + (IF "SPCR" = sig THEN 1 ELSE 0)
    BY <2>1, CountAppended DEF Sig
  <2>3. Installs(sig) <=> sig = "SPCR"
    BY <1>5, <2>1 DEF Installs, InstallSerial
  <2> QED
    BY <1>1, <2>2, <2>3
<1>6. CASE tables' = Append(tables, Own("SSDT")) /\ ~ Installs(sig)
  <2>1. Count(tables', sig) = Count(tables, sig) + (IF "SSDT" = sig THEN 1 ELSE 0)
    BY <1>6, CountAppended DEF Sig
  <2> QED
    BY <1>1, <1>6, <2>1
<1> QED
  BY <1>2, <1>3, <1>4, <1>5, <1>6, TableSteps DEF Installs

LEMMA NextFlagsTrue == Types /\ FlagsTrue /\ [Next]_vars => FlagsTrue'
<1> SUFFICES ASSUME Types, FlagsTrue, [Next]_vars, Readable' PROVE FlagsTrue'
  BY DEF FlagsTrue
<1>1. Readable
  BY Fixed DEF Readable
<1> USE DEF Goto, locals
<1>2. CASE ScanXsdt
  <2>1. ASSUME NEW sig \in {"DBG2", "SPCR"}, sig \notin has' PROVE Count(tables', sig) = 0
    <3>1. sig \notin Signatures(tables) /\ tables' = tables
      BY <1>1, <1>2, <2>1 DEF ScanXsdt
    <3>2. Having(tables, sig) = {}
      BY <3>1 DEF Signatures, Having
    <3> QED
      BY <3>1, <3>2, HavingFinite, FS_EmptySet DEF Types
  <2> QED
    BY <2>1 DEF FlagsTrue
<1>3. ASSUME pc' = "dbg2", pc = "pcct", has' = has, ~ Restart PROVE FlagsTrue'
  <2>1. ~ Installs("DBG2") /\ ~ Installs("SPCR")
    BY <1>3 DEF Installs, InstallSerial
  <2>2. ASSUME NEW sig \in {"DBG2", "SPCR"}, sig \notin has PROVE Count(tables', sig) = 0
    <3>1. Count(tables, sig) = 0
      BY <1>1, <1>3, <2>2 DEF FlagsTrue
    <3> QED
      BY <1>3, <2>1, <2>2, <3>1, SerialCount
  <2> QED
    BY <1>3, <2>2 DEF FlagsTrue
<1>4. CASE PcctStays \/ UninstallPcct
  <2>1. pc' = "dbg2" /\ pc = "pcct" /\ has' = has /\ ~ Restart
    BY <1>4 DEF PcctStays, SkipPcct, UninstallFails, PcctNotFound, ScanFails,
                UninstallPcct, Restart
  <2> QED
    BY <1>3, <2>1
<1>5. CASE Serial("dbg2", "DBG2", "spcr")
  <2>1. pc = "dbg2" /\ pc' = "spcr" /\ has' = has /\ ~ Restart
    BY <1>5 DEF Serial, SkipSerial, InstallSerial, InstallSerialFails, Restart
  <2>2. ~ Installs("SPCR")
    BY <2>1 DEF Installs, InstallSerial
  <2>3. "SPCR" \notin has => Count(tables, "SPCR") = 0
    BY <1>1, <2>1 DEF FlagsTrue
  <2>4. "SPCR" \notin has' => Count(tables', "SPCR") = 0
    BY <2>1, <2>2, <2>3, SerialCount
  <2> QED
    BY <2>1, <2>4 DEF FlagsTrue
<1>6. pc' \notin {"pcct", "dbg2", "spcr"} => FlagsTrue'
  BY DEF FlagsTrue
<1>7. CASE Quiet
  BY <1>6, <1>7
  DEF Quiet, Start, SetResolution, ReadProduct, CountCpu, CpusDone, CpusFail
<1>8. CASE Serial("spcr", "SPCR", "dsdt")
  BY <1>6, <1>8 DEF Serial, SkipSerial, InstallSerial, InstallSerialFails
<1>9. CASE SkipDsdt \/ CallDsdt \/ DsdtReturns \/ Restart
  BY <1>6, <1>9 DEF SkipDsdt, CallDsdt, DsdtReturns, Restart
<1>10. CASE Leaving \/ FindFile \/ LoadImage \/ StartImage
  BY <1>6, <1>10 DEF Leaving, ReturnToShell, NoBootFile, LoadFails, StartFails, Exit,
                     FindFile, LoadImage, StartImage
<1>11. CASE UNCHANGED vars
  BY <1>1, <1>11 DEF vars, FlagsTrue
<1> QED
  BY <1>2, <1>4, <1>5, <1>7, <1>8, <1>9, <1>10, <1>11, Cases

LEMMA NextNoDuplicates ==
    Types /\ FlagsTrue /\ NoDuplicateTables /\ [Next]_vars => NoDuplicateTables'
<1> SUFFICES ASSUME Types, FlagsTrue, NoDuplicateTables, [Next]_vars, Readable',
                    NEW sig \in {"DBG2", "SPCR"}
             PROVE  Count(tables', sig)
                      <= IF Count(firmware', sig) > 1 THEN Count(firmware', sig) ELSE 1
  BY DEF NoDuplicateTables
<1>1. firmware' = firmware /\ Readable
  BY Fixed DEF Readable
<1>2. Count(firmware, sig) \in Nat
  BY FirmwareTables, HavingFinite DEF Types
<1>3. Count(tables, sig) <= IF Count(firmware, sig) > 1 THEN Count(firmware, sig) ELSE 1
  BY <1>1 DEF NoDuplicateTables
<1>4. CASE Restart
  <2>1. tables' = firmware
    BY <1>4 DEF Restart
  <2> QED
    BY <1>1, <1>2, <2>1
<1>5. CASE ~ Restart /\ Installs(sig)
  <2>1. Count(tables, sig) = 0
    BY <1>1, <1>5 DEF Installs, InstallSerial, SerialSkipped, FlagsTrue
  <2> QED
    BY <1>1, <1>2, <1>5, <2>1, SerialCount
<1>6. CASE ~ Restart /\ ~ Installs(sig)
  BY <1>1, <1>2, <1>3, <1>6, SerialCount
<1> QED
  BY <1>4, <1>5, <1>6

(* However often main runs on the list it has changed itself, it never     *)
(* installs a second DBG2 or SPCR while it can read an XSDT.               *)
THEOREM NoSecondSerialTable == Spec => []NoDuplicateTables
<1>1. Init => FlagsTrue /\ NoDuplicateTables
  <2> SUFFICES ASSUME Init PROVE FlagsTrue /\ NoDuplicateTables
    OBVIOUS
  <2>1. tables = firmware /\ pc = "off" /\ \A sig : Count(firmware, sig) \in Nat
    BY FirmwareTables, HavingFinite DEF Init
  <2> QED
    BY <2>1 DEF FlagsTrue, NoDuplicateTables
<1> QED
  BY <1>1, InitTypes, NextTypes, NextFlagsTrue, NextNoDuplicates, PTL DEF Spec

-----------------------------------------------------------------------------
(* What main prints, and the boot manager *)

InDsdt  == {"dsdt", "fix_dsdt"} \cup InChain

(* A report, once printed, stays true until main returns.                  *)
Truthful ==
    /\ (pc \in {"spcr"} \cup InDsdt /\ report["dbg2"] = "ok") => Count(tables, "DBG2") > 0
    /\ (pc \in InDsdt /\ report["spcr"] = "ok") => Count(tables, "SPCR") > 0
    /\ (pc \in InChain /\ report["dsdt"] = "ok") => dsdt_result = 0

(* The stages behind main have a report, and what chainload_bootmgr has    *)
(* found is one of the files.                                              *)
StagesDone ==
    /\ pc \notin {"off", "gop"} => report["gop"] # "none"
    /\ pc \in {"dbg2", "spcr"} \cup InDsdt => report["pcct"] # "none"
    /\ pc \in {"spcr"} \cup InDsdt => report["dbg2"] # "none"
    /\ pc \in InDsdt => report["spcr"] # "none"
    /\ pc \in InChain => report["dsdt"] # "none"
    /\ pc \in {"load", "start"} => image \in m.bootfiles
    /\ (pc = "off" /\ runs > 0) =>
          /\ \A s \in Stage : report[s] # "none"
          /\ (m.chainload /\ m.bootfiles # {}) => image \in m.bootfiles

LEMMA NextTruthful == Types /\ Truthful /\ [Next]_vars => Truthful'
<1> SUFFICES ASSUME Types, Truthful, [Next]_vars PROVE Truthful'
  OBVIOUS
<1> USE DEF InChain, InDsdt, Goto, locals, dsdt, Stage
<1>1. report \in [Stage -> {"none", "ok", "failed", "skipped"}]
  BY DEF Types
<1>2. \A sig \in {"DBG2", "SPCR"} :
         /\ Count(tables, sig) \in Nat /\ Count(tables', sig) \in Nat
         /\ (~ UninstallPcct /\ ~ Restart) => Count(tables', sig) >= Count(tables, sig)
  BY NextTypes, HavingFinite, CountGrows DEF Types
<1>3. pc' \notin {"spcr"} \cup InDsdt => Truthful'
  BY DEF Truthful
<1>4. CASE Quiet
  BY <1>3, <1>4
  DEF Quiet, Start, SetResolution, ReadProduct, CountCpu, CpusDone, CpusFail
<1>5. CASE ScanXsdt \/ PcctStays \/ UninstallPcct \/ Restart
  BY <1>3, <1>5 DEF ScanXsdt, PcctStays, SkipPcct, UninstallFails, PcctNotFound,
                    ScanFails, UninstallPcct, Restart
<1>6. CASE Serial("dbg2", "DBG2", "spcr")
  <2>1. pc' = "spcr" /\ (report'["dbg2"] = "ok" => Installs("DBG2")) /\ ~ Restart
    BY <1>1, <1>6 DEF Serial, SkipSerial, InstallSerial, InstallSerialFails, Reported,
                      Installs, Restart
  <2>2. Installs("DBG2") => Count(tables', "DBG2") > 0
    BY <2>1, SerialCount
  <2> QED
    BY <2>1, <2>2 DEF Truthful
<1>7. CASE Serial("spcr", "SPCR", "dsdt")
  <2>1. /\ pc = "spcr" /\ pc' = "dsdt" /\ report'["dbg2"] = report["dbg2"]
        /\ report'["spcr"] = "ok" => Installs("SPCR")
        /\ ~ Restart /\ ~ UninstallPcct
    BY <1>1, <1>7 DEF Serial, SkipSerial, InstallSerial, InstallSerialFails, Reported,
                      Installs, Restart, UninstallPcct
  <2>2. Installs("SPCR") => Count(tables', "SPCR") > 0
    BY <2>1, SerialCount
  <2> QED
    BY <1>2, <2>1, <2>2 DEF Truthful
<1>8. ASSUME pc \in InDsdt, pc' \in InDsdt, ~ Restart,
             report'["dbg2"] = report["dbg2"], report'["spcr"] = report["spcr"],
             (pc' \in InChain /\ report'["dsdt"] = "ok") => dsdt_result' = 0
      PROVE  Truthful'
  BY <1>2, <1>8 DEF Truthful, UninstallPcct
<1>9. CASE SkipDsdt
  BY <1>1, <1>8, <1>9 DEF SkipDsdt, Reported, Restart
<1>10. CASE CallDsdt
  BY <1>1, <1>8, <1>10 DEF CallDsdt, Restart
<1>11. CASE DsdtReturns
  BY <1>1, <1>8, <1>11 DEF DsdtReturns, Reported, Restart
<1>12. CASE Leaving
  BY <1>3, <1>12 DEF Leaving, ReturnToShell, NoBootFile, LoadFails, StartFails, Exit
<1>13. CASE FindFile \/ LoadImage \/ StartImage
  BY <1>8, <1>13 DEF FindFile, LoadImage, StartImage, Restart, Truthful
<1>14. CASE UNCHANGED vars
  BY <1>14 DEF vars, Truthful
<1> QED
  BY <1>4, <1>5, <1>6, <1>7, <1>9, <1>10, <1>11, <1>12, <1>13, <1>14, Cases

LEMMA NextStagesDone == Types /\ StagesDone /\ [Next]_vars => StagesDone'
<1> SUFFICES ASSUME Types, StagesDone, [Next]_vars PROVE StagesDone'
  OBVIOUS
<1> USE DEF InChain, InDsdt, Goto, Stage, Reported
<1>1. report \in [Stage -> {"none", "ok", "failed", "skipped"}]
  BY DEF Types
<1>14. m' = m
  BY Fixed
<1>2. CASE Quiet
  BY <1>1, <1>2
  DEF Quiet, Start, SetResolution, ReadProduct, CountCpu, CpusDone, CpusFail, StagesDone
<1>3. CASE ScanXsdt
  BY <1>3 DEF ScanXsdt, StagesDone
<1>4. CASE PcctStays \/ UninstallPcct
  BY <1>1, <1>4 DEF PcctStays, SkipPcct, UninstallFails, PcctNotFound, ScanFails,
                    UninstallPcct, StagesDone
<1>5. CASE Serial("dbg2", "DBG2", "spcr")
  BY <1>1, <1>5 DEF Serial, SkipSerial, InstallSerial, InstallSerialFails, StagesDone
<1>6. CASE Serial("spcr", "SPCR", "dsdt")
  BY <1>1, <1>6 DEF Serial, SkipSerial, InstallSerial, InstallSerialFails, StagesDone
<1>7. CASE SkipDsdt
  BY <1>1, <1>7 DEF SkipDsdt, StagesDone
<1>8. CASE CallDsdt
  BY <1>8 DEF CallDsdt, StagesDone
<1>9. CASE DsdtReturns
  BY <1>1, <1>9 DEF DsdtReturns, StagesDone
<1>10. CASE Leaving \/ Restart
  <2>1. CASE Leaving
    BY <1>14, <2>1 DEF Leaving, ReturnToShell, NoBootFile, LoadFails, StartFails, Exit,
                       StagesDone
  <2>2. CASE Restart
    BY <2>2 DEF Restart, StagesDone
  <2> QED
    BY <1>10, <2>1, <2>2
<1>11. CASE FindFile
  BY <1>11, <1>14 DEF FindFile, StagesDone, FirstFile
<1>12. CASE LoadImage \/ StartImage
  BY <1>12, <1>14 DEF LoadImage, StartImage, StagesDone
<1>13. CASE UNCHANGED vars
  BY <1>13 DEF vars, history, StagesDone
<1> QED
  BY <1>2, <1>3, <1>4, <1>5, <1>6, <1>7, <1>8, <1>9, <1>10, <1>11, <1>12, <1>13, Cases

(* "OK" behind DBG2, SPCR and DSDT is true when main comes to its end: no  *)
(* later stage undoes what an earlier one reported.                        *)
THEOREM ReportsStayTrue == Spec => []ReportsTruthful
<1>1. Init => Truthful
  BY DEF Init, Truthful, InChain, InDsdt
<1>2. Truthful => ReportsTruthful
  BY DEF Truthful, ReportsTruthful, InChain, InDsdt
<1> QED
  BY <1>1, <1>2, InitTypes, NextTypes, NextTruthful, PTL DEF Spec

-----------------------------------------------------------------------------
(* The firmware's tables *)

(* The devices fix_dsdt may name do not change, and its tables are tables. *)
FixesType ==
    /\ fixes \in Seq(Dsdt!Table)
    /\ unidentified \subseteq Device /\ disableable \subseteq Device

LEMMA DsdtSetsSame == [Next]_vars => UNCHANGED <<unidentified, disableable>>
<1> USE DEF dsdt
<1> SUFFICES ASSUME [Next]_vars PROVE UNCHANGED <<unidentified, disableable>>
  OBVIOUS
<1>1. CASE Quiet
  BY <1>1 DEF Quiet, Start, SetResolution, ReadProduct, CountCpu, CpusDone, CpusFail
<1>2. CASE ScanXsdt \/ PcctStays \/ UninstallPcct
  BY <1>2 DEF ScanXsdt, PcctStays, SkipPcct, UninstallFails, PcctNotFound, ScanFails,
              UninstallPcct
<1>3. CASE Serial("dbg2", "DBG2", "spcr") \/ Serial("spcr", "SPCR", "dsdt")
  BY <1>3 DEF Serial, SkipSerial, InstallSerial, InstallSerialFails
<1>4. CASE SkipDsdt \/ CallDsdt \/ Restart
  BY <1>4 DEF SkipDsdt, CallDsdt, Dsdt!Call, Restart
<1>5. CASE DsdtReturns
  BY <1>5 DEF DsdtReturns, Dsdt!ReturnUnchanged, Dsdt!ReturnFixed
<1>6. CASE Leaving \/ FindFile \/ LoadImage \/ StartImage
  BY <1>6 DEF Leaving, ReturnToShell, NoBootFile, LoadFails, StartFails, Exit,
              FindFile, LoadImage, StartImage
<1>7. CASE UNCHANGED vars
  BY <1>7 DEF vars
<1> QED
  BY <1>1, <1>2, <1>3, <1>4, <1>5, <1>6, <1>7, Cases

(* fixes grows with the SSDTs of fix_dsdt, and with nothing else.          *)
LEMMA FixesStep ==
    ASSUME [Next]_vars, ~ Restart, FixesType
    PROVE  \/ fixes' = fixes /\ tables' \in {tables, Append(tables, Own("DBG2")),
                                             Append(tables, Own("SPCR"))}
           \/ fixes' = fixes /\ UninstallPcct
           \/ /\ \E t \in Dsdt!Table : fixes' = Append(fixes, t)
              /\ tables' = Append(tables, Own("SSDT"))
<1> USE DEF dsdt
<1>1. CASE Quiet
  BY <1>1 DEF Quiet, Start, SetResolution, ReadProduct, CountCpu, CpusDone, CpusFail
<1>2. CASE ScanXsdt \/ PcctStays \/ UninstallPcct
  BY <1>2 DEF ScanXsdt, PcctStays, SkipPcct, UninstallFails, PcctNotFound, ScanFails,
              UninstallPcct
<1>3. CASE Serial("dbg2", "DBG2", "spcr") \/ Serial("spcr", "SPCR", "dsdt")
  BY <1>3 DEF Serial, SkipSerial, InstallSerial, InstallSerialFails
<1>4. CASE SkipDsdt \/ CallDsdt
  BY <1>4 DEF SkipDsdt, CallDsdt, Dsdt!Call
<1>5. CASE DsdtReturns
  <2> DEFINE Allowed == [hid : SUBSET (unidentified \ Dsdt!Identified), sta : SUBSET disableable]
  <2>1. Allowed \subseteq Dsdt!Table
    BY DEF FixesType, Dsdt!Table
  <2> HIDE DEF Allowed
  <2>2. \/ UNCHANGED <<fixes, tables>>
        \/ /\ \E t \in Allowed : fixes' = Append(fixes, t)
           /\ tables' = Append(tables, Own("SSDT"))
    BY <1>5 DEF DsdtReturns, Dsdt!ReturnUnchanged, Dsdt!ReturnFixed, Allowed
  <2> QED
    BY <2>1, <2>2
<1>6. CASE Leaving \/ FindFile \/ LoadImage \/ StartImage
  BY <1>6 DEF Leaving, ReturnToShell, NoBootFile, LoadFails, StartFails, Exit,
              FindFile, LoadImage, StartImage
<1>7. CASE UNCHANGED vars
  BY <1>7 DEF vars
<1> QED
  BY <1>1, <1>2, <1>3, <1>4, <1>5, <1>6, <1>7, Cases

LEMMA InitFixesType == Init => FixesType
  BY DEF Init, FixesType, Dsdt!Init

LEMMA NextFixesType == FixesType /\ [Next]_vars => FixesType'
<1> SUFFICES ASSUME FixesType, [Next]_vars PROVE FixesType'
  OBVIOUS
<1>1. CASE Restart
  BY <1>1 DEF Restart, FixesType
<1>2. CASE ~ Restart
  <2>1. fixes' = fixes \/ \E t \in Dsdt!Table : fixes' = Append(fixes, t)
    BY <1>2, FixesStep
  <2>2. fixes' \in Seq(Dsdt!Table)
    BY <2>1, AppendProperties DEF FixesType
  <2> QED
    BY <2>2, DsdtSetsSame DEF FixesType
<1> QED
  BY <1>1, <1>2

(* Every table of the firmware in the list is what the firmware installed, *)
(* behind the firmware's tables that come before it and nothing else.      *)
InOrder(list) ==
    \A i \in DOMAIN list : list[i].by # 0 =>
        /\ list[i].by \in DOMAIN firmware /\ list[i] = firmware[list[i].by]
        /\ \A j \in 1 .. i - 1 : list[j].by # 0 /\ list[j].by < list[i].by

AllThere(list) ==
    \A k \in DOMAIN firmware : firmware[k].sig # "PCCT" =>
        \E i \in DOMAIN list : list[i] = firmware[k]

LEMMA AppendKeepsOrder ==
    ASSUME NEW list \in Seq(Table), NEW sig \in Sig, InOrder(list), AllThere(list)
    PROVE  InOrder(Append(list, Own(sig))) /\ AllThere(Append(list, Own(sig)))
<1> DEFINE t   == Own(sig)
           new == Append(list, t)
<1>1. t \in Table /\ t.by = 0
  BY AppTable
<1> HIDE DEF t
<1>2. /\ DOMAIN new = 1 .. Len(list) + 1 /\ DOMAIN list = 1 .. Len(list)
      /\ Len(list) \in Nat /\ new[Len(list) + 1] = t
      /\ \A i \in 1 .. Len(list) : new[i] = list[i]
  BY <1>1
<1> HIDE DEF new
<1>3. InOrder(new)
  BY <1>1, <1>2 DEF InOrder
<1>4. AllThere(new)
  <2> SUFFICES ASSUME NEW k \in DOMAIN firmware, firmware[k].sig # "PCCT"
               PROVE  \E i \in DOMAIN new : new[i] = firmware[k]
    BY DEF AllThere
  <2>1. PICK i \in DOMAIN list : list[i] = firmware[k]
    BY DEF AllThere
  <2> QED
    BY <1>2, <2>1
<1> QED
  BY <1>3, <1>4 DEF new, t

LEMMA RemoveKeepsOrder ==
    ASSUME NEW list \in Seq(Table), NEW k \in DOMAIN list, list[k].sig = "PCCT",
           InOrder(list), AllThere(list)
    PROVE  InOrder(RemoveAt(list, k)) /\ AllThere(RemoveAt(list, k))
<1> DEFINE new == RemoveAt(list, k)
<1>1. /\ DOMAIN new = 1 .. Len(list) - 1
      /\ \A i \in 1 .. Len(list) - 1 : new[i] = IF i < k THEN list[i] ELSE list[i + 1]
  BY RemoveAtShape
<1> HIDE DEF new
<1>2. k \in 1 .. Len(list) /\ Len(list) \in Nat /\ DOMAIN list = 1 .. Len(list)
  OBVIOUS
<1>3. InOrder(new)
  <2> SUFFICES ASSUME NEW i \in DOMAIN new, new[i].by # 0
               PROVE  /\ new[i].by \in DOMAIN firmware /\ new[i] = firmware[new[i].by]
                      /\ \A j \in 1 .. i - 1 : new[j].by # 0 /\ new[j].by < new[i].by
    BY DEF InOrder
  <2> DEFINE old(j) == IF j < k THEN j ELSE j + 1
  <2>1. \A j \in 1 .. i : /\ old(j) \in DOMAIN list /\ new[j] = list[old(j)]
                          /\ j < i => old(j) \in 1 .. old(i) - 1
    BY <1>1, <1>2
  <2>2. i \in 1 .. i /\ \A j \in 1 .. i - 1 : j \in 1 .. i /\ j < i
    BY <1>1, <1>2
  <2> HIDE DEF old
  <2>3. /\ list[old(i)].by # 0 /\ old(i) \in DOMAIN list /\ new[i] = list[old(i)]
    BY <2>1, <2>2
  <2>4. /\ new[i].by \in DOMAIN firmware /\ new[i] = firmware[new[i].by]
        /\ \A j \in 1 .. old(i) - 1 : list[j].by # 0 /\ list[j].by < new[i].by
    BY <2>3 DEF InOrder
  <2> QED
    BY <2>1, <2>2, <2>4
<1>4. AllThere(new)
  <2> SUFFICES ASSUME NEW n \in DOMAIN firmware, firmware[n].sig # "PCCT"
               PROVE  \E i \in DOMAIN new : new[i] = firmware[n]
    BY DEF AllThere
  <2>1. PICK i \in DOMAIN list : list[i] = firmware[n]
    BY DEF AllThere
  <2>2. i # k /\ i \in 1 .. Len(list)
    BY <1>2, <2>1
  <2>3. CASE i < k
    <3>1. i \in DOMAIN new /\ new[i] = list[i]
      BY <1>1, <1>2, <2>2, <2>3
    <3> QED
      BY <2>1, <3>1
  <2>4. CASE i > k
    <3>1. i - 1 \in DOMAIN new /\ ~ (i - 1 < k) /\ (i - 1) + 1 = i
      BY <1>1, <1>2, <2>2, <2>4
    <3>2. new[i - 1] = list[i]
      BY <1>1, <3>1
    <3> QED
      BY <2>1, <3>1, <3>2
  <2> QED
    BY <1>2, <2>2, <2>3, <2>4
<1> QED
  BY <1>3, <1>4 DEF new

LEMMA NextKept ==
    Types /\ FixesType /\ FirmwareTablesKept /\ [Next]_vars => FirmwareTablesKept'
<1> SUFFICES ASSUME Types, FixesType, FirmwareTablesKept, [Next]_vars
             PROVE  FirmwareTablesKept'
  OBVIOUS
<1>1. firmware' = firmware /\ tables \in Seq(Table) /\ firmware \in Seq(Table)
  BY Fixed, FirmwareTables DEF Types
<1>2. Count(tables, "SSDT") \in Nat /\ Count(firmware, "SSDT") \in Nat /\ Len(fixes) \in Nat
  BY <1>1, HavingFinite DEF FixesType
<1>3. /\ InOrder(tables) /\ AllThere(tables)
      /\ Count(tables, "SSDT") = Count(firmware, "SSDT") + Len(fixes)
  BY DEF FirmwareTablesKept, InOrder, AllThere
<1>4. SUFFICES /\ InOrder(tables') /\ AllThere(tables')
               /\ Count(tables', "SSDT") = Count(firmware, "SSDT") + Len(fixes')
  BY <1>1 DEF FirmwareTablesKept, InOrder, AllThere
<1>5. CASE Restart
  <2>1. tables' = firmware /\ Len(fixes') = 0
    BY <1>5 DEF Restart
  <2>2. \A i \in DOMAIN firmware : firmware[i].by = i
    BY FirmwareTables DEF Types
  <2>3. InOrder(firmware) /\ AllThere(firmware)
    BY <1>1, <2>2 DEF InOrder, AllThere
  <2> QED
    BY <1>2, <2>1, <2>3
<1>6. ASSUME NEW sig \in Sig, tables' = Append(tables, Own(sig))
      PROVE  /\ InOrder(tables') /\ AllThere(tables')
             /\ Count(tables', "SSDT") = Count(tables, "SSDT") + (IF sig = "SSDT" THEN 1 ELSE 0)
  BY <1>1, <1>3, <1>6, AppendKeepsOrder, CountAppended
<1>7. CASE fixes' = fixes /\ UninstallPcct
  <2>1. PICK k \in DOMAIN tables : FoundPcct(k) /\ tables' = RemoveAt(tables, k)
    BY <1>7 DEF UninstallPcct
  <2>2. tables[k].sig = "PCCT"
    BY <2>1 DEF FoundPcct
  <2>3. InOrder(tables') /\ AllThere(tables')
    BY <1>1, <1>3, <2>1, <2>2, RemoveKeepsOrder
  <2>4. Count(tables', "SSDT")
          = Count(tables, "SSDT") - (IF tables[k].sig = "SSDT" THEN 1 ELSE 0)
    BY <1>1, <2>1, CountRemoveAt
  <2>5. Count(tables', "SSDT") = Count(tables, "SSDT")
    BY <1>2, <2>2, <2>4
  <2> QED
    BY <1>3, <1>7, <2>3, <2>5
<1>8. CASE /\ \E t \in Dsdt!Table : fixes' = Append(fixes, t)
           /\ tables' = Append(tables, Own("SSDT"))
  <2>1. Len(fixes') = Len(fixes) + 1
    BY <1>8, AppendProperties DEF FixesType
  <2>2. /\ InOrder(tables') /\ AllThere(tables')
        /\ Count(tables', "SSDT") = Count(tables, "SSDT") + 1
    BY <1>6, <1>8 DEF Sig
  <2> QED
    BY <1>2, <1>3, <2>1, <2>2
<1>9. CASE fixes' = fixes /\ tables' = tables
  BY <1>3, <1>9
<1>10. ASSUME NEW sig \in {"DBG2", "SPCR"}, fixes' = fixes, tables' = Append(tables, Own(sig))
       PROVE  /\ InOrder(tables') /\ AllThere(tables')
              /\ Count(tables', "SSDT") = Count(firmware, "SSDT") + Len(fixes')
  <2>1. /\ InOrder(tables') /\ AllThere(tables')
        /\ Count(tables', "SSDT") = Count(tables, "SSDT") + (IF sig = "SSDT" THEN 1 ELSE 0)
    BY <1>6, <1>10 DEF Sig
  <2> QED
    BY <1>2, <1>3, <1>10, <2>1
<1> QED
  BY <1>5, <1>7, <1>8, <1>9, <1>10, FixesStep

(* Through any number of runs, and whatever fails in them, uinstall_pcct   *)
(* takes nothing but a PCCT out of the list: the key it passes to          *)
(* UninstallAcpiTable is that of the table it has just looked at.          *)
THEOREM OnlyPcctRemoved == Spec => []FirmwareTablesKept
<1>1. Init => FirmwareTablesKept
  <2> SUFFICES ASSUME Init PROVE FirmwareTablesKept
    OBVIOUS
  <2>1. /\ tables = firmware /\ fixes = <<>> /\ firmware \in Seq(Table)
        /\ \A i \in DOMAIN firmware : firmware[i].by = i
    BY FirmwareTables DEF Init, Dsdt!Init
  <2>2. Count(firmware, "SSDT") \in Nat /\ Len(fixes) = 0
    BY <2>1, HavingFinite
  <2> QED
    BY <2>1, <2>2 DEF FirmwareTablesKept
<1> QED
  BY <1>1, InitTypes, NextTypes, InitFixesType, NextFixesType, NextKept, PTL DEF Spec

-----------------------------------------------------------------------------
(* What "OK" behind the PCCT means *)

(* A PCCT is always one of the firmware's, and never moves to the back.    *)
PcctPlaced ==
    /\ \A i \in DOMAIN tables : tables[i].sig = "PCCT" => i <= Len(firmware)
    /\ Count(tables, "PCCT") <= Count(firmware, "PCCT")

NoPcct == \A i \in DOMAIN tables : tables[i].sig # "PCCT"

LEMMA PcctSteps ==
    ASSUME [Next]_vars, ~ Restart
    PROVE  \/ tables' = tables
           \/ UninstallPcct
           \/ \E sig \in Sig \ {"PCCT"} : tables' = Append(tables, Own(sig))
  BY TableSteps DEF InstallSerial, Sig

LEMMA AppendedTable ==
    ASSUME Types, NEW sig \in Sig, tables' = Append(tables, Own(sig))
    PROVE  /\ DOMAIN tables = 1 .. Len(tables) /\ Len(tables) \in Nat
           /\ DOMAIN tables' = 1 .. Len(tables) + 1
           /\ tables'[Len(tables) + 1].sig = sig
           /\ \A i \in 1 .. Len(tables) : tables'[i] = tables[i]
<1> DEFINE t == Own(sig)
<1>1. t \in Table /\ t.sig = sig /\ tables \in Seq(Table)
  BY AppTable DEF Types
<1> HIDE DEF t
<1>2. tables' = Append(tables, t)
  BY DEF t
<1> QED
  BY <1>1, <1>2

LEMMA RemovedPcct ==
    ASSUME Types, UninstallPcct
    PROVE  \E k \in DOMAIN tables :
              /\ FoundPcct(k)
              /\ DOMAIN tables = 1 .. Len(tables) /\ Len(tables) \in Nat
              /\ DOMAIN tables' = 1 .. Len(tables) - 1
              /\ \A i \in 1 .. Len(tables) - 1 :
                    tables'[i] = IF i < k THEN tables[i] ELSE tables[i + 1]
              /\ \A sig : Count(tables', sig)
                            = Count(tables, sig) - (IF sig = "PCCT" THEN 1 ELSE 0)
<1>1. PICK k \in DOMAIN tables : FoundPcct(k) /\ tables' = RemoveAt(tables, k)
  BY DEF UninstallPcct
<1>2. tables \in Seq(Table) /\ tables[k].sig = "PCCT"
  BY <1>1 DEF Types, FoundPcct
<1>3. /\ DOMAIN tables' = 1 .. Len(tables) - 1
      /\ \A i \in 1 .. Len(tables) - 1 :
            tables'[i] = IF i < k THEN tables[i] ELSE tables[i + 1]
  BY <1>1, <1>2, RemoveAtShape
<1>4. \A sig : Count(tables', sig) = Count(tables, sig) - (IF tables[k].sig = sig THEN 1 ELSE 0)
  BY <1>1, <1>2, CountRemoveAt
<1>5. DOMAIN tables = 1 .. Len(tables) /\ Len(tables) \in Nat
  BY <1>2
<1> QED
  BY <1>1, <1>2, <1>3, <1>4, <1>5

LEMMA NextPcctPlaced == Types /\ PcctPlaced /\ [Next]_vars => PcctPlaced'
<1> SUFFICES ASSUME Types, PcctPlaced, [Next]_vars PROVE PcctPlaced'
  OBVIOUS
<1>1. /\ firmware' = firmware /\ firmware \in Seq(Table) /\ Len(firmware) \in Nat
      /\ DOMAIN firmware = 1 .. Len(firmware)
      /\ Count(tables, "PCCT") \in Nat /\ Count(firmware, "PCCT") \in Nat
  BY Fixed, FirmwareTables, HavingFinite DEF Types
<1>2. CASE Restart
  <2>1. tables' = firmware
    BY <1>2 DEF Restart
  <2> QED
    BY <1>1, <2>1 DEF PcctPlaced
<1>3. CASE UninstallPcct
  <2>1. PICK k \in DOMAIN tables :
              /\ DOMAIN tables = 1 .. Len(tables) /\ Len(tables) \in Nat
              /\ DOMAIN tables' = 1 .. Len(tables) - 1
              /\ \A i \in 1 .. Len(tables) - 1 :
                    tables'[i] = IF i < k THEN tables[i] ELSE tables[i + 1]
              /\ Count(tables', "PCCT") = Count(tables, "PCCT") - 1
    BY <1>3, RemovedPcct
  <2>2. ASSUME NEW i \in DOMAIN tables', tables'[i].sig = "PCCT" PROVE i <= Len(firmware)
    <3>1. i \in DOMAIN tables /\ i + 1 \in DOMAIN tables
      BY <2>1
    <3>2. CASE i < k
      BY <1>1, <2>1, <2>2, <3>1, <3>2 DEF PcctPlaced
    <3>3. CASE ~ (i < k)
      <4>1. i + 1 <= Len(firmware)
        BY <1>1, <2>1, <2>2, <3>1, <3>3 DEF PcctPlaced
      <4> QED
        BY <1>1, <2>1, <4>1
    <3> QED
      BY <3>2, <3>3
  <2> QED
    BY <1>1, <2>1, <2>2 DEF PcctPlaced
<1>4. ASSUME NEW sig \in Sig \ {"PCCT"}, tables' = Append(tables, Own(sig))
      PROVE  PcctPlaced'
  <2>1. /\ DOMAIN tables = 1 .. Len(tables) /\ Len(tables) \in Nat
        /\ DOMAIN tables' = 1 .. Len(tables) + 1
        /\ tables'[Len(tables) + 1].sig = sig
        /\ \A i \in 1 .. Len(tables) : tables'[i] = tables[i]
    BY <1>4, AppendedTable
  <2>2. Count(tables', "PCCT") = Count(tables, "PCCT") + (IF sig = "PCCT" THEN 1 ELSE 0)
    BY <1>4, CountAppended
  <2>3. \A i \in DOMAIN tables' : tables'[i].sig = "PCCT" => i <= Len(firmware)
    BY <1>4, <2>1 DEF PcctPlaced
  <2> QED
    BY <1>1, <1>4, <2>2, <2>3 DEF PcctPlaced
<1>5. CASE tables' = tables
  BY <1>1, <1>5 DEF PcctPlaced
<1> QED
  BY <1>2, <1>3, <1>4, <1>5, PcctSteps

(* The scan of a list with one PCCT stops at it, unless it lies behind the *)
(* tables uinstall_pcct looks at.                                          *)
LEMMA ScanFinds ==
    ASSUME Types, PcctPlaced, Count(firmware, "PCCT") <= 1, Len(firmware) <= MaxScan,
           \A i \in DOMAIN tables : ~ FoundPcct(i)
    PROVE  NoPcct
<1> SUFFICES ASSUME NEW i \in DOMAIN tables, tables[i].sig = "PCCT" PROVE FALSE
  BY DEF NoPcct
<1>1. /\ tables \in Seq(Table) /\ firmware \in Seq(Table) /\ Len(firmware) \in Nat
      /\ Count(tables, "PCCT") \in Nat /\ Count(firmware, "PCCT") \in Nat
  BY FirmwareTables, HavingFinite DEF Types
<1>2. Count(tables, "PCCT") <= 1
  BY <1>1 DEF PcctPlaced
<1>3. i \in 1 .. MaxScan /\ \A j \in 1 .. i - 1 : j \in DOMAIN tables /\ j # i
  BY <1>1, TablesConstants DEF PcctPlaced
<1>4. \A j \in 1 .. i - 1 : tables[j].sig # "PCCT"
  BY <1>1, <1>2, <1>3, CountUnique
<1> QED
  BY <1>3, <1>4 DEF FoundPcct

LEMMA LastRemoved ==
    ASSUME Types, PcctPlaced, Count(firmware, "PCCT") <= 1, UninstallPcct
    PROVE  NoPcct'
<1>1. /\ tables \in Seq(Table) /\ tables' \in Seq(Table) /\ firmware \in Seq(Table)
      /\ Count(tables, "PCCT") \in Nat /\ Count(firmware, "PCCT") \in Nat
      /\ Count(tables', "PCCT") \in Nat
  <2>1. Types'
    BY NextTypes DEF Next, Step, MainStep
  <2> QED
    BY <2>1, FirmwareTables, HavingFinite DEF Types
<1>2. Count(tables', "PCCT") = Count(tables, "PCCT") - 1
  BY RemovedPcct
<1>3. Count(tables', "PCCT") = 0
  BY <1>1, <1>2 DEF PcctPlaced
<1> QED
  BY <1>1, <1>3, CountNone DEF NoPcct

(* The report on the PCCT changes at its stage and with the next run only. *)
LEMMA PcctReport ==
    ASSUME Types, [Next]_vars
    PROVE  \/ report'["pcct"] = report["pcct"] /\ misread' = misread
              /\ ~ UninstallPcct /\ ~ Restart
           \/ report'["pcct"] # "ok"
           \/ PcctNotFound \/ ScanFails \/ UninstallPcct
<1> USE DEF history, Reported, Stage
<1>1. report \in [Stage -> {"none", "ok", "failed", "skipped"}]
  BY DEF Types
<1>2. CASE Quiet
  BY <1>1, <1>2 DEF Quiet, Start, SetResolution, ReadProduct, CountCpu, CpusDone,
                    CpusFail, Fresh, UninstallPcct, Restart
<1>3. CASE ScanXsdt \/ SkipPcct \/ UninstallFails
  BY <1>1, <1>3 DEF ScanXsdt, SkipPcct, UninstallFails, UninstallPcct, Restart
<1>4. CASE Serial("dbg2", "DBG2", "spcr") \/ Serial("spcr", "SPCR", "dsdt")
  BY <1>1, <1>4 DEF Serial, SkipSerial, InstallSerial, InstallSerialFails, UninstallPcct,
                    Restart
<1>5. CASE SkipDsdt \/ CallDsdt \/ DsdtReturns
  <2>1. pc \in {"dsdt", "fix_dsdt"} /\ pc' # "off"
    BY <1>5 DEF SkipDsdt, CallDsdt, DsdtReturns, Goto
  <2>2. ~ UninstallPcct /\ ~ Restart
    BY <2>1 DEF UninstallPcct, Restart, Goto
  <2> QED
    BY <1>1, <1>5, <2>2 DEF SkipDsdt, CallDsdt, DsdtReturns
<1>6. CASE Leaving \/ FindFile \/ LoadImage \/ StartImage
  BY <1>6 DEF Leaving, ReturnToShell, NoBootFile, LoadFails, StartFails, Exit,
              FindFile, LoadImage, StartImage, UninstallPcct, Restart
<1>7. CASE Restart
  BY <1>7 DEF Restart, Fresh
<1>8. CASE UNCHANGED vars /\ ~ UninstallPcct /\ ~ Restart
  BY <1>8 DEF vars
<1> QED
  BY <1>2, <1>3, <1>4, <1>5, <1>6, <1>7, <1>8, Cases DEF PcctStays

LEMMA NextPcctFound ==
    Types /\ PcctPlaced /\ PcctFoundWhereverItIs /\ [Next]_vars => PcctFoundWhereverItIs'
<1> SUFFICES ASSUME Types, PcctPlaced, PcctFoundWhereverItIs, [Next]_vars,
                    report'["pcct"] = "ok", ~ misread',
                    Count(firmware', "PCCT") <= 1, Len(firmware') <= MaxScan
             PROVE  Count(tables', "PCCT") = 0
  BY DEF PcctFoundWhereverItIs
<1>1. /\ Count(firmware, "PCCT") <= 1 /\ Len(firmware) <= MaxScan
      /\ tables \in Seq(Table) /\ tables' \in Seq(Table) /\ Count(tables, "PCCT") \in Nat
  BY Fixed, NextTypes, HavingFinite DEF Types
<1>2. CASE /\ report'["pcct"] = report["pcct"] /\ misread' = misread
           /\ ~ UninstallPcct /\ ~ Restart
  <2>1. Count(tables, "PCCT") = 0
    BY <1>1, <1>2 DEF PcctFoundWhereverItIs
  <2>2. CASE tables' = tables
    BY <2>1, <2>2
  <2>3. ASSUME NEW sig \in Sig \ {"PCCT"}, tables' = Append(tables, Own(sig))
        PROVE  Count(tables', "PCCT") = 0
    <3>1. Count(tables', "PCCT") = Count(tables, "PCCT") + (IF sig = "PCCT" THEN 1 ELSE 0)
      BY <2>3, CountAppended
    <3> QED
      BY <2>1, <2>3, <3>1
  <2> QED
    BY <1>2, <2>2, <2>3, PcctSteps
<1>3. CASE PcctNotFound
  <2>1. tables' = tables /\ \A i \in DOMAIN tables : ~ FoundPcct(i)
    BY <1>3 DEF PcctNotFound
  <2>2. NoPcct
    BY <1>1, <2>1, ScanFinds
  <2> QED
    BY <1>1, <2>1, <2>2, CountNone DEF NoPcct
<1>4. CASE ScanFails
  BY <1>4 DEF ScanFails
<1>5. CASE UninstallPcct
  BY <1>1, <1>5, LastRemoved, CountNone DEF NoPcct
<1> QED
  BY <1>2, <1>3, <1>4, <1>5, PcctReport

LEMMA InitPcctPlaced == Init => PcctPlaced
<1> SUFFICES ASSUME Init PROVE PcctPlaced
  OBVIOUS
<1>1. tables = firmware /\ firmware \in Seq(Table) /\ Count(firmware, "PCCT") \in Nat
  BY FirmwareTables, HavingFinite DEF Init
<1>2. \A i \in DOMAIN firmware : i <= Len(firmware)
  BY <1>1
<1> QED
  BY <1>1, <1>2 DEF PcctPlaced

(* "OK" behind the PCCT is true to the end of the run for every list with  *)
(* one PCCT among at most as many tables as uinstall_pcct looks at,        *)
(* wherever in the list it is and however many tables main adds to it.     *)
THEOREM PcctOkIsTrue == Spec => []PcctFoundWhereverItIs
<1>1. Init => PcctFoundWhereverItIs
  BY DEF Init, PcctFoundWhereverItIs, Fresh, Stage
<1> QED
  BY <1>1, InitTypes, NextTypes, InitPcctPlaced, NextPcctPlaced, NextPcctFound, PTL DEF Spec

-----------------------------------------------------------------------------
(* A run without a failure is final *)

(* What main reads is what there is: the XSDT, and the processors.         *)
Reliable ==
    Readable /\ (m.smbios => ~ miscounted) /\ Count(firmware, "PCCT") <= 1

(* Nothing is left to do for a stage, in this run or in a later one.       *)
PcctSettled ==
    \/ m.smbios /\ m.procs % Uint8Values > 1
    \/ ~ m.acpi_table \/ ~ m.acpi_sdt
    \/ \A i \in DOMAIN tables : ~ FoundPcct(i)

SerialSettled(sig) == IsW510 \/ ~ m.acpi_table \/ Count(tables, sig) > 0

AllSettled == PcctSettled /\ SerialSettled("DBG2") /\ SerialSettled("SPCR")

(* What main knows in front of the stages that use it.                     *)
Knows ==
    /\ pc \in {"gop", "smbios"} => cpus = 0 /\ ~ is_w510
    /\ pc = "cpus" => m.smbios
    /\ (pc \in {"xsdt", "pcct"} /\ ~ m.smbios) => cpus = 0
    /\ pc \in {"cpus", "xsdt", "pcct", "dbg2", "spcr"} => (is_w510 <=> IsW510)

(* With an XSDT, the flags of the stages to come say which tables exist.   *)
FlagsExact ==
    Readable =>
        /\ pc = "pcct" => ("PCCT" \in has <=> Count(tables, "PCCT") > 0)
        /\ pc \in {"pcct", "dbg2"} => ("DBG2" \in has <=> Count(tables, "DBG2") > 0)
        /\ pc \in {"pcct", "dbg2", "spcr"} => ("SPCR" \in has <=> Count(tables, "SPCR") > 0)

(* A stage that did not fail is settled.                                   *)
StagesSettled ==
    /\ (/\ Reliable /\ pc \in {"dbg2", "spcr"} \cup InDsdt
        /\ report["pcct"] # "failed" /\ ~ misread)
           => PcctSettled
    /\ (Readable /\ pc \in {"spcr"} \cup InDsdt /\ report["dbg2"] # "failed")
           => SerialSettled("DBG2")
    /\ (Readable /\ pc \in InDsdt /\ report["spcr"] # "failed")
           => SerialSettled("SPCR")

RunSettled == (settled /\ Reliable) => AllSettled

LEMMA MachineFlags ==
    ASSUME Types
    PROVE  /\ m.smbios \in BOOLEAN /\ m.acpi_table \in BOOLEAN /\ m.acpi_sdt \in BOOLEAN
           /\ m.procs \in Nat
  BY TablesConstants DEF Types, Machine

LEMMA NextKnows == Types /\ Knows /\ [Next]_vars => Knows'
<1> SUFFICES ASSUME Types, Knows, [Next]_vars PROVE Knows'
  OBVIOUS
<1> USE DEF Goto, locals
<1>1. m' = m /\ m.smbios \in BOOLEAN
  BY Fixed, MachineFlags
<1>2. IsW510' = IsW510
  BY <1>1 DEF IsW510
<1>3. CASE Start
  BY <1>3 DEF Start, Knows
<1>4. CASE SetResolution
  BY <1>4 DEF SetResolution, Knows
<1>5. CASE ReadProduct
  <2>1. CASE m.smbios
    <3>1. pc' = "cpus" /\ is_w510' = (m.product = "W510")
      BY <1>5, <2>1 DEF ReadProduct
    <3>2. is_w510' <=> IsW510'
      BY <1>2, <2>1, <3>1 DEF IsW510
    <3> QED
      BY <1>1, <2>1, <3>1, <3>2 DEF Knows
  <2>2. CASE ~ m.smbios
    <3>1. pc = "smbios" /\ pc' = "xsdt" /\ is_w510' = is_w510 /\ cpus' = cpus
      BY <1>5, <2>2 DEF ReadProduct
    <3>2. ~ is_w510' /\ ~ IsW510' /\ cpus' = 0
      BY <1>2, <2>2, <3>1 DEF IsW510, Knows
    <3> QED
      BY <3>1, <3>2 DEF Knows
  <2> QED
    BY <2>1, <2>2
<1>6. CASE CountCpu
  BY <1>1, <1>2, <1>6 DEF CountCpu, Knows
<1>7. CASE CpusDone \/ CpusFail \/ ScanXsdt
  BY <1>1, <1>2, <1>7 DEF CpusDone, CpusFail, ScanXsdt, Knows
<1>8. CASE PcctStays \/ UninstallPcct
  BY <1>1, <1>2, <1>8 DEF PcctStays, SkipPcct, UninstallFails, PcctNotFound, ScanFails,
                          UninstallPcct, Knows
<1>9. CASE Serial("dbg2", "DBG2", "spcr") \/ Serial("spcr", "SPCR", "dsdt")
  BY <1>1, <1>2, <1>9 DEF Serial, SkipSerial, InstallSerial, InstallSerialFails, Knows
<1>10. CASE SkipDsdt \/ CallDsdt \/ DsdtReturns \/ Restart
  BY <1>10 DEF SkipDsdt, CallDsdt, DsdtReturns, Restart, Knows
<1>11. CASE Leaving \/ FindFile \/ LoadImage \/ StartImage
  BY <1>11 DEF Leaving, ReturnToShell, NoBootFile, LoadFails, StartFails, Exit,
               FindFile, LoadImage, StartImage, Knows
<1>12. CASE UNCHANGED vars
  BY <1>1, <1>2, <1>12 DEF vars, Knows
<1> QED
  BY <1>3, <1>4, <1>5, <1>6, <1>7, <1>8, <1>9, <1>10, <1>11, <1>12, Cases DEF Quiet

(* The number of DBG2 and of SPCR changes in their own stage only.         *)
LEMMA SerialSame ==
    ASSUME Types, [Next]_vars, ~ Restart, NEW sig \in {"DBG2", "SPCR"}, ~ Installs(sig)
    PROVE  Count(tables', sig) = Count(tables, sig)
<1>1. Count(tables, sig) \in Nat /\ Count(tables', sig) \in Nat
  BY SerialCount
<1>2. Count(tables', sig) <= Count(tables, sig)
  BY SerialCount
<1>3. CASE UninstallPcct
  <2>1. Count(tables', sig) = Count(tables, sig) - (IF sig = "PCCT" THEN 1 ELSE 0)
    BY <1>3, RemovedPcct
  <2> QED
    BY <1>1, <2>1
<1>4. CASE ~ UninstallPcct
  BY <1>1, <1>2, <1>4, CountGrows
<1> QED
  BY <1>3, <1>4

LEMMA NextFlagsExact == Types /\ FlagsExact /\ [Next]_vars => FlagsExact'
<1> SUFFICES ASSUME Types, FlagsExact, [Next]_vars, Readable' PROVE FlagsExact'
  BY DEF FlagsExact
<1>1. Readable
  BY Fixed DEF Readable
<1> USE DEF Goto, locals
<1>2. CASE ScanXsdt
  <2>1. ASSUME NEW sig \in {"PCCT", "DBG2", "SPCR"}
        PROVE  sig \in has' <=> Count(tables', sig) > 0
    <3>1. tables' = tables /\ (sig \in has' <=> sig \in Signatures(tables))
      BY <1>1, <1>2 DEF ScanXsdt
    <3>2. /\ Count(tables, sig) \in Nat
          /\ Count(tables, sig) = 0 <=> \A i \in DOMAIN tables : tables[i].sig # sig
      BY HavingFinite, CountNone DEF Types
    <3>3. Count(tables, sig) > 0 <=> sig \in Signatures(tables)
      BY <3>2 DEF Signatures
    <3> QED
      BY <3>1, <3>3
  <2>2. pc' = "pcct"
    BY <1>2 DEF ScanXsdt
  <2> QED
    BY <2>1, <2>2 DEF FlagsExact
<1>3. CASE PcctStays \/ UninstallPcct
  <2>1. pc = "pcct" /\ pc' = "dbg2" /\ has' = has
    BY <1>3 DEF PcctStays, SkipPcct, UninstallFails, PcctNotFound, ScanFails, UninstallPcct
  <2>2. ~ Restart /\ ~ Installs("DBG2") /\ ~ Installs("SPCR")
    BY <2>1 DEF Installs, InstallSerial, Restart
  <2>3. \A sig \in {"DBG2", "SPCR"} : Count(tables', sig) = Count(tables, sig)
    BY <2>2, SerialSame
  <2> QED
    BY <1>1, <2>1, <2>3 DEF FlagsExact
<1>4. CASE Serial("dbg2", "DBG2", "spcr")
  <2>1. pc = "dbg2" /\ pc' = "spcr" /\ has' = has
    BY <1>4 DEF Serial, SkipSerial, InstallSerial, InstallSerialFails
  <2>2. ~ Restart /\ ~ Installs("SPCR")
    BY <2>1 DEF Installs, InstallSerial, Restart
  <2>3. Count(tables', "SPCR") = Count(tables, "SPCR")
    BY <2>2, SerialSame
  <2> QED
    BY <1>1, <2>1, <2>3 DEF FlagsExact
<1>5. pc' \notin {"pcct", "dbg2", "spcr"} => FlagsExact'
  BY DEF FlagsExact
<1>6. CASE Quiet
  BY <1>5, <1>6
  DEF Quiet, Start, SetResolution, ReadProduct, CountCpu, CpusDone, CpusFail
<1>7. CASE Serial("spcr", "SPCR", "dsdt")
  BY <1>5, <1>7 DEF Serial, SkipSerial, InstallSerial, InstallSerialFails
<1>8. CASE SkipDsdt \/ CallDsdt \/ DsdtReturns \/ Restart
  BY <1>5, <1>8 DEF SkipDsdt, CallDsdt, DsdtReturns, Restart
<1>9. CASE Leaving \/ FindFile \/ LoadImage \/ StartImage
  BY <1>5, <1>9 DEF Leaving, ReturnToShell, NoBootFile, LoadFails, StartFails, Exit,
                    FindFile, LoadImage, StartImage
<1>10. CASE UNCHANGED vars
  BY <1>1, <1>10 DEF vars, FlagsExact
<1> QED
  BY <1>2, <1>3, <1>4, <1>6, <1>7, <1>8, <1>9, <1>10, Cases

(* Until the restart, what is settled stays so.                            *)
LEMMA SettledStays ==
    ASSUME Types, [Next]_vars, ~ Restart
    PROVE  /\ Reliable' => Reliable
           /\ PcctSettled => PcctSettled'
           /\ \A sig \in {"DBG2", "SPCR"} : SerialSettled(sig) => SerialSettled(sig)'
<1>1. m' = m /\ firmware' = firmware
  BY Fixed
<1>2. Reliable' => Reliable
  BY <1>1, MiscountedStays DEF Reliable, Readable
<1>3. ASSUME PcctSettled PROVE PcctSettled'
  <2> SUFFICES ASSUME \A i \in DOMAIN tables : ~ FoundPcct(i)
               PROVE  \A i \in DOMAIN tables' : ~ FoundPcct(i)'
    BY <1>1, <1>3 DEF PcctSettled
  <2>1. CASE tables' = tables
    BY <2>1 DEF FoundPcct
  <2>2. ~ UninstallPcct
    BY DEF UninstallPcct
  <2>3. ASSUME NEW sig \in Sig \ {"PCCT"}, tables' = Append(tables, Own(sig)),
               NEW i \in DOMAIN tables', FoundPcct(i)'
        PROVE  FALSE
    <3>1. /\ DOMAIN tables = 1 .. Len(tables) /\ Len(tables) \in Nat
          /\ DOMAIN tables' = 1 .. Len(tables) + 1
          /\ tables'[Len(tables) + 1].sig = sig
          /\ \A j \in 1 .. Len(tables) : tables'[j] = tables[j]
      BY <2>3, AppendedTable
    <3>2. i \in 1 .. MaxScan /\ tables'[i].sig = "PCCT"
          /\ \A j \in 1 .. i - 1 : tables'[j].sig # "PCCT"
      BY <2>3 DEF FoundPcct
    <3>3. i \in 1 .. Len(tables)
      BY <2>3, <3>1, <3>2
    <3>4. FoundPcct(i)
      BY <3>1, <3>2, <3>3 DEF FoundPcct
    <3> QED
      BY <3>1, <3>3, <3>4
  <2> QED
    BY <2>1, <2>2, <2>3, PcctSteps
<1>4. ASSUME NEW sig \in {"DBG2", "SPCR"}, SerialSettled(sig) PROVE SerialSettled(sig)'
  <2>1. /\ Count(tables, sig) \in Nat /\ Count(tables', sig) \in Nat
        /\ Count(tables, sig) > 0 => Count(tables', sig) > 0
    BY SerialCount, SerialSame
  <2> QED
    BY <1>1, <1>4, <2>1 DEF SerialSettled, IsW510
<1> QED
  BY <1>2, <1>3, <1>4

LEMMA PcctStageSettles ==
    ASSUME Types, Counted, Knows, FlagsExact, PcctPlaced, Reliable,
           PcctStays \/ UninstallPcct,
           report'["pcct"] # "failed", ~ misread'
    PROVE  PcctSettled'
<1>1. [Next]_vars
  BY DEF PcctStays, Next, Step, MainStep
<1>2. m' = m /\ firmware' = firmware
  BY <1>1, Fixed
<1>3. pc = "pcct" /\ report \in [Stage -> {"none", "ok", "failed", "skipped"}]
  BY DEF PcctStays, SkipPcct, UninstallFails, PcctNotFound, ScanFails, UninstallPcct, Types
<1>4. CASE SkipPcct
  <2>1. tables' = tables /\ PcctSkipped
    BY <1>4 DEF SkipPcct
  <2>2. CASE cpus > 1
    <3>1. m.smbios
      BY <1>3, <2>2 DEF Knows
    <3>2. cpus = m.procs % Uint8Values
      BY <1>3, <3>1 DEF Counted, Reliable
    <3> QED
      BY <1>2, <2>2, <3>1, <3>2 DEF PcctSettled
  <2>3. CASE "PCCT" \notin has
    <3>1. Count(tables, "PCCT") \in Nat /\ ~ (Count(tables, "PCCT") > 0)
      BY <1>3, <2>3, HavingFinite DEF FlagsExact, Reliable, Types
    <3>2. \A i \in DOMAIN tables : tables[i].sig # "PCCT"
      BY <3>1, CountNone DEF Types
    <3> QED
      BY <2>1, <3>2 DEF PcctSettled, FoundPcct
  <2>4. CASE ~ m.acpi_table \/ ~ m.acpi_sdt
    BY <1>2, <2>4 DEF PcctSettled
  <2> QED
    BY <2>1, <2>2, <2>3, <2>4 DEF PcctSkipped
<1>5. CASE UninstallPcct
  <2>1. NoPcct'
    BY <1>5, LastRemoved DEF Reliable
  <2> QED
    BY <2>1 DEF NoPcct, PcctSettled, FoundPcct
<1>6. CASE PcctNotFound
  BY <1>6 DEF PcctNotFound, PcctSettled, FoundPcct
<1>7. ~ UninstallFails
  BY <1>3 DEF UninstallFails, Reported, Stage
<1>8. ~ ScanFails
  BY DEF ScanFails
<1> QED
  BY <1>4, <1>5, <1>6, <1>7, <1>8 DEF PcctStays

LEMMA SerialStageSettles ==
    ASSUME Types, Knows, FlagsExact, Readable, [Next]_vars,
           NEW stage, NEW sig, NEW next, Serial(stage, sig, next),
           \/ stage = "dbg2" /\ sig = "DBG2" /\ next = "spcr"
           \/ stage = "spcr" /\ sig = "SPCR" /\ next = "dsdt",
           report'[stage] # "failed"
    PROVE  SerialSettled(sig)'
<1>1. m' = m
  BY Fixed
<1>2. /\ pc = stage /\ report \in [Stage -> {"none", "ok", "failed", "skipped"}]
      /\ sig \in {"DBG2", "SPCR"} /\ stage \in Stage
  BY DEF Serial, SkipSerial, InstallSerial, InstallSerialFails, Types, Stage
<1>3. /\ sig \in has => Count(tables, sig) > 0
      /\ is_w510 <=> IsW510
  BY <1>2 DEF FlagsExact, Knows
<1>4. CASE SkipSerial(stage, sig, next)
  <2>1. tables' = tables /\ (sig \in has \/ is_w510 \/ ~ m.acpi_table)
    BY <1>4 DEF SkipSerial, SerialSkipped
  <2> QED
    BY <1>1, <1>3, <2>1 DEF SerialSettled, IsW510
<1>5. CASE InstallSerial(stage, sig, next)
  <2>1. Installs(sig) /\ ~ Restart
    BY <1>2, <1>5 DEF Installs, Restart, InstallSerial
  <2>2. Count(tables', sig) > 0
    BY <1>2, <2>1, SerialCount
  <2> QED
    BY <2>2 DEF SerialSettled
<1>6. ~ InstallSerialFails(stage, sig, next)
  BY <1>2 DEF InstallSerialFails, Reported
<1> QED
  BY <1>4, <1>5, <1>6 DEF Serial

(* What the stages have reported stays until the next run starts.          *)
LEMMA ReportsStay ==
    ASSUME Types, [Next]_vars, pc' \in {"dbg2", "spcr"} \cup InDsdt
    PROVE  /\ ~ Restart
           /\ \/ PcctStays \/ UninstallPcct
              \/ /\ pc \in {"dbg2", "spcr"} \cup InDsdt /\ ~ UninstallPcct
                 /\ report'["pcct"] = report["pcct"] /\ misread' = misread
           /\ pc' \in {"spcr"} \cup InDsdt =>
                 \/ Serial("dbg2", "DBG2", "spcr")
                 \/ pc \in {"spcr"} \cup InDsdt /\ report'["dbg2"] = report["dbg2"]
           /\ pc' \in InDsdt =>
                 \/ Serial("spcr", "SPCR", "dsdt")
                 \/ pc \in InDsdt /\ report'["spcr"] = report["spcr"]
<1> USE DEF Goto, Reported, InChain, InDsdt, Stage, history
<1>1. report \in [Stage -> {"none", "ok", "failed", "skipped"}]
  BY DEF Types
<1>2. ~ Restart
  BY DEF Restart
<1>3. ~ Quiet /\ ~ ScanXsdt /\ ~ Leaving
  BY DEF Quiet, Start, SetResolution, ReadProduct, CountCpu, CpusDone, CpusFail, ScanXsdt,
         Leaving, ReturnToShell, NoBootFile, LoadFails, StartFails, Exit
<1>4. CASE PcctStays \/ UninstallPcct
  BY <1>2, <1>4 DEF PcctStays, SkipPcct, UninstallFails, PcctNotFound, ScanFails,
                    UninstallPcct
<1>5. CASE Serial("dbg2", "DBG2", "spcr")
  BY <1>1, <1>2, <1>5
  DEF Serial, SkipSerial, InstallSerial, InstallSerialFails, UninstallPcct
<1>6. CASE Serial("spcr", "SPCR", "dsdt")
  BY <1>1, <1>2, <1>6
  DEF Serial, SkipSerial, InstallSerial, InstallSerialFails, UninstallPcct
<1>7. CASE SkipDsdt
  BY <1>1, <1>2, <1>7 DEF SkipDsdt, UninstallPcct
<1>8. CASE CallDsdt
  BY <1>1, <1>2, <1>8 DEF CallDsdt, UninstallPcct
<1>9. CASE DsdtReturns
  <2>1. /\ pc = "fix_dsdt" /\ misread' = misread
        /\ report' = [report EXCEPT !["dsdt"] = IF dsdt_result' = 0 THEN "ok" ELSE "failed"]
    BY <1>9 DEF DsdtReturns
  <2> QED
    BY <1>1, <1>2, <2>1 DEF UninstallPcct
<1>10. CASE FindFile \/ LoadImage \/ StartImage
  BY <1>2, <1>10 DEF FindFile, LoadImage, StartImage, UninstallPcct
<1>11. CASE UNCHANGED vars /\ ~ UninstallPcct
  BY <1>2, <1>11 DEF vars
<1> QED
  BY <1>2, <1>3, <1>4, <1>5, <1>6, <1>7, <1>8, <1>9, <1>10, <1>11, Cases

LEMMA NextStagesSettled ==
    /\ Types /\ Counted /\ Knows /\ FlagsExact /\ PcctPlaced
    /\ StagesSettled /\ [Next]_vars
    => StagesSettled'
<1> SUFFICES ASSUME Types, Counted, Knows, FlagsExact, PcctPlaced, StagesSettled,
                    [Next]_vars
             PROVE  StagesSettled'
  OBVIOUS
<1>1. Readable' => Readable
  BY Fixed DEF Readable
<1>2. ASSUME Reliable', pc' \in {"dbg2", "spcr"} \cup InDsdt,
             report'["pcct"] # "failed", ~ misread'
      PROVE  PcctSettled'
  <2>1. ~ Restart /\ Reliable
    BY <1>2, ReportsStay, SettledStays
  <2>2. CASE PcctStays \/ UninstallPcct
    BY <1>2, <2>1, <2>2, PcctStageSettles
  <2>3. CASE ~ (PcctStays \/ UninstallPcct)
    BY <1>2, <2>1, <2>3, ReportsStay, SettledStays DEF StagesSettled
  <2> QED
    BY <2>2, <2>3
<1>3. ASSUME Readable', pc' \in {"spcr"} \cup InDsdt, report'["dbg2"] # "failed"
      PROVE  SerialSettled("DBG2")'
  <2>1. ~ Restart /\ Readable
    BY <1>1, <1>3, ReportsStay
  <2>2. CASE Serial("dbg2", "DBG2", "spcr")
    BY <1>3, <2>1, <2>2, SerialStageSettles
  <2>3. CASE ~ Serial("dbg2", "DBG2", "spcr")
    BY <1>3, <2>1, <2>3, ReportsStay, SettledStays DEF StagesSettled
  <2> QED
    BY <2>2, <2>3
<1>4. ASSUME Readable', pc' \in InDsdt, report'["spcr"] # "failed"
      PROVE  SerialSettled("SPCR")'
  <2>1. ~ Restart /\ Readable
    BY <1>1, <1>4, ReportsStay
  <2>2. CASE Serial("spcr", "SPCR", "dsdt")
    BY <1>4, <2>1, <2>2, SerialStageSettles
  <2>3. CASE ~ Serial("spcr", "SPCR", "dsdt")
    BY <1>4, <2>1, <2>3, ReportsStay, SettledStays DEF StagesSettled
  <2> QED
    BY <2>2, <2>3
<1> QED
  BY <1>2, <1>3, <1>4 DEF StagesSettled

LEMMA NextRunSettled ==
    Types /\ StagesSettled /\ RunSettled /\ [Next]_vars => RunSettled'
<1> SUFFICES ASSUME Types, StagesSettled, RunSettled, [Next]_vars, settled', Reliable'
             PROVE  AllSettled'
  BY DEF RunSettled
<1>1. ~ Restart
  BY DEF Restart
<1>2. Reliable
  BY <1>1, SettledStays
<1>3. AllSettled => AllSettled'
  BY <1>1, SettledStays DEF AllSettled
<1>4. CASE settled
  BY <1>2, <1>3, <1>4 DEF RunSettled
<1>5. CASE ~ settled /\ Leaving
  <2>1. /\ pc \in InChain
        /\ settled' = (settled \/ (~ misread /\ \A s \in Stage : report[s] # "failed"))
    BY <1>5 DEF Leaving, ReturnToShell, NoBootFile, LoadFails, StartFails, Exit, InChain
  <2>2. ~ misread /\ \A s \in Stage : report[s] # "failed"
    BY <1>5, <2>1
  <2>3. AllSettled
    BY <1>2, <2>1, <2>2 DEF StagesSettled, AllSettled, InDsdt, Stage, Reliable
  <2> QED
    BY <1>3, <2>3
<1>6. ASSUME ~ Leaving PROVE settled' = settled
  <2> USE DEF history
  <2>1. CASE Quiet
    BY <2>1 DEF Quiet, Start, SetResolution, ReadProduct, CountCpu, CpusDone, CpusFail
  <2>2. CASE ScanXsdt \/ PcctStays \/ UninstallPcct
    BY <2>2 DEF ScanXsdt, PcctStays, SkipPcct, UninstallFails, PcctNotFound, ScanFails,
                UninstallPcct
  <2>3. CASE Serial("dbg2", "DBG2", "spcr") \/ Serial("spcr", "SPCR", "dsdt")
    BY <2>3 DEF Serial, SkipSerial, InstallSerial, InstallSerialFails
  <2>4. CASE SkipDsdt \/ CallDsdt \/ DsdtReturns \/ FindFile \/ LoadImage \/ StartImage
    BY <2>4 DEF SkipDsdt, CallDsdt, DsdtReturns, FindFile, LoadImage, StartImage
  <2>5. CASE UNCHANGED vars
    BY <2>5 DEF vars
  <2> QED
    BY <1>1, <1>6, <2>1, <2>2, <2>3, <2>4, <2>5, Cases
<1> QED
  BY <1>4, <1>5, <1>6

(* With every stage settled, no stage finds anything to do.                *)
LEMMA SettledChangesNothing ==
    ASSUME Types, Counted, Knows, FlagsExact, Reliable, AllSettled, [Next]_vars, pc' # "off"
    PROVE  tables' \in {tables, Append(tables, Own("SSDT"))}
<1>1. ~ Restart
  BY DEF Restart, Goto
<1>2. ~ UninstallPcct
  <2> SUFFICES ASSUME UninstallPcct PROVE FALSE
    OBVIOUS
  <2>1. /\ pc = "pcct" /\ ~ (cpus > 1) /\ m.acpi_table /\ m.acpi_sdt
        /\ \E i \in DOMAIN tables : FoundPcct(i)
    BY DEF UninstallPcct, PcctSkipped
  <2>2. m.smbios /\ m.procs % Uint8Values > 1
    BY <2>1 DEF AllSettled, PcctSettled
  <2>3. cpus = m.procs % Uint8Values
    BY <2>1, <2>2 DEF Counted, Reliable
  <2> QED
    BY <2>1, <2>2, <2>3
<1>3. ~ InstallSerial("dbg2", "DBG2", "spcr")
  BY DEF InstallSerial, SerialSkipped, AllSettled, SerialSettled, Knows, FlagsExact, Reliable
<1>4. ~ InstallSerial("spcr", "SPCR", "dsdt")
  BY DEF InstallSerial, SerialSkipped, AllSettled, SerialSettled, Knows, FlagsExact, Reliable
<1> QED
  BY <1>1, <1>2, <1>3, <1>4, TableSteps

(* Once a run met no failure, no later run of the same boot removes or     *)
(* installs a table, however it fails itself, except for fix_dsdt's SSDT.  *)
THEOREM CleanRunIsFinal == Spec => Converges
<1> DEFINE Same ==
      (/\ settled /\ Readable /\ (m.smbios => ~ miscounted)
       /\ Count(firmware, "PCCT") <= 1 /\ pc' # "off")
          => tables' \in {tables, Append(tables, Own("SSDT"))}
           Inv == /\ Types /\ Counted /\ Knows /\ FlagsExact /\ PcctPlaced
                  /\ StagesSettled /\ RunSettled
<1>1. Init => Inv
  <2>1. Init => Counted /\ Knows /\ FlagsExact /\ StagesSettled /\ RunSettled
    BY DEF Init, Counted, Knows, FlagsExact, StagesSettled, RunSettled, InChain, InDsdt
  <2> QED
    BY <2>1, InitTypes, InitPcctPlaced
<1>2. Inv /\ [Next]_vars => Inv'
  BY NextTypes, NextCounted, NextKnows, NextFlagsExact, NextPcctPlaced, NextStagesSettled,
     NextRunSettled
<1>3. ASSUME Inv, [Next]_vars PROVE [Same]_vars
  <2> SUFFICES ASSUME settled, Reliable, pc' # "off"
               PROVE  tables' \in {tables, Append(tables, Own("SSDT"))}
    BY DEF Reliable
  <2>1. AllSettled
    BY <1>3 DEF RunSettled
  <2> QED
    BY <1>3, <2>1, SettledChangesNothing
<1> HIDE DEF Inv
<1>4. Spec => []Inv
  BY <1>1, <1>2, PTL DEF Spec
<1>5. [][Next]_vars /\ []Inv => [][Same]_vars
  BY <1>3, PTL
<1> QED
  BY <1>4, <1>5, PTL DEF Spec, Converges

-----------------------------------------------------------------------------
(* A failed stage costs its own fix only *)

(* Behind its stage, the PCCT of a machine with one processor is gone.     *)
PcctGone ==
    (/\ pc \in {"dbg2", "spcr"} \cup InDsdt /\ report["pcct"] # "failed" /\ ~ misread
     /\ Readable /\ m.acpi_table /\ m.acpi_sdt /\ m.procs <= 1
     /\ Count(firmware, "PCCT") <= 1 /\ Len(firmware) <= MaxScan)
    => Count(tables, "PCCT") = 0

LEMMA PcctStageRemoves ==
    ASSUME Types, Counted, FlagsExact, PcctPlaced, PcctStays \/ UninstallPcct,
           report'["pcct"] # "failed", ~ misread',
           Readable, m.acpi_table, m.acpi_sdt, m.procs <= 1,
           Count(firmware, "PCCT") <= 1, Len(firmware) <= MaxScan
    PROVE  Count(tables', "PCCT") = 0
<1>1. /\ [Next]_vars /\ pc = "pcct"
      /\ report \in [Stage -> {"none", "ok", "failed", "skipped"}]
  BY DEF PcctStays, SkipPcct, UninstallFails, PcctNotFound, ScanFails, UninstallPcct,
         Types, Next, Step, MainStep
<1>2. tables \in Seq(Table) /\ tables' \in Seq(Table) /\ Count(tables, "PCCT") \in Nat
  BY <1>1, NextTypes, HavingFinite DEF Types
<1>3. CASE SkipPcct
  <2>1. tables' = tables /\ PcctSkipped
    BY <1>3 DEF SkipPcct
  <2>2. cpus <= 1
    <3>1. m.procs \in Nat /\ (m.procs <= 1 => m.procs < Uint8Values)
      BY MachineFields, TablesConstants
    <3>2. m.procs % Uint8Values <= 1
      BY <3>1, WrapSmall
    <3> QED
      BY <1>1, <3>2 DEF Counted
  <2>3. "PCCT" \notin has
    BY <2>1, <2>2 DEF PcctSkipped, Types
  <2> QED
    BY <1>1, <1>2, <2>1, <2>3 DEF FlagsExact
<1>4. CASE UninstallPcct
  BY <1>2, <1>4, LastRemoved, CountNone DEF NoPcct
<1>5. CASE PcctNotFound
  <2>1. tables' = tables /\ \A i \in DOMAIN tables : ~ FoundPcct(i)
    BY <1>5 DEF PcctNotFound
  <2>2. NoPcct
    BY <2>1, ScanFinds
  <2> QED
    BY <1>2, <2>1, <2>2, CountNone DEF NoPcct
<1>6. ~ UninstallFails /\ ~ ScanFails
  BY <1>1 DEF UninstallFails, ScanFails, Reported, Stage
<1> QED
  BY <1>3, <1>4, <1>5, <1>6 DEF PcctStays

LEMMA NextPcctGone ==
    /\ Types /\ Counted /\ FlagsExact /\ PcctPlaced /\ PcctGone /\ [Next]_vars
    => PcctGone'
<1> SUFFICES ASSUME Types, Counted, FlagsExact, PcctPlaced, PcctGone, [Next]_vars,
                    pc' \in {"dbg2", "spcr"} \cup InDsdt, report'["pcct"] # "failed",
                    ~ misread', Readable', m'.acpi_table, m'.acpi_sdt, m'.procs <= 1,
                    Count(firmware', "PCCT") <= 1, Len(firmware') <= MaxScan
             PROVE  Count(tables', "PCCT") = 0
  BY DEF PcctGone
<1>1. m' = m /\ firmware' = firmware /\ Readable /\ ~ Restart
  BY Fixed, ReportsStay DEF Readable
<1>2. CASE PcctStays \/ UninstallPcct
  BY <1>1, <1>2, PcctStageRemoves
<1>3. CASE ~ (PcctStays \/ UninstallPcct)
  <2>1. Count(tables, "PCCT") = 0
    BY <1>1, <1>3, ReportsStay DEF PcctGone
  <2>2. ASSUME NEW sig \in Sig \ {"PCCT"}, tables' = Append(tables, Own(sig))
        PROVE  Count(tables', "PCCT") = 0
    <3>1. Count(tables', "PCCT") = Count(tables, "PCCT") + (IF sig = "PCCT" THEN 1 ELSE 0)
      BY <2>2, CountAppended
    <3> QED
      BY <2>1, <2>2, <3>1
  <2> QED
    BY <1>1, <1>3, <2>1, <2>2, PcctSteps
<1> QED
  BY <1>2, <1>3

(* For every machine and table list, and whatever fails in any number of   *)
(* runs: main comes to its end with every fix in place that it did not     *)
(* report as FAILED and that the machine can have, and does not return     *)
(* before it has looked for a boot manager when it was asked to.           *)
THEOREM OneFailureOneFix == Spec => []FailuresStayLocal
<1> DEFINE Inv == /\ Types /\ Counted /\ Knows /\ FlagsExact /\ PcctPlaced
                  /\ StagesSettled /\ PcctGone /\ StagesDone
<1>1. Init => Inv
  <2>1. Init => /\ Counted /\ Knows /\ FlagsExact /\ StagesSettled
                /\ PcctGone /\ StagesDone
    BY DEF Init, Counted, Knows, FlagsExact, StagesSettled, PcctGone, StagesDone,
           InChain, InDsdt
  <2> QED
    BY <2>1, InitTypes, InitPcctPlaced
<1>2. Inv /\ [Next]_vars => Inv'
  BY NextTypes, NextCounted, NextKnows, NextFlagsExact, NextPcctPlaced, NextStagesSettled,
     NextPcctGone, NextStagesDone
<1>3. Inv => FailuresStayLocal
  BY DEF StagesSettled, PcctGone, StagesDone, FailuresStayLocal, SerialSettled, InDsdt
<1> HIDE DEF Inv
<1> QED
  BY <1>1, <1>2, <1>3, PTL DEF Spec

-----------------------------------------------------------------------------
(* Types *)

Places == {"off", "gop", "smbios", "cpus", "xsdt", "pcct", "dbg2", "spcr", "dsdt",
           "fix_dsdt", "chain", "load", "start", "booted"}

Numbers == pc \in Places /\ image \in 0 .. 3 /\ runs \in 0 .. MaxRuns

Flags ==
    /\ is_w510 \in BOOLEAN
    /\ miscounted \in BOOLEAN /\ misread \in BOOLEAN /\ settled \in BOOLEAN

Sets ==
    /\ has \subseteq {"PCCT", "DBG2", "SPCR"}
    /\ unidentified \subseteq Device /\ disableable \subseteq Device
    /\ dsdt_result \in {0, 1}

LEMMA NextNumbers == Numbers /\ [Next]_vars => Numbers'
<1> SUFFICES ASSUME Numbers, [Next]_vars PROVE Numbers'
  OBVIOUS
<1> USE TablesConstants DEF Numbers, Places, Goto, history
<1>1. CASE Quiet
  BY <1>1
  DEF Quiet, Start, SetResolution, ReadProduct, CountCpu, CpusDone, CpusFail
<1>2. CASE ScanXsdt \/ PcctStays \/ UninstallPcct
  BY <1>2 DEF ScanXsdt, PcctStays, SkipPcct, UninstallFails, PcctNotFound, ScanFails,
              UninstallPcct
<1>3. CASE Serial("dbg2", "DBG2", "spcr") \/ Serial("spcr", "SPCR", "dsdt")
  BY <1>3 DEF Serial, SkipSerial, InstallSerial, InstallSerialFails
<1>4. CASE SkipDsdt \/ CallDsdt \/ DsdtReturns
  BY <1>4 DEF SkipDsdt, CallDsdt, DsdtReturns
<1>5. CASE Leaving \/ FindFile \/ LoadImage \/ StartImage
  BY <1>5 DEF Leaving, ReturnToShell, NoBootFile, LoadFails, StartFails, Exit,
              FindFile, LoadImage, StartImage
<1>6. CASE Restart
  BY <1>6 DEF Restart
<1>7. CASE UNCHANGED vars
  BY <1>7 DEF vars
<1> QED
  BY <1>1, <1>2, <1>3, <1>4, <1>5, <1>6, <1>7, Cases

LEMMA NextFlags == Flags /\ [Next]_vars => Flags'
<1> SUFFICES ASSUME Flags, [Next]_vars PROVE Flags'
  OBVIOUS
<1> USE DEF Flags, history, locals
<1>1. CASE Start \/ SetResolution \/ CountCpu \/ CpusDone \/ CpusFail
  <2>1. CASE Start
    BY <2>1 DEF Start
  <2>2. CASE SetResolution \/ CountCpu
    BY <2>2 DEF SetResolution, CountCpu
  <2>3. CASE CpusDone \/ CpusFail
    BY <2>3 DEF CpusDone, CpusFail
  <2> QED
    BY <1>1, <2>1, <2>2, <2>3
<1>2. CASE ReadProduct
  BY <1>2, Zenon DEF ReadProduct
<1>3. CASE ScanXsdt \/ PcctStays \/ UninstallPcct
  BY <1>3 DEF ScanXsdt, PcctStays, SkipPcct, UninstallFails, PcctNotFound, ScanFails,
              UninstallPcct
<1>4. CASE Serial("dbg2", "DBG2", "spcr") \/ Serial("spcr", "SPCR", "dsdt")
  BY <1>4 DEF Serial, SkipSerial, InstallSerial, InstallSerialFails
<1>5. CASE SkipDsdt \/ CallDsdt \/ DsdtReturns \/ FindFile \/ LoadImage \/ StartImage
  BY <1>5 DEF SkipDsdt, CallDsdt, DsdtReturns, FindFile, LoadImage, StartImage
<1>6. CASE Leaving
  <2>1. /\ settled' = (settled \/ (~ misread /\ \A s \in Stage : report[s] # "failed"))
        /\ is_w510' = is_w510 /\ miscounted' = miscounted /\ misread' = misread
    BY <1>6 DEF Leaving, ReturnToShell, NoBootFile, LoadFails, StartFails, Exit
  <2>2. settled' \in BOOLEAN
    BY <2>1, Zenon
  <2> QED
    BY <2>1, <2>2
<1>7. CASE Restart \/ UNCHANGED vars
  BY <1>7 DEF Restart, vars
<1> QED
  BY <1>1, <1>2, <1>3, <1>4, <1>5, <1>6, <1>7, Cases DEF Quiet

LEMMA NextSets == Sets /\ [Next]_vars => Sets'
<1> SUFFICES ASSUME Sets, [Next]_vars PROVE Sets'
  OBVIOUS
<1> USE DEF Sets, locals, dsdt
<1>1. CASE Quiet
  BY <1>1
  DEF Quiet, Start, SetResolution, ReadProduct, CountCpu, CpusDone, CpusFail
<1>2. CASE ScanXsdt
  BY <1>2 DEF ScanXsdt
<1>3. CASE PcctStays \/ UninstallPcct
  BY <1>3 DEF PcctStays, SkipPcct, UninstallFails, PcctNotFound, ScanFails,
              UninstallPcct
<1>4. CASE Serial("dbg2", "DBG2", "spcr") \/ Serial("spcr", "SPCR", "dsdt")
  BY <1>4 DEF Serial, SkipSerial, InstallSerial, InstallSerialFails
<1>5. CASE SkipDsdt \/ CallDsdt \/ FindFile \/ LoadImage \/ StartImage
  BY <1>5 DEF SkipDsdt, CallDsdt, Dsdt!Call, FindFile, LoadImage, StartImage
<1>6. CASE DsdtReturns
  BY <1>6 DEF DsdtReturns, Dsdt!ReturnUnchanged, Dsdt!ReturnFixed
<1>7. CASE Leaving
  BY <1>7 DEF Leaving, ReturnToShell, NoBootFile, LoadFails, StartFails, Exit
<1>8. CASE Restart \/ UNCHANGED vars
  BY <1>8 DEF Restart, vars
<1> QED
  BY <1>1, <1>2, <1>3, <1>4, <1>5, <1>6, <1>7, <1>8, Cases

(* The variables keep to their types; cpus in particular never exceeds     *)
(* what the uint8_t of the code holds, however many records SMBIOS has.    *)
THEOREM TypesKept == Spec => []TypeOK
<1>1. Init => Numbers /\ Flags /\ Sets
  <2>1. 0 \in 0 .. MaxRuns
    BY TablesConstants
  <2>2. Init => Numbers
    BY <2>1 DEF Init, Numbers, Places
  <2>3. Init => Flags
    BY DEF Init, Flags
  <2>4. Init => Sets
    BY DEF Init, Dsdt!Init, Sets
  <2> QED
    BY <2>2, <2>3, <2>4
<1>2. Types /\ FixesType /\ Numbers /\ Flags /\ Sets => TypeOK
  BY DEF Types, FixesType, Numbers, Places, Flags, Sets, TypeOK
<1> QED
  BY <1>1, <1>2, InitTypes, NextTypes, InitFixesType, NextFixesType,
     NextNumbers, NextFlags, NextSets, PTL DEF Spec
=============================================================================
