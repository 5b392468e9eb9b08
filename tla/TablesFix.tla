----------------------------- MODULE TablesFix -----------------------------
(***************************************************************************)
(* tablesfix.c: the UEFI application.  main looks at the processor, the    *)
(* SMBIOS records and the XSDT, then removes the PCCT, adds DBG2 and SPCR, *)
(* runs fix_dsdt and, when asked to, starts the Windows boot manager.      *)
(*                                                                         *)
(* The application leaves its mark in the firmware's list of ACPI tables,  *)
(* which outlives it: it may be started again from the shell, and then     *)
(* reads the list it has changed.  fix_dsdt is represented by its          *)
(* contract, which DsdtFix implements.                                     *)
(***************************************************************************)
EXTENDS Integers, Sequences, FiniteSets, SequencesExt

CONSTANTS
    Machines,       \* the machines the application may be started on
    TableLists,     \* the ACPI tables firmware may install, in order
    Device,         \* devices fix_dsdt deals with
    SmbiosFails,    \* TRUE: GetNext may fail between two processor records
    SdtFails,       \* TRUE: GetAcpiTable may fail before the end of the list
    Uint8Values,    \* values of the uint8_t cpus (256 in the code)
    MaxScan,        \* tables uinstall_pcct looks at (256 in the code)
    MaxRuns         \* bound: starts of the application before a restart

(* A machine: what midr_el1, SMBIOS, the configuration table and           *)
(* LocateProtocol tell the application, how it is started, and which of    *)
(* the three boot manager files exist.  config lists the configuration     *)
(* table: "xsdt" stands for an ACPI entry with a usable XSDT, "unusable"   *)
(* for one with a bad signature, revision or length.                       *)
Machine == [hi1620 : BOOLEAN, smbios : BOOLEAN,
            product : {"W510", "other", "unreadable"}, procs : Nat,
            config : Seq({"xsdt", "unusable", "other"}),
            acpi_table : BOOLEAN, acpi_sdt : BOOLEAN,
            chainload : BOOLEAN, bootfiles : SUBSET (1 .. 3)]

Sig == {"PCCT", "DBG2", "SPCR", "SSDT", "FACP"}

(* A table knows where it comes from: by is its place among the tables the *)
(* firmware installed, and 0 for a table of the application.               *)
Table  == [sig : Sig, by : Nat]
Own(sig) == [sig |-> sig, by |-> 0]

ASSUME TablesConstants ==
    /\ Machines \subseteq Machine
    /\ \A list \in TableLists :
          list \in Seq(Table) /\ \A i \in DOMAIN list : list[i].by = i
    /\ SmbiosFails \in BOOLEAN /\ SdtFails \in BOOLEAN
    /\ Uint8Values \in Nat /\ Uint8Values > 1
    /\ MaxScan \in Nat /\ MaxRuns \in Nat

Stage == {"gop", "pcct", "dbg2", "spcr", "dsdt"}

VARIABLES
    m,              \* the machine
    firmware,       \* the tables the firmware installed
    tables,         \* the tables there are now
    pc,             \* "off" while the application is not running
    seen,           \* processor records SMBIOS has handed out
    cpus,           \* processors counted, in a uint8_t
    is_w510,
    has,            \* the flags has_pcct, has_dbg2 and has_spcr
    report,         \* what main printed about every stage
    image,          \* the boot manager file found, 0 for none
    unidentified, disableable, fixes, dsdt_result,  \* fix_dsdt (DsdtContract)
    miscounted,     \* history: a run since the restart did not see all CPUs
    misread,        \* history: GetAcpiTable failed in this run
    settled,        \* history: a run since the restart met no failure
    runs

dsdt   == <<unidentified, disableable, fixes, dsdt_result>>
locals == <<seen, cpus, is_w510, has>>
history == <<miscounted, misread, settled, runs>>
vars   == <<m, firmware, tables, pc, locals, report, image, dsdt,
            history>>

Dsdt == INSTANCE DsdtContract WITH
    tables <- fixes, busy <- pc = "fix_dsdt", result <- dsdt_result

Fresh == [s \in Stage |-> "none"]

Init ==
    /\ m \in Machines
    /\ firmware \in TableLists
    /\ tables = firmware
    /\ pc = "off"
    /\ seen = 0 /\ cpus = 0 /\ is_w510 = FALSE /\ has = {}
    /\ report = Fresh
    /\ image = 0
    /\ Dsdt!Init
    /\ miscounted = FALSE /\ misread = FALSE /\ settled = FALSE
    /\ runs = 0

-----------------------------------------------------------------------------
(* main is entered: the flags and the count start at zero.                 *)
Start ==
    /\ pc = "off"
    /\ runs < MaxRuns
    /\ runs' = runs + 1
    /\ pc' = "gop"
    /\ seen' = 0 /\ cpus' = 0 /\ is_w510' = FALSE /\ has' = {}
    /\ report' = Fresh
    /\ image' = 0
    /\ misread' = FALSE
    /\ UNCHANGED <<m, firmware, tables, dsdt, miscounted, settled>>

Goto(next) == pc' = next

Reported(stage, outcome) == report' = [report EXCEPT ![stage] = outcome]

(* The graphics mode: nothing that follows depends on it.                  *)
SetResolution ==
    /\ pc = "gop"
    /\ Goto("smbios")
    /\ \E o \in {"ok", "failed", "skipped"} : Reported("gop", o)
    /\ UNCHANGED <<m, firmware, tables, locals, image, dsdt, history>>

(* SMBIOS types 0 and 1: the product name decides is_w510.                 *)
ReadProduct ==
    /\ pc = "smbios"
    /\ IF m.smbios
       THEN /\ is_w510' = (m.product = "W510")
            /\ Goto("cpus")
            /\ UNCHANGED miscounted
       ELSE /\ Goto("xsdt")
            /\ miscounted' = TRUE
            /\ UNCHANGED is_w510
    /\ UNCHANGED <<m, firmware, tables, seen, cpus, has, report, image, dsdt,
                   misread, settled, runs>>

(* The loop over type 4: one more processor record, the end of the         *)
(* records (handle 0xFFFE), or an error, which ends the loop as well.      *)
CountCpu ==
    /\ pc = "cpus"
    /\ seen < m.procs
    /\ seen' = seen + 1
    /\ cpus' = (cpus + 1) % Uint8Values
    /\ UNCHANGED <<m, firmware, tables, pc, is_w510, has, report, image, dsdt,
                   history>>

CpusDone ==
    /\ pc = "cpus"
    /\ seen = m.procs
    /\ Goto("xsdt")
    /\ UNCHANGED <<m, firmware, tables, locals, report, image, dsdt,
                   history>>

CpusFail ==
    /\ pc = "cpus"
    /\ SmbiosFails
    /\ seen < m.procs
    /\ Goto("xsdt")
    /\ miscounted' = TRUE
    /\ UNCHANGED <<m, firmware, tables, locals, report, image, dsdt,
                   misread, settled, runs>>

IsW510 == m.smbios /\ m.product = "W510"

Readable == "xsdt" \in ToSet(m.config)

Signatures(list) == {list[i].sig : i \in DOMAIN list}

\* mutant: every signature sets a flag
ScanXsdtAll ==
    /\ pc = "xsdt"
    /\ Goto("pcct")
    /\ has' = IF Readable THEN Signatures(tables) ELSE {}
    /\ UNCHANGED <<m, firmware, tables, seen, cpus, is_w510, report, image, dsdt,
                   history>>

(* The configuration table is searched; every usable XSDT lists the tables *)
(* that are installed.                                                     *)
ScanXsdt ==
    /\ pc = "xsdt"
    /\ Goto("pcct")
    /\ has' = IF Readable THEN Signatures(tables) \cap {"PCCT", "DBG2", "SPCR"} ELSE {}
    /\ UNCHANGED <<m, firmware, tables, seen, cpus, is_w510, report, image, dsdt,
                   history>>

-----------------------------------------------------------------------------
\* mutant: the number of processors is not looked at
PcctSkippedAnyCpus == "PCCT" \notin has \/ ~ m.acpi_table \/ ~ m.acpi_sdt

PcctSkipped ==
    cpus > 1 \/ "PCCT" \notin has \/ ~ m.acpi_table \/ ~ m.acpi_sdt

SkipPcct ==
    /\ pc = "pcct"
    /\ PcctSkipped
    /\ Goto("dbg2")
    /\ Reported("pcct", "skipped")
    /\ UNCHANGED <<m, firmware, tables, locals, image, dsdt, history>>

\* mutant: the scan starts at the second table
FoundPcctFrom1(i) ==
    /\ i \in 2 .. MaxScan /\ i \in DOMAIN tables
    /\ tables[i].sig = "PCCT"
    /\ \A j \in 2 .. i - 1 : tables[j].sig # "PCCT"

(* GetAcpiTable(i - 1) is the table uinstall_pcct stops at.                *)
FoundPcct(i) ==
    /\ i \in 1 .. MaxScan /\ i \in DOMAIN tables
    /\ tables[i].sig = "PCCT"
    /\ \A j \in 1 .. i - 1 : tables[j].sig # "PCCT"

\* mutant: the table after the PCCT is uninstalled (a stale key)
UninstallNext ==
    /\ pc = "pcct"
    /\ ~ PcctSkipped
    /\ \E i \in DOMAIN tables :
          /\ FoundPcct(i)
          /\ tables' = IF i < Len(tables) THEN RemoveAt(tables, i + 1) ELSE RemoveAt(tables, i)
    /\ Goto("dbg2")
    /\ Reported("pcct", "ok")
    /\ UNCHANGED <<m, firmware, locals, image, dsdt, history>>

UninstallPcct ==
    /\ pc = "pcct"
    /\ ~ PcctSkipped
    /\ \E i \in DOMAIN tables : FoundPcct(i) /\ tables' = RemoveAt(tables, i)
    /\ Goto("dbg2")
    /\ Reported("pcct", "ok")
    /\ UNCHANGED <<m, firmware, locals, image, dsdt, history>>

(* UninstallAcpiTable fails.                                               *)
UninstallFails ==
    /\ pc = "pcct"
    /\ ~ PcctSkipped
    /\ \E i \in DOMAIN tables : FoundPcct(i)
    /\ Goto("dbg2")
    /\ Reported("pcct", "failed")
    /\ UNCHANGED <<m, firmware, tables, locals, image, dsdt, history>>

(* The scan ends without a PCCT: the first one lies behind MaxScan tables. *)
PcctNotFound ==
    /\ pc = "pcct"
    /\ ~ PcctSkipped
    /\ ~ \E i \in DOMAIN tables : FoundPcct(i)
    /\ Goto("dbg2")
    /\ Reported("pcct", "ok")
    /\ UNCHANGED <<m, firmware, tables, locals, image, dsdt, history>>

(* GetAcpiTable fails before the scan comes to the PCCT or to the end: the *)
(* loop takes it for the end of the list, which is reported as OK.         *)
ScanFails ==
    /\ pc = "pcct"
    /\ ~ PcctSkipped
    /\ SdtFails
    /\ misread' = TRUE
    /\ Goto("dbg2")
    /\ Reported("pcct", "ok")
    /\ UNCHANGED <<m, firmware, tables, locals, image, dsdt, miscounted, settled, runs>>

\* mutant: the tables that exist are not looked at
SerialSkippedW510(sig) == is_w510 \/ ~ m.acpi_table

SerialSkipped(sig) == sig \in has \/ is_w510 \/ ~ m.acpi_table

SkipSerial(stage, sig, next) ==
    /\ pc = stage
    /\ SerialSkipped(sig)
    /\ Goto(next)
    /\ Reported(stage, "skipped")
    /\ UNCHANGED <<m, firmware, tables, locals, image, dsdt, history>>

(* install_dbg2 and install_spcr: only a Hi1620 has the UART they name.    *)
InstallSerial(stage, sig, next) ==
    /\ pc = stage
    /\ ~ SerialSkipped(sig)
    /\ m.hi1620
    /\ tables' = Append(tables, Own(sig))
    /\ Goto(next)
    /\ Reported(stage, "ok")
    /\ UNCHANGED <<m, firmware, locals, image, dsdt, history>>

\* mutant: the return value of install_dbg2 or install_spcr is ignored
InstallSerialAlwaysOk(stage, sig, next) ==
    /\ pc = stage
    /\ ~ SerialSkipped(sig)
    /\ Goto(next)
    /\ Reported(stage, "ok")
    /\ UNCHANGED <<m, firmware, tables, locals, image, dsdt, history>>

(* Another processor, or InstallAcpiTable fails.                           *)
InstallSerialFails(stage, sig, next) ==
    /\ pc = stage
    /\ ~ SerialSkipped(sig)
    /\ Goto(next)
    /\ Reported(stage, "failed")
    /\ UNCHANGED <<m, firmware, tables, locals, image, dsdt, history>>

Serial(stage, sig, next) ==
    \/ SkipSerial(stage, sig, next)
    \/ InstallSerial(stage, sig, next)
    \/ InstallSerialFails(stage, sig, next)

-----------------------------------------------------------------------------
SkipDsdt ==
    /\ pc = "dsdt"
    /\ ~ m.acpi_table
    /\ Goto("chain")
    /\ Reported("dsdt", "skipped")
    /\ UNCHANGED <<m, firmware, tables, locals, image, dsdt, history>>

CallDsdt ==
    /\ pc = "dsdt"
    /\ m.acpi_table
    /\ Goto("fix_dsdt")
    /\ Dsdt!Call
    /\ UNCHANGED <<m, firmware, tables, locals, report, image, history>>

\* mutant: main returns when fix_dsdt has failed
DsdtReturnsOrExits ==
    /\ pc = "fix_dsdt"
    /\ \E next \in {"chain", "off"} : Goto(next)
    /\ \/ Dsdt!ReturnUnchanged /\ UNCHANGED tables
       \/ Dsdt!ReturnFixed /\ tables' = Append(tables, Own("SSDT"))
    /\ pc' = "off" <=> dsdt_result' # 0
    /\ Reported("dsdt", IF dsdt_result' = 0 THEN "ok" ELSE "failed")
    /\ UNCHANGED <<m, firmware, locals, image, history>>

DsdtReturns ==
    /\ pc = "fix_dsdt"
    /\ Goto("chain")
    /\ \/ Dsdt!ReturnUnchanged /\ UNCHANGED tables
       \/ Dsdt!ReturnFixed /\ tables' = Append(tables, Own("SSDT"))
    /\ Reported("dsdt", IF dsdt_result' = 0 THEN "ok" ELSE "failed")
    /\ UNCHANGED <<m, firmware, locals, image, history>>

-----------------------------------------------------------------------------
(* The end of main, reached with the last stage done or chainload_bootmgr  *)
(* having given up: main returns 0 in any case.                            *)
Exit ==
    /\ Goto("off")
    /\ settled' = (settled \/ (~ misread /\ \A s \in Stage : report[s] # "failed"))
    /\ UNCHANGED <<m, firmware, tables, locals, report, dsdt,
                   miscounted, misread, runs>>

(* The file chainload_bootmgr stops its search at.                         *)
FirstFile(i) == i \in m.bootfiles /\ \A j \in 1 .. i - 1 : j \notin m.bootfiles

ReturnToShell ==
    /\ pc = "chain"
    /\ ~ m.chainload
    /\ UNCHANGED image
    /\ Exit

NoBootFile ==
    /\ pc = "chain"
    /\ m.chainload
    /\ m.bootfiles = {}
    /\ UNCHANGED image
    /\ Exit

FindFile ==
    /\ pc = "chain"
    /\ m.chainload
    /\ \E i \in 1 .. 3 : FirstFile(i) /\ image' = i
    /\ Goto("load")
    /\ UNCHANGED <<m, firmware, tables, locals, report, dsdt, history>>

(* A protocol is missing, the device path cannot be built or LoadImage     *)
(* fails: nothing is loaded.                                               *)
LoadFails ==
    /\ pc = "load"
    /\ UNCHANGED image
    /\ Exit

LoadImage ==
    /\ pc = "load"
    /\ Goto("start")
    /\ UNCHANGED <<m, firmware, tables, locals, report, image, dsdt, history>>

StartImage ==
    /\ pc = "start"
    /\ Goto("booted")
    /\ UNCHANGED <<m, firmware, tables, locals, report, image, dsdt, history>>

\* mutant: the boot manager is loaded again when it returns
StartFailsReload ==
    /\ pc = "start"
    /\ Goto("chain")
    /\ UNCHANGED <<m, firmware, tables, locals, report, image, dsdt, history>>

(* StartImage fails, or the boot manager returns.                          *)
StartFails ==
    /\ pc = "start"
    /\ UNCHANGED image
    /\ Exit

(* A restart, also out of a crash of fix_dsdt: the firmware builds its     *)
(* tables anew.                                                            *)
Restart ==
    /\ pc \in {"off", "booted", "fix_dsdt"}
    /\ tables' = firmware
    /\ Goto("off")
    /\ seen' = 0 /\ cpus' = 0 /\ is_w510' = FALSE /\ has' = {}
    /\ report' = Fresh
    /\ image' = 0
    /\ fixes' = <<>> /\ dsdt_result' = 0
    /\ miscounted' = FALSE /\ misread' = FALSE /\ settled' = FALSE
    /\ runs' = 0
    /\ UNCHANGED <<m, firmware, unidentified, disableable>>

MainStep ==
    \/ SetResolution \/ ReadProduct \/ CountCpu \/ CpusDone \/ CpusFail \/ ScanXsdt
    \/ SkipPcct \/ UninstallPcct \/ UninstallFails \/ PcctNotFound
    \/ ScanFails
    \/ Serial("dbg2", "DBG2", "spcr") \/ Serial("spcr", "SPCR", "dsdt")
    \/ SkipDsdt \/ CallDsdt
    \/ ReturnToShell \/ NoBootFile \/ FindFile \/ LoadFails \/ LoadImage
    \/ StartImage \/ StartFails

Step == MainStep \/ DsdtReturns

Next == Start \/ Step \/ Restart

Spec == Init /\ [][Next]_vars

(* main is the only thread and never waits: it keeps going through its own *)
(* steps.  That fix_dsdt returns is not assumed, for it may crash, and its *)
(* contract does not promise it.  Starting and restarting are the user's.  *)
FairSpec == Spec /\ WF_vars(MainStep)

-----------------------------------------------------------------------------
(* Properties *)

(* Every variable holds a value of its type; cpus never exceeds what a     *)
(* uint8_t holds.                                                          *)
TypeOK ==
    /\ m \in Machines
    /\ firmware \in TableLists
    /\ tables \in Seq(Table)
    /\ pc \in {"off", "gop", "smbios", "cpus", "xsdt", "pcct", "dbg2", "spcr",
               "dsdt", "fix_dsdt", "chain", "load", "start", "booted"}
    /\ seen \in Nat
    /\ cpus \in 0 .. Uint8Values - 1
    /\ is_w510 \in BOOLEAN
    /\ has \subseteq {"PCCT", "DBG2", "SPCR"}
    /\ report \in [Stage -> {"none", "ok", "failed", "skipped"}]
    /\ image \in 0 .. 3
    /\ unidentified \subseteq Device /\ disableable \subseteq Device
    /\ fixes \in Seq(Dsdt!Table)
    /\ dsdt_result \in {0, 1}
    /\ miscounted \in BOOLEAN /\ misread \in BOOLEAN /\ settled \in BOOLEAN
    /\ runs \in 0 .. MaxRuns

Count(list, sig) == Cardinality({i \in DOMAIN list : list[i].sig = sig})

(* Of the firmware's tables only a PCCT is ever removed, the others are    *)
(* there, unchanged and in their order, and the application's own tables   *)
(* are never uninstalled.                                                  *)
FirmwareTablesKept ==
    /\ \A i \in DOMAIN tables : tables[i].by # 0 =>
          /\ tables[i].by \in DOMAIN firmware /\ tables[i] = firmware[tables[i].by]
          /\ \A j \in 1 .. i - 1 : tables[j].by # 0 /\ tables[j].by < tables[i].by
    /\ \A k \in DOMAIN firmware : firmware[k].sig # "PCCT" =>
          \E i \in DOMAIN tables : tables[i] = firmware[k]
    /\ Count(tables, "SSDT") = Count(firmware, "SSDT") + Len(fixes)

(* The PCCT disappears only from a machine that has one processor as a     *)
(* uint8_t counts, unless SMBIOS kept processors from main.                *)
PcctOnlyOnSingleCpu ==
    Count(tables, "PCCT") < Count(firmware, "PCCT")
        => m.procs % Uint8Values <= 1 \/ miscounted

(* Started again and again, the application never adds a second DBG2 or    *)
(* SPCR as long as an XSDT can be read.                                    *)
NoDuplicateTables ==
    Readable => \A sig \in {"DBG2", "SPCR"} :
        Count(tables, sig) <= IF Count(firmware, sig) > 1 THEN Count(firmware, sig) ELSE 1

(* main is past its stages.                                                *)
InChain == {"chain", "load", "start", "booted"}

(* What main prints is what it did: after "OK" there are a DBG2 and an     *)
(* SPCR, and fix_dsdt returned 0.                                          *)
ReportsTruthful ==
    pc \in InChain =>
        /\ report["dbg2"] = "ok" => Count(tables, "DBG2") > 0
        /\ report["spcr"] = "ok" => Count(tables, "SPCR") > 0
        /\ report["dsdt"] = "ok" => dsdt_result = 0

(* As long as every GetAcpiTable of the run succeeded and the firmware has *)
(* one PCCT, among no more tables than uinstall_pcct looks at, "OK" is     *)
(* true: the scan sees every table.                                        *)
PcctFoundWhereverItIs ==
    (/\ report["pcct"] = "ok" /\ ~ misread
     /\ Count(firmware, "PCCT") <= 1 /\ Len(firmware) <= MaxScan)
    => Count(tables, "PCCT") = 0

(* A stage that fails costs the machine its own fix and no other.  With a  *)
(* readable XSDT, main comes to its end with DBG2 and SPCR there unless it *)
(* printed FAILED for the missing one or the machine cannot have it, and   *)
(* with the PCCT of a machine with one processor gone under the like       *)
(* conditions.  And main returns to the shell only with every stage dealt  *)
(* with, and, when it was to chainload, with a boot manager file found if  *)
(* there is one.                                                           *)
FailuresStayLocal ==
    /\ (pc \in InChain /\ Readable /\ m.acpi_table) =>
        /\ (report["dbg2"] # "failed" /\ ~ IsW510) => Count(tables, "DBG2") > 0
        /\ (report["spcr"] # "failed" /\ ~ IsW510) => Count(tables, "SPCR") > 0
        /\ (/\ report["pcct"] # "failed" /\ ~ misread /\ m.acpi_sdt /\ m.procs <= 1
            /\ Count(firmware, "PCCT") <= 1 /\ Len(firmware) <= MaxScan)
               => Count(tables, "PCCT") = 0
    /\ (pc = "off" /\ runs > 0) =>
        /\ \A s \in Stage : report[s] # "none"
        /\ (m.chainload /\ m.bootfiles # {}) => image \in m.bootfiles

(* After a run without a failure, further runs leave the list of tables    *)
(* alone, whatever fails in them, but for an SSDT of fix_dsdt at its end:  *)
(* when the XSDT can be read, SMBIOS lists the processors in full or not   *)
(* at all, and the firmware has one PCCT (one is removed in every run).    *)
Converges ==
    [][(/\ settled /\ Readable /\ (m.smbios => ~ miscounted)
        /\ Count(firmware, "PCCT") <= 1 /\ pc' # "off")
        => tables' \in {tables, Append(tables, Own("SSDT"))}]_vars

(* Where main is not at work itself.                                       *)
Resting == {"off", "booted", "fix_dsdt"}

(* Outside fix_dsdt main always comes to an end, at the shell or in the    *)
(* boot manager, or to fix_dsdt, which is called once; when that returns,  *)
(* main ends as well.                                                      *)
Terminates == pc \notin Resting ~> pc \in Resting
=============================================================================
