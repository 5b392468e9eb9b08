---------------------------- MODULE DsdtContract ----------------------------
(***************************************************************************)
(* What the caller of fix_dsdt may rely on, with names, lists, uACPI and   *)
(* memory left out.  Between two starts of the machine the firmware fixes  *)
(* two sets of devices:                                                    *)
(*   unidentified   neither _HID nor _ADR, and reachable by a NameString   *)
(*   disableable    DDR controllers not known to be online                 *)
(* A call either leaves the ACPI tables alone, or adds one table in a      *)
(* single step; the table never names a device outside these sets and      *)
(* never identifies a device twice.                                        *)
(***************************************************************************)
EXTENDS Sequences, Integers

CONSTANT Device

VARIABLES
    unidentified, disableable,
    tables,     \* what the added tables do, oldest first
    busy,       \* fix_dsdt is running
    result      \* what it returned last

vars == <<unidentified, disableable, tables, busy, result>>

Table == [hid : SUBSET Device, sta : SUBSET Device]

Identified == UNION {tables[i].hid : i \in DOMAIN tables}

Init ==
    /\ unidentified \in SUBSET Device
    /\ disableable \in SUBSET Device
    /\ tables = <<>>
    /\ ~ busy
    /\ result = 0

Call ==
    /\ ~ busy
    /\ busy'
    /\ UNCHANGED <<unidentified, disableable, tables, result>>

(* Nothing to fix, or a failure: no table was touched.                     *)
ReturnUnchanged ==
    /\ busy
    /\ ~ busy'
    /\ result' \in {0, 1}
    /\ UNCHANGED <<unidentified, disableable, tables>>

ReturnFixed ==
    /\ busy
    /\ ~ busy'
    /\ result' = 0
    /\ \E t \in [hid : SUBSET (unidentified \ Identified), sta : SUBSET disableable] :
          tables' = Append(tables, t)
    /\ UNCHANGED <<unidentified, disableable>>

(* A restart, possible while fix_dsdt hangs or has crashed as well.        *)
Restart ==
    /\ ~ busy'
    /\ result' = 0
    /\ tables' = <<>>
    /\ unidentified' \in SUBSET Device
    /\ disableable' \in SUBSET Device

Next == Call \/ ReturnUnchanged \/ ReturnFixed \/ Restart

Spec == Init /\ [][Next]_vars
=============================================================================
