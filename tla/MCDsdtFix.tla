----------------------------- MODULE MCDsdtFix -----------------------------
(***************************************************************************)
(* Instances of DsdtFix for TLC.  Two sockets with two channels and two    *)
(* DIMM slots each; a namespace of four devices:                           *)
(*   rtc    \_SB.RTC0         a device that may lack _HID and _ADR         *)
(*   drc0   \_SB.DRC0         a DDR controller (dual name)                 *)
(*   drc1   \_SB.SOC1.DRC1    a DDR controller (multi name)                *)
(*   deep   a descendant of drc0, 258 segments deep: its path cut to       *)
(*          (uint8_t)258 = 2 segments is drc0's                            *)
(***************************************************************************)
EXTENDS DsdtFix

CONSTANTS Kinds0, Kinds1    \* what drc0 and drc1 may be

MCDevice == {"rtc", "drc0", "drc1", "deep"}

MCPath ==
    [rtc  |-> <<"_SB", "RTC0">>,
     drc0 |-> <<"_SB", "DRC0">>,
     drc1 |-> <<"_SB", "SOC1", "DRC1">>,
     deep |-> <<"_SB", "DRC0">> \o [i \in 1 .. 256 |-> "SUB_"]]

Plain(hid, adr) ==
    [hid |-> hid, adr |-> adr, sta |-> "absent", crs |-> "error", addr |-> 0]

Ddrc(sta, crs, s, c) ==
    [hid |-> "HISI0233", adr |-> FALSE, sta |-> sta, crs |-> crs, addr |-> DdrcBase(s, c)]

KindsOf(names) ==
    LET all == [plain   |-> Plain("none", TRUE),
                bare    |-> Plain("none", FALSE),
                at00    |-> Ddrc("absent", "ok", 0, 0),
                at01    |-> Ddrc("absent", "ok", 0, 1),
                at11    |-> Ddrc("absent", "ok", 1, 1),
                zero    |-> Ddrc("zero", "ok", 0, 0),
                nonzero |-> Ddrc("nonzero", "ok", 0, 0),
                staerr  |-> Ddrc("error", "ok", 0, 0),
                crserr  |-> Ddrc("absent", "error", 0, 0),
                noaddr  |-> Ddrc("absent", "noaddr", 0, 0)]
    IN  {all[n] : n \in names}

(* rtc and deep take two of their four combinations: a device that needs a *)
(* _HID next to a controller too deep to be named, and the reverse.        *)
MCNamespaces ==
    {[rtc |-> k[1][1], drc0 |-> k[2], drc1 |-> k[3], deep |-> k[1][2]] :
        k \in {<<Plain("none", FALSE), Ddrc("absent", "ok", 1, 0)>>,
               <<Plain("other", FALSE), Plain("none", FALSE)>>}
              \X KindsOf(Kinds0) \X KindsOf(Kinds1)}

NoMap   == [type |-> "guid", name |-> "other", enabled |-> {}]
NotGuid == [type |-> "other", name |-> "memmap", enabled |-> {<<1, 1, 0>>}]
Map(en) == [type |-> "guid", name |-> "memmap", enabled |-> en]

(* No HOB list; a list without the map; the map behind another HOB, with a *)
(* DIMM in the second slot of a channel only; and two maps, of which the   *)
(* first counts.                                                           *)
MCHobEnvs ==
    {[found |-> FALSE, blocks |-> <<>>],
     [found |-> TRUE,  blocks |-> <<NoMap>>],
     [found |-> TRUE,  blocks |-> <<NotGuid, Map({<<0, 0, 1>>})>>],
     [found |-> TRUE,  blocks |-> <<Map({<<0, 1, 0>>, <<1, 1, 1>>}), Map({<<0, 0, 0>>})>>]}
=============================================================================
