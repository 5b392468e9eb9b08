-------------------------------- MODULE Hob --------------------------------
(***************************************************************************)
(* hob.c: which DDR controllers (DDRCs) the firmware brought up.           *)
(*                                                                         *)
(* The firmware leaves a hand-off block (HOB) list in the UEFI             *)
(* configuration table.  One GUID HOB of it, the HiSilicon memory map,     *)
(* says for every socket, channel and DIMM slot whether the DIMM is        *)
(* enabled.  hob_get_online_ddrcs turns that into an array of register     *)
(* base addresses, 0 standing for "no online controller in this slot".     *)
(*                                                                         *)
(* Addresses are counted in units of 64 KiB (0x10000), the distance        *)
(* between the controllers of two neighbouring channels: the four socket   *)
(* bases of the code are multiples of it and TLC's integers have 32 bits.  *)
(***************************************************************************)
EXTENDS Integers, Sequences

CONSTANTS
    MAX_SOCKET,     \* sockets in the memory map      (2 in hob.h)
    MAX_CHANNEL,    \* channels of a socket           (8 in hob.h)
    MAX_DIMM        \* DIMM slots of a channel        (2 in hob.h)

(* hob.c aborts on a socket number above 3; 0x800 channels would make the  *)
(* controllers of sockets 0 and 1 overlap.                                 *)
ASSUME HobConstants ==
    /\ MAX_SOCKET \in 1 .. 4
    /\ MAX_CHANNEL \in 1 .. 2048
    /\ MAX_DIMM \in Nat \ {0}

Socket  == 0 .. MAX_SOCKET - 1
Channel == 0 .. MAX_CHANNEL - 1
Dimm    == 0 .. MAX_DIMM - 1

Slots == 0 .. MAX_SOCKET * MAX_CHANNEL - 1

(* A HOB, as far as the code tells HOBs apart: its type, the GUID of a     *)
(* GUID extension HOB, and, in a memory map, the DIMMs that are Enabled.   *)
HobBlock == [type : {"guid", "other"}, name : {"memmap", "other"},
             enabled : SUBSET (Socket \X Channel \X Dimm)]

(* What the configuration table offers: no HOB list, or the blocks of one  *)
(* up to the end marker (HobType 0xFFFF).                                  *)
HobEnv == [found : BOOLEAN, blocks : Seq(HobBlock)]

IsMemoryMap(h) == h.type = "guid" /\ h.name = "memmap"

(* The block the while loop stops at: the first memory map of the list.    *)
IsFirstMap(blocks, i) ==
    /\ IsMemoryMap(blocks[i])
    /\ \A j \in 1 .. i - 1 : ~ IsMemoryMap(blocks[j])

HasMemoryMap(env) ==
    env.found /\ \E i \in DOMAIN env.blocks : IsMemoryMap(env.blocks[i])

MemoryMap(env) ==
    LET i == CHOOSE k \in DOMAIN env.blocks : IsFirstMap(env.blocks, k)
    IN  env.blocks[i].enabled

ChannelOnline(enabled, s, c) == \E d \in Dimm : <<s, c, d>> \in enabled

\* 0x94d20000, 0x9cd20000, 0x400094d20000 and 0x40009cd20000
SocketBase(s) ==
    CASE s = 0 -> 38098
      [] s = 1 -> 40146
      [] s = 2 -> 1073779922
      [] s = 3 -> 1073781970

DdrcBase(s, c) == SocketBase(s) + c

SlotOf(s, c) == s * MAX_CHANNEL + c

Bases == {DdrcBase(s, c) : s \in Socket, c \in Channel}

NoDdrcs == [i \in Slots |-> 0]

(* The loops store base address a in slot i.                               *)
Stores(enabled, i, a) ==
    \E s \in Socket, c \in Channel :
        ChannelOnline(enabled, s, c) /\ i = SlotOf(s, c) /\ a = DdrcBase(s, c)

(* online_ddrcs_base after the two loops, as a function of the map.        *)
OnlineArray(enabled) ==
    [i \in Slots |->
        IF \E a \in Bases : Stores(enabled, i, a)
        THEN CHOOSE a \in Bases : Stores(enabled, i, a)
        ELSE 0]

(* The whole function: the array stays zeroed when there is no HOB list    *)
(* or no memory map in it (both return 1, which the caller ignores).       *)
hob_get_online_ddrcs(env) ==
    IF HasMemoryMap(env) THEN OnlineArray(MemoryMap(env)) ELSE NoDdrcs
=============================================================================
