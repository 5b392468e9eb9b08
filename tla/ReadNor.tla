------------------------------ MODULE ReadNor ------------------------------
(***************************************************************************)
(* readnor.c: reads the SPI flash through the firmware's protocol and      *)
(* writes it to a file, the dump that patch_bl works on.                   *)
(*                                                                         *)
(* fwrite may write less than it is given, and main does not look.         *)
(***************************************************************************)
EXTENDS Files

CONSTANTS
    FLASH,          \* 16 MiB
    CHUNK,          \* sizeof(buf), 4096
    MaxDumps        \* bound: runs of the program

VARIABLES
    pc,             \* "off", or where main is
    offset,
    dump,           \* the pieces of the file
    ret,            \* main's return value
    short,          \* history: a write of the current run was not complete
    runs

vars == <<pc, offset, dump, ret, short, runs>>

Init ==
    /\ pc = "off"
    /\ offset = 0
    /\ dump = <<>>
    /\ ret = 1
    /\ short = FALSE
    /\ runs = 0

(* LocateProtocol or fopen fails: the file of an earlier run is untouched. *)
CannotStart ==
    /\ pc = "off" /\ runs < MaxDumps
    /\ runs' = runs + 1
    /\ ret' = 1
    /\ short' = FALSE
    /\ UNCHANGED <<pc, offset, dump>>

(* fopen(dst, "w") cuts an older dump to nothing.                          *)
Open ==
    /\ pc = "off" /\ runs < MaxDumps
    /\ runs' = runs + 1
    /\ pc' = "loop"
    /\ offset' = 0
    /\ dump' = <<>>
    /\ ret' = 1
    /\ short' = FALSE

\* mutant: the loop runs while a whole chunk is left behind offset
MoreButLast == offset + CHUNK < FLASH

More == offset < FLASH

(* One chunk is read, and len bytes of it reach the file: a full disk, or  *)
(* an error of the file system, loses some.                                *)
Chunk(len) ==
    /\ pc = "loop" /\ More
    /\ dump' = Extend(dump, "flash", offset, len)
    /\ short' = (short \/ len < CHUNK)
    /\ offset' = offset + CHUNK
    /\ UNCHANGED <<pc, ret, runs>>

(* The firmware cannot read: what was written so far stays behind.         *)
ReadFails ==
    /\ pc = "loop" /\ More
    /\ ret' = 1
    /\ pc' = "off"
    /\ UNCHANGED <<offset, dump, short, runs>>

(* fflush and fclose, whose results are not looked at either.              *)
Close ==
    /\ pc = "loop" /\ ~ More
    /\ ret' = 0
    /\ pc' = "off"
    /\ UNCHANGED <<offset, dump, short, runs>>

Step == (\E len \in {CHUNK - 1, CHUNK} : Chunk(len)) \/ ReadFails \/ Close

Next == CannotStart \/ Open \/ Step
=============================================================================
