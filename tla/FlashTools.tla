----------------------------- MODULE FlashTools -----------------------------
(***************************************************************************)
(* The two programs a user runs one after the other: readnor (module       *)
(* ReadNor) dumps the flash, and patch_bl (module PatchFile) makes a       *)
(* patched image of the dump, or of a file from elsewhere.                 *)
(***************************************************************************)
EXTENDS PatchFile

CONSTANTS FLASH, CHUNK, MaxDumps

(* readnor's chunks of 4096 bytes tile the 16 MiB of flash, and the FIP    *)
(* region lies inside it.                                                  *)
ASSUME FlashConstants ==
    /\ FLASH \in Nat /\ CHUNK \in Nat \ {0} /\ MaxDumps \in Nat
    /\ FLASH % CHUNK = 0
    /\ FLASH >= HEAD + BUF

VARIABLES
    npc,            \* readnor's pc, ret and runs
    nret,
    nruns,
    offset,
    dump,
    short

Nor == INSTANCE ReadNor WITH pc <- npc, ret <- nret, runs <- nruns

norVars   == <<npc, nret, nruns, offset, dump, short>>
patchVars == <<exists, mine, out, pc, n, ret, runs>>
toolVars  == <<norVars, size, patchVars>>

ToolsInit == Init /\ Nor!Init

(* readnor writes patch_bl's input, before patch_bl is run.  A run that    *)
(* cannot start leaves the file the user has.                              *)
CannotDump ==
    /\ runs = 0
    /\ Nor!CannotStart
    /\ UNCHANGED <<size, patchVars>>

Dump ==
    /\ runs = 0
    /\ Nor!Open \/ Nor!Step
    /\ size' = Length(dump')
    /\ UNCHANGED patchVars

Patch ==
    /\ npc = "off"
    /\ Next
    /\ UNCHANGED norVars

ToolsNext == CannotDump \/ Dump \/ Patch

(* patch_bl keeps running; no call it makes blocks for ever.               *)
ToolsSpec ==
    /\ ToolsInit /\ [][ToolsNext]_toolVars
    /\ WF_toolVars(Step /\ npc = "off" /\ UNCHANGED norVars)

-----------------------------------------------------------------------------
(* Both programs returned 0, and no write of readnor was cut short, which  *)
(* readnor itself would not have noticed: then the image has the size of   *)
(* the flash, and every byte outside the FIP lies where the flash had it.  *)
ImageOfFlash ==
    (nruns > 0 /\ nret = 0 /\ ~ short /\ exists /\ ret = 0) =>
        /\ InPlace(dump) /\ Length(dump) = FLASH
        /\ InPlace(out) /\ Length(out) = FLASH
=============================================================================
