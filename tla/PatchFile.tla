----------------------------- MODULE PatchFile -----------------------------
(***************************************************************************)
(* patch_bl.c, main: copies a flash dump to a new file with the FIP region *)
(* [HEAD, HEAD + BUF) replaced by what patch_el3 (module PatchEl3) made of *)
(* it.  Every system call can fail, the input may be too short, and while  *)
(* main sleeps other programs may create files.                            *)
(*                                                                         *)
(* The pieces of the output (module Files) come from "input", "patched",   *)
(* "other" (another program) or "cut" (the rest of a failed write).        *)
(***************************************************************************)
EXTENDS Files

CONSTANTS
    HEAD,           \* 0xba0000: where the FIP starts
    BUF,            \* 0x100000: the size of the buffer
    Sizes,          \* sizes of the input file
    OtherWriter,    \* TRUE: another program may create the output file
    MaxRuns         \* bound: runs of the program

ASSUME FileConstants ==
    /\ HEAD \in Nat \ {0} /\ BUF \in Nat \ {0}
    /\ Sizes \subseteq Nat
    /\ OtherWriter \in BOOLEAN
    /\ MaxRuns \in Nat

VARIABLES
    size,           \* st_size of the input
    exists,         \* the output file exists
    mine,           \* history: the current run has created it
    out,            \* its pieces
    pc,
    n,              \* what read returned
    ret,            \* main's return value
    runs

vars == <<size, exists, mine, out, pc, n, ret, runs>>

AtMost(a, b) == IF a < b THEN a ELSE b
AtLeast0(a)  == IF a < 0 THEN 0 ELSE a

Init ==
    /\ size \in Sizes
    /\ exists = FALSE /\ mine = FALSE
    /\ out = <<>>
    /\ pc = "off"
    /\ n = 0
    /\ ret = 1
    /\ runs = 0

-----------------------------------------------------------------------------
\* mutant: the output file is not looked for
StartAlways ==
    /\ pc = "off"
    /\ runs < MaxRuns
    /\ runs' = runs + 1
    /\ ret' = 1
    /\ n' = 0
    /\ mine' = FALSE
    /\ pc' = "sleep"
    /\ UNCHANGED <<size, exists, out>>

(* A run starts: it ends at once when the output file is there.            *)
Start ==
    /\ pc = "off"
    /\ runs < MaxRuns
    /\ runs' = runs + 1
    /\ ret' = 1
    /\ n' = 0
    /\ mine' = FALSE
    /\ pc' = IF exists THEN "off" ELSE "sleep"
    /\ UNCHANGED <<size, exists, out>>

(* goto end                                                                *)
Give(r) == pc' = "off" /\ ret' = r

(* While main warns and sleeps, somebody else writes a file of that name.  *)
OtherCreates ==
    /\ OtherWriter
    /\ pc = "sleep"
    /\ ~ exists
    /\ exists' = TRUE
    /\ out' = Extend(<<>>, "other", 0, 1)
    /\ UNCHANGED <<size, mine, pc, n, ret, runs>>

(* open, lseek, fstat, malloc and read.  lseek accepts an offset behind    *)
(* the end of the file, and a short or empty read is not an error.         *)
Read ==
    /\ pc = "sleep"
    /\ n' = AtMost(AtLeast0(size - HEAD), BUF)
    /\ pc' = "patch"
    /\ UNCHANGED <<size, exists, mine, out, ret, runs>>

ReadFails ==
    /\ pc = "sleep"
    /\ Give(1)
    /\ UNCHANGED <<size, exists, mine, out, n, runs>>

(* patch_el3 succeeds.  What a short read left uninitialised in the buffer *)
(* is malloc's memory, so nothing is said about the size of the input.     *)
PatchOk ==
    /\ pc = "patch"
    /\ pc' = "open"
    /\ UNCHANGED <<size, exists, mine, out, n, ret, runs>>

\* mutant: a dump that cannot be patched is read and tried again
PatchFailsRetry ==
    /\ pc = "patch"
    /\ pc' = "sleep"
    /\ UNCHANGED <<size, exists, mine, out, n, ret, runs>>

PatchFails ==
    /\ pc = "patch"
    /\ Give(1)
    /\ UNCHANGED <<size, exists, mine, out, n, runs>>

(* open(O_CREAT | O_TRUNC)                                                 *)
Open ==
    /\ pc = "open"
    /\ exists' = TRUE /\ mine' = TRUE
    /\ out' = <<>>
    /\ pc' = "head"
    /\ UNCHANGED <<size, n, ret, runs>>

OpenFails ==
    /\ pc = "open"
    /\ Give(1)
    /\ UNCHANGED <<size, exists, mine, out, n, runs>>

(* sendfile copies at most what the file has behind the offset.            *)
Available(from, count) == AtMost(AtLeast0(size - from), count)

(* Copy the bytes in front of the FIP; anything short is an error.         *)
CopyHead ==
    /\ pc = "head"
    /\ out' = Extend(out, "input", 0, Available(0, HEAD))
    /\ IF Available(0, HEAD) = HEAD
       THEN pc' = "write" /\ UNCHANGED ret
       ELSE Give(1)
    /\ UNCHANGED <<size, exists, mine, n, runs>>

WriteBuf ==
    /\ pc = "write"
    /\ out' = Extend(out, "patched", HEAD, BUF)
    /\ pc' = "tail"
    /\ UNCHANGED <<size, exists, mine, n, ret, runs>>

\* mutant: a seek to 0xbc0000, as the comment says
TailStartComment == HEAD + BUF \div 8

(* 0xba0000 + 0x100000                                                     *)
TailStart == HEAD + BUF

(* The count of the last sendfile; negative when the input is too short.   *)
TailCount == size - HEAD - BUF

(* sendfile refuses a negative count with -1, and otherwise returns what   *)
(* it copied; main compares that with the count.                           *)
CopyTail ==
    /\ pc = "tail"
    /\ LET sent == IF TailCount < 0 THEN -1 ELSE Available(TailStart, TailCount)
       IN  /\ out' = IF sent > 0 THEN Extend(out, "input", TailStart, sent) ELSE out
           /\ Give(IF sent = TailCount THEN 0 ELSE 1)
    /\ UNCHANGED <<size, exists, mine, n, runs>>

(* One of the calls that write the output fails, or writes a part only.    *)
IoFails ==
    /\ pc \in {"head", "write", "tail"}
    /\ out' \in {out, Extend(out, "cut", 0, 1)}
    /\ Give(1)
    /\ UNCHANGED <<size, exists, mine, n, runs>>

(* The user deletes an output file, for instance the rest of a failed run. *)
Delete ==
    /\ pc = "off"
    /\ exists
    /\ exists' = FALSE
    /\ mine' = FALSE
    /\ out' = <<>>
    /\ UNCHANGED <<size, pc, n, ret, runs>>

(* The user is done.                                                       *)
Over == pc = "off" /\ runs = MaxRuns /\ UNCHANGED vars

Step ==
    \/ Read \/ ReadFails \/ PatchOk \/ PatchFails \/ Open \/ OpenFails
    \/ CopyHead \/ WriteBuf \/ CopyTail \/ IoFails

Next == Start \/ Step \/ OtherCreates \/ Delete \/ Over

Spec == Init /\ [][Next]_vars

-----------------------------------------------------------------------------
(* Properties *)

(* patch_bl.c:273 "Patch successful, output file %s created": the buffer   *)
(* was read in full, and the output is the input with the FIP region       *)
(* replaced in place, to the last byte.                                    *)
SuccessMeansComplete ==
    (ret = 0 /\ exists) =>
        /\ n = BUF
        /\ InPlace(out) /\ Length(out) = size
        /\ \A i \in DOMAIN out : out[i].src = "patched" <=> out[i].from = HEAD

(* patch_bl.c:200 "Output file %s already exists": what an earlier run has *)
(* left, complete or cut short, is never written to.  (A file that another *)
(* program creates while main sleeps is.)                                  *)
NeverOverwrites ==
    [][(exists /\ ~ mine /\ exists' /\ \A i \in DOMAIN out : out[i].src # "other")
        => out' = out]_vars

(* Every run comes to an end.                                              *)
Terminates == pc = "sleep" ~> pc = "off"
=============================================================================
