------------------------------ MODULE PatchEl3 ------------------------------
(***************************************************************************)
(* patch_bl.c, patch_el3: patches the BL31 image inside a firmware image   *)
(* package (FIP) so that it enables MPAM.  It finds an error message in    *)
(* BL31's text to overwrite with a small routine (the stub), and replaces  *)
(* an instruction of every init sequence by a BL to it.                    *)
(*                                                                         *)
(* The buffer is a sequence of bytes with a header of its own: the FIP     *)
(* magic and the table of contents, whose fields are numbers already.      *)
(* Offsets count from 0, as in C.                                          *)
(***************************************************************************)
EXTENDS Integers, Sequences, SequencesExt

CONSTANTS
    Dumps,          \* the buffers patch_el3 may be called with
    MaxCalls        \* bound: calls in a row on the same buffer

Byte == 0 .. 255

\* msr DAIFClr, 4;  mov x0, 0;  msr CPTR_EL3, x0
init_pattern == <<255, 68, 3, 213,  0, 0, 128, 210,  64, 17, 30, 213>>

(* The bytes of "Unhandled Interrupt Exception in EL3.\n".                 *)
stub_pattern == <<85, 110, 104, 97, 110, 100, 108, 101, 100, 32,
                  73, 110, 116, 101, 114, 114, 117, 112, 116, 32,
                  69, 120, 99, 101, 112, 116, 105, 111, 110, 32,
                  105, 110, 32, 69, 76, 51, 46, 10>>

stub_text == << 0, 0, 144, 210,   0, 60, 80, 211,   0, 165, 30, 213,
                223, 63, 3, 213,  0, 0, 128, 210,   192, 3, 95, 214>>

(* A FIP entry: is its UUID that of BL31, and where its file lies.         *)
Entry == [bl31 : BOOLEAN, offset : Nat, size : Nat]
Dump  == [magic : BOOLEAN, toc : Seq(Entry), bytes : Seq(Byte)]

(* The table of contents describes files inside the buffer that are at     *)
(* least as long as the patterns: patch_el3 itself does not check it.  The *)
(* buffer main reads has a few MiB, so that a BL reaches all of it.        *)
ASSUME DumpAssumption ==
    /\ Dumps \subseteq Dump
    /\ \A d \in Dumps : \A i \in DOMAIN d.toc :
          /\ d.toc[i].offset + d.toc[i].size <= Len(d.bytes)
          /\ d.toc[i].size >= Len(stub_pattern)
          /\ Len(d.bytes) <= 134217728   \* the reach of a BL
    /\ MaxCalls \in Nat \ {0}

VARIABLES
    dump,           \* the buffer before the first call, and its header
    before,         \* the bytes before the current call
    buf,            \* the bytes now
    pc,
    bl31,           \* index of the BL31 entry
    stub_start,     \* offset of the stub in buf
    patched,        \* the variable of this name
    ret,
    calls

vars == <<dump, before, buf, pc, bl31, stub_start, patched, ret, calls>>

-----------------------------------------------------------------------------
MatchesAt(pattern, bytes, p) ==
    \A k \in 1 .. Len(pattern) : bytes[p + k] = pattern[k]

(* search_pattern_in_buffer over [from, from + size): the offsets at which *)
(* the pattern occurs; the search returns the first.                       *)
Occurrences(pattern, bytes, from, size) ==
    {p \in from .. from + size - Len(pattern) : MatchesAt(pattern, bytes, p)}

First(offsets) == CHOOSE p \in offsets : \A q \in offsets : p <= q

Window(d, i) == [from |-> d.toc[i].offset, size |-> d.toc[i].size]

Sites(bytes, w) == Occurrences(init_pattern, bytes, w.from, w.size)
Strings(bytes, w) == Occurrences(stub_pattern, bytes, w.from, w.size)

\* mutant: aligned downwards
AlignStubDown(from, p) == from + ((p - from) \div 4) * 4

(* stub_start rounded up to 4 bytes, relative to the start of BL31.        *)
AlignStub(from, p) == from + ((p - from + 3) \div 4) * 4

(* memcpy(bytes + p, what, sizeof(what))                                   *)
Overwrite(bytes, p, what) ==
    [i \in DOMAIN bytes |->
        IF i \in p + 1 .. p + Len(what) THEN what[i - p] ELSE bytes[i]]

(* C's division rounds towards zero.                                       *)
DivC(a, b) == IF a >= 0 THEN a \div b ELSE - ((- a) \div b)

\* mutant: the offset is taken from the start of the sequence
BlOffsetFromInit(stub, init) == DivC(stub - init, 4)

(* bl_offset, in instructions, from the BL at init + 4.                    *)
BlOffset(stub, init) == DivC(stub - (init + 4), 4)

\* mutant: the immediate is shifted by 16 instead of 24 bits
BlInstrWrongShift(offset) ==
    LET imm == offset % 67108864
    IN  <<imm % 256, (imm \div 256) % 256, (imm \div 65536) % 256,
          148 + imm \div 65536>>

(* 0x94000000 | (bl_offset & 0x3FFFFFF), in little-endian bytes.           *)
BlInstr(offset) ==
    LET imm == offset % 67108864
    IN  <<imm % 256, (imm \div 256) % 256, (imm \div 65536) % 256,
          148 + imm \div 16777216>>

-----------------------------------------------------------------------------
Init ==
    /\ dump \in Dumps
    /\ before = dump.bytes
    /\ buf = dump.bytes
    /\ pc = "magic"
    /\ bl31 = 0
    /\ stub_start = 0
    /\ patched = FALSE
    /\ ret = 1
    /\ calls = 1

Fail ==
    /\ pc' = "done"
    /\ ret' = 1
    /\ UNCHANGED <<dump, before, buf, bl31, stub_start, patched, calls>>

BadMagic == pc = "magic" /\ ~ dump.magic /\ Fail

(* The entries the loop looks at, 16 at most.                              *)
TocRange(d) == {i \in DOMAIN d.toc : i <= 16}

(* The entry the loop stops at.                                            *)
FirstBl31(d, i) ==
    /\ i \in TocRange(d)
    /\ d.toc[i].bl31
    /\ \A j \in 1 .. i - 1 : ~ d.toc[j].bl31

FindBl31 ==
    /\ pc = "magic"
    /\ dump.magic
    /\ \E i \in TocRange(dump) : FirstBl31(dump, i) /\ bl31' = i
    /\ pc' = "stub"
    /\ UNCHANGED <<dump, before, buf, stub_start, patched, ret, calls>>

NoBl31 ==
    /\ pc = "magic"
    /\ dump.magic
    /\ \A i \in TocRange(dump) : ~ dump.toc[i].bl31
    /\ Fail

Bl31 == Window(dump, bl31)

FindStub ==
    /\ pc = "stub"
    /\ Strings(buf, Bl31) # {}
    /\ stub_start' = AlignStub(Bl31.from, First(Strings(buf, Bl31)))
    /\ pc' = "loop"
    /\ UNCHANGED <<dump, before, buf, bl31, patched, ret, calls>>

NoStub == pc = "stub" /\ Strings(buf, Bl31) = {} /\ Fail

\* mutant: the BL is written behind the sequence
PatchBehindSite ==
    /\ pc = "loop"
    /\ Sites(buf, Bl31) # {}
    /\ LET init == First(Sites(buf, Bl31))
       IN  buf' = Overwrite(buf, init + 12, BlInstr(BlOffset(stub_start, init)))
    /\ patched' = TRUE
    /\ UNCHANGED <<dump, before, pc, bl31, stub_start, ret, calls>>

(* One round of the while loop: the first init sequence still there gets   *)
(* its second instruction replaced.                                        *)
PatchSite ==
    /\ pc = "loop"
    /\ Sites(buf, Bl31) # {}
    /\ LET init == First(Sites(buf, Bl31))
       IN  buf' = Overwrite(buf, init + 4, BlInstr(BlOffset(stub_start, init)))
    /\ patched' = TRUE
    /\ UNCHANGED <<dump, before, pc, bl31, stub_start, ret, calls>>

(* No init sequence left.  ret becomes 1 if there was none at all, but the *)
(* code behind the loop is reached in both cases.                          *)
LoopDone ==
    /\ pc = "loop"
    /\ Sites(buf, Bl31) = {}
    /\ ret' = IF patched THEN 0 ELSE 1
    /\ pc' = "copy"
    /\ UNCHANGED <<dump, before, buf, bl31, stub_start, patched, calls>>

\* mutant: without the last assignment to ret
CopyStubKeepRet ==
    /\ pc = "copy"
    /\ buf' = Overwrite(buf, stub_start, stub_text)
    /\ pc' = "done"
    /\ UNCHANGED <<dump, before, bl31, stub_start, patched, ret, calls>>

\* mutant: the stub is not copied
CopyStubDropped ==
    /\ pc = "copy"
    /\ ret' = 0
    /\ pc' = "done"
    /\ UNCHANGED <<dump, before, buf, bl31, stub_start, patched, calls>>

(* The stub is copied and ret is set to 0, whatever it was.                *)
CopyStub ==
    /\ pc = "copy"
    /\ buf' = Overwrite(buf, stub_start, stub_text)
    /\ ret' = 0
    /\ pc' = "done"
    /\ UNCHANGED <<dump, before, bl31, stub_start, patched, calls>>

(* patch_el3 is called again on what it left behind: a dump that has been  *)
(* patched before.                                                         *)
CallAgain ==
    /\ pc = "done"
    /\ calls < MaxCalls
    /\ calls' = calls + 1
    /\ before' = buf
    /\ pc' = "magic"
    /\ bl31' = 0
    /\ stub_start' = 0
    /\ patched' = FALSE
    /\ ret' = 1
    /\ UNCHANGED <<dump, buf>>

(* The program has ended.                                                  *)
Over == pc = "done" /\ calls = MaxCalls /\ UNCHANGED vars

Step ==
    \/ BadMagic \/ FindBl31 \/ NoBl31
    \/ FindStub \/ NoStub
    \/ PatchSite \/ LoopDone \/ CopyStub

Next == Step \/ CallAgain \/ Over

Spec == Init /\ [][Next]_vars

(* A single-threaded computation that waits for nothing.                   *)
FairSpec == Spec /\ WF_vars(Step)

-----------------------------------------------------------------------------
(* Properties *)

(* Every variable holds a value of its type; the patched instructions are  *)
(* bytes, whatever the sign of the branch offset.                          *)
TypeOK ==
    /\ dump \in Dumps
    /\ before \in Seq(Byte) /\ Len(before) = Len(dump.bytes)
    /\ buf \in Seq(Byte) /\ Len(buf) = Len(dump.bytes)
    /\ pc \in {"magic", "stub", "loop", "copy", "done"}
    /\ bl31 \in 0 .. 16
    /\ stub_start \in 0 .. Len(dump.bytes)
    /\ patched \in BOOLEAN
    /\ ret \in {0, 1}
    /\ calls \in 1 .. MaxCalls

(* What the processor does with the four bytes at p: a BL goes to p plus   *)
(* four times its signed 26-bit immediate.                                 *)
IsBl(bytes, p) == bytes[p + 4] \in 148 .. 151

BlTarget(bytes, p) ==
    LET imm == bytes[p + 1] + 256 * bytes[p + 2] + 65536 * bytes[p + 3]
                  + 16777216 * (bytes[p + 4] - 148)
    IN  p + 4 * (IF imm >= 33554432 THEN imm - 67108864 ELSE imm)

Aligned(p) == (p - Bl31.from) % 4 = 0

(* When patch_el3 has patched anything, every init sequence of BL31 that   *)
(* lies on an instruction boundary calls the stub, the stub is there in    *)
(* full, and no init sequence is left.                                     *)
EverySiteCallsStub ==
    (pc = "done" /\ ret = 0 /\ patched) =>
        /\ Sites(buf, Bl31) = {}
        /\ MatchesAt(stub_text, buf, stub_start)
        /\ \A p \in Sites(before, Bl31) :
              Aligned(p) => IsBl(buf, p + 4) /\ BlTarget(buf, p + 4) = stub_start

(* A call changes nothing but the second instruction of init sequences and *)
(* bytes of the message that gives up its place: neither the stub nor a BL *)
(* damages neighbouring code, and everything outside BL31 stays.           *)
OnlyIntendedBytes ==
    \A i \in DOMAIN buf : buf[i] # before[i] =>
        \/ \E p \in Sites(before, Bl31) : i - 1 \in p + 4 .. p + 7
        \/ \E p \in Strings(before, Bl31) : i - 1 \in p .. p + 37

(* A call that reports failure has not touched the buffer.                 *)
FailureChangesNothing == (pc = "done" /\ ret = 1) => buf = before

(* The message occurs at most once in the BL31 of a dump.                  *)
OneMessage(d) ==
    \A i \in TocRange(d) :
        FirstBl31(d, i) => \A p, q \in Strings(d.bytes, Window(d, i)) : p = q

(* A dump with one copy of the message is patched once: every further call *)
(* is refused and changes nothing.                                         *)
SecondCallRefused ==
    (pc = "done" /\ calls > 1 /\ OneMessage(dump)) => ret = 1 /\ buf = before

(* The inductive invariant behind the first three of these.  While the     *)
(* loop runs, a changed byte belongs to a BL in an init sequence of the    *)
(* original, whose first byte is still there: because no byte of the init  *)
(* pattern looks like the last byte of a BL, the loop can then never take  *)
(* for an init sequence what was not one before.                           *)
ChangesAreBls ==
    \A i \in DOMAIN buf : buf[i] # before[i] =>
        \E p \in Sites(before, Bl31) :
            i - 1 \in p + 4 .. p + 7 /\ IsBl(buf, p + 4) /\ buf[p + 1] = 255

SitesHandled ==
    \A p \in Sites(before, Bl31) :
        \/ MatchesAt(init_pattern, buf, p)
        \/ MatchesAt(BlInstr(BlOffset(stub_start, p)), buf, p + 4)

StubInMessage ==
    \E p \in Strings(before, Bl31) :
        stub_start \in p .. p + 3 /\ Aligned(stub_start)

IndInv ==
    /\ TypeOK
    /\ pc \in {"stub", "loop", "copy"} => bl31 \in DOMAIN dump.toc
    /\ pc \in {"magic", "stub"} => buf = before
    /\ pc \in {"loop", "copy"} => StubInMessage /\ ChangesAreBls /\ SitesHandled
    /\ pc = "copy" => Sites(buf, Bl31) = {}
    /\ pc = "done" =>
          IF ret = 1 THEN buf = before
          ELSE /\ OnlyIntendedBytes
               /\ Sites(buf, Bl31) = {}
               /\ MatchesAt(stub_text, buf, stub_start)
               /\ \A p \in Sites(before, Bl31) :
                     Aligned(p) => IsBl(buf, p + 4) /\ BlTarget(buf, p + 4) = stub_start

(* What SecondCallRefused needs: once a call has ended, bytes are left that *)
(* every further call refuses, because the only copy of the message is     *)
(* overwritten and neither a BL nor the stub spells it anew.               *)
Refusable(bytes) ==
    \A i \in TocRange(dump) :
        dump.magic /\ FirstBl31(dump, i) => Strings(bytes, Window(dump, i)) = {}

RefusedAgain ==
    OneMessage(dump) =>
        /\ calls = 1 => before = dump.bytes
        /\ pc \in {"stub", "loop", "copy"} => dump.magic /\ FirstBl31(dump, bl31)
        /\ calls > 1 => /\ Refusable(before)
                        /\ pc \notin {"loop", "copy"}
                        /\ pc = "done" => ret = 1
        /\ pc = "done" => Refusable(buf)

(* patch_bl.c:154 reports "Init pattern not found in BL31 image" and sets  *)
(* ret to 1: a call that patched no init sequence does not report success. *)
SuccessMeansPatched == (pc = "done" /\ ret = 0) => patched

(* The search for init sequences comes to an end.                          *)
Terminates == pc = "magic" ~> pc = "done"
=============================================================================
