-------------------------- MODULE FlashToolsProofs --------------------------
(***************************************************************************)
(* Proofs about patch_bl (PatchFile) and about readnor and patch_bl run    *)
(* one after the other (FlashTools), for every size of the input and any   *)
(* number of runs.                                                         *)
(***************************************************************************)
EXTENDS FlashTools, TLAPS

-----------------------------------------------------------------------------
(* Files *)

Sources == {"input", "patched", "other", "cut", "flash"}

Piece == [src : Sources, at : Nat, from : Nat, len : Nat]

LEMMA LengthNat ==
    ASSUME NEW file \in Seq(Piece) PROVE Length(file) \in Nat
<1>1. CASE file = <<>>
  BY <1>1 DEF Length
<1>2. CASE file # <<>>
  <2>1. Len(file) \in 1..Len(file)
    BY <1>2
  <2>2. file[Len(file)] \in Piece
    BY <2>1
  <2> QED
    BY <1>2, <2>2 DEF Length, Piece
<1> QED
  BY <1>1, <1>2

(* A write makes the file longer by what is written, and keeps it in place *)
(* when it was, and the piece comes from the offset where the file ended.  *)
LEMMA ExtendFile ==
    ASSUME NEW file \in Seq(Piece), NEW src \in Sources,
           NEW from \in Nat, NEW len \in Nat
    PROVE  /\ Extend(file, src, from, len) \in Seq(Piece)
           /\ Length(Extend(file, src, from, len)) = Length(file) + len
           /\ InPlace(file) /\ from = Length(file) =>
                  InPlace(Extend(file, src, from, len))
<1> DEFINE p   == [src |-> src, at |-> Length(file), from |-> from, len |-> len]
           new == Append(file, p)
<1>1. p \in Piece /\ p.at = Length(file) /\ p.from = from /\ p.len = len
  BY LengthNat DEF Piece
<1> HIDE DEF p
<1>2. /\ new \in Seq(Piece) /\ Len(new) = Len(file) + 1
      /\ new[Len(new)] = p /\ new # <<>>
      /\ DOMAIN new = 1..Len(file) + 1 /\ DOMAIN file = 1..Len(file)
      /\ \A i \in 1..Len(file) : new[i] = file[i]
  BY <1>1
<1>3. Length(new) = Length(file) + len
  BY <1>1, <1>2 DEF Length
<1>4. InPlace(file) /\ from = Length(file) => InPlace(new)
  <2> SUFFICES ASSUME InPlace(file), from = Length(file), NEW i \in DOMAIN new
               PROVE  new[i].from = new[i].at
    BY DEF InPlace
  <2>1. CASE i \in 1..Len(file)
    BY <1>2, <2>1 DEF InPlace
  <2>2. CASE i = Len(file) + 1
    BY <1>1, <1>2, <2>2
  <2> QED
    BY <1>2, <2>1, <2>2
<1> QED
  BY <1>2, <1>3, <1>4 DEF Extend, p

-----------------------------------------------------------------------------
(* patch_bl *)

HasOther(file) == \E i \in DOMAIN file : file[i].src = "other"

(* Between the test for the output file and its creation, a file of that   *)
(* name can only come from another program; while main writes, the file is *)
(* its own.                                                                *)
IndInv ==
    /\ (pc \in {"sleep", "patch", "open"} /\ exists) => HasOther(out)
    /\ pc \in {"head", "write", "tail"} => mine

LEMMA InitIndInv == Init => IndInv
  BY DEF Init, IndInv

LEMMA OtherPiece == HasOther(Extend(<<>>, "other", 0, 1))
<1> DEFINE p == [src |-> "other", at |-> 0, from |-> 0, len |-> 1]
<1>1. Extend(<<>>, "other", 0, 1) = <<p>>
  BY DEF Extend, Length
<1>2. 1 \in DOMAIN <<p>> /\ <<p>>[1].src = "other"
  OBVIOUS
<1> QED
  BY <1>1, <1>2 DEF HasOther

LEMMA NextIndInv == IndInv /\ [Next]_vars => IndInv'
<1> SUFFICES ASSUME IndInv, [Next]_vars PROVE IndInv'
  OBVIOUS
<1>1. CASE Start
  BY <1>1 DEF Start, IndInv, HasOther
<1>2. CASE Read \/ PatchOk
  BY <1>2 DEF Read, PatchOk, IndInv, HasOther
<1>3. CASE ReadFails \/ PatchFails \/ OpenFails \/ IoFails
  BY <1>3 DEF ReadFails, PatchFails, OpenFails, IoFails, Give, IndInv
<1>4. CASE Open
  BY <1>4 DEF Open, IndInv
<1>5. CASE CopyHead \/ WriteBuf \/ CopyTail
  <2>1. pc' \in {"off", "write", "tail"} /\ mine' = mine /\ mine
    BY <1>5 DEF CopyHead, WriteBuf, CopyTail, Give, IndInv
  <2> QED
    BY <2>1 DEF IndInv
<1>6. CASE OtherCreates
  <2>1. HasOther(out')
    BY <1>6, OtherPiece DEF OtherCreates
  <2> QED
    BY <1>6, <2>1 DEF OtherCreates, IndInv, HasOther
<1>7. CASE Delete
  BY <1>7 DEF Delete, IndInv
<1>8. CASE Over \/ UNCHANGED vars
  BY <1>8 DEF Over, vars, IndInv, HasOther
<1> QED
  BY <1>1, <1>2, <1>3, <1>4, <1>5, <1>6, <1>7, <1>8 DEF Next, Step

(* What NeverOverwrites says of one step                                   *)
Keeps ==
    (exists /\ ~ mine /\ exists' /\ \A i \in DOMAIN out : out[i].src # "other")
        => out' = out

LEMMA NextKeeps == IndInv /\ [Next]_vars => Keeps
<1> SUFFICES ASSUME IndInv, [Next]_vars,
                    exists, ~ mine, exists', ~ HasOther(out)
             PROVE  out' = out
  BY DEF Keeps, HasOther
<1>1. pc \notin {"open", "head", "write", "tail"}
  BY DEF IndInv
<1>2. CASE UNCHANGED vars
  BY <1>2 DEF vars
<1>3. CASE Start \/ Read \/ ReadFails \/ PatchOk \/ PatchFails \/ Over
  BY <1>3 DEF Start, Read, ReadFails, PatchOk, PatchFails, Over, vars
<1>4. ~ (Open \/ OpenFails \/ CopyHead \/ WriteBuf \/ CopyTail \/ IoFails)
  BY <1>1 DEF Open, OpenFails, CopyHead, WriteBuf, CopyTail, IoFails
<1>5. ~ (OtherCreates \/ Delete)
  BY DEF OtherCreates, Delete
<1> QED
  BY <1>2, <1>3, <1>4, <1>5 DEF Next, Step

(* An output file that an earlier run has left, complete or cut short, is  *)
(* never written to: neither by the O_TRUNC of open, which comes long      *)
(* after the test for the file, nor by anything behind it.                 *)
THEOREM EarlierOutputKept == Spec => NeverOverwrites
<1>1. Spec => []IndInv
  BY InitIndInv, NextIndInv, PTL DEF Spec
<1>2. [][Next]_vars /\ []IndInv => [][Keeps]_vars
  BY NextKeeps, PTL
<1>3. [][Keeps]_vars => NeverOverwrites
  BY PTL DEF Keeps, NeverOverwrites
<1> QED
  BY <1>1, <1>2, <1>3, PTL DEF Spec

-----------------------------------------------------------------------------
(* What "Patch successful" says *)

(* Exactly the patched buffer is at the offset of the FIP.                 *)
Regions(file) ==
    \A i \in DOMAIN file : file[i].src = "patched" <=> file[i].from = HEAD

LEMMA ExtendRegions ==
    ASSUME NEW file \in Seq(Piece), NEW src \in Sources,
           NEW from \in Nat, NEW len \in Nat,
           Regions(file), src = "patched" <=> from = HEAD
    PROVE  Regions(Extend(file, src, from, len))
<1> DEFINE p   == [src |-> src, at |-> Length(file), from |-> from, len |-> len]
           new == Append(file, p)
<1>1. p \in Piece /\ p.src = src /\ p.from = from
  BY LengthNat DEF Piece
<1> HIDE DEF p
<1>2. /\ DOMAIN new = 1..Len(file) + 1 /\ DOMAIN file = 1..Len(file)
      /\ new[Len(file) + 1] = p
      /\ \A i \in 1..Len(file) : new[i] = file[i]
  BY <1>1
<1>3. ASSUME NEW i \in DOMAIN new
      PROVE  new[i].src = "patched" <=> new[i].from = HEAD
  <2>1. CASE i \in 1..Len(file)
    BY <1>2, <2>1 DEF Regions
  <2>2. CASE i = Len(file) + 1
    BY <1>1, <1>2, <2>2
  <2> QED
    BY <1>2, <1>3, <2>1, <2>2
<1>4. Extend(file, src, from, len) = new
  BY DEF Extend, p
<1> QED
  BY <1>3, <1>4 DEF Regions

(* The output holds its first length bytes, each in place.                 *)
Holds(length) ==
    InPlace(out) /\ Length(out) = length /\ Regions(out)

(* What a call of main has read and written so far, and what is left when  *)
(* it returned 0, for every size of the input but the one for which the    *)
(* last sendfile fails with the -1 that main expects.                      *)
Progress ==
    /\ size \in Nat /\ out \in Seq(Piece) /\ runs \in Nat
    /\ pc # "off" => ret = 1
    /\ runs = 0 => pc = "off" /\ ret = 1
    /\ pc \in {"patch", "open", "head", "write", "tail"} =>
           n = AtMost(AtLeast0(size - HEAD), BUF)
    /\ pc = "head" => Holds(0)
    /\ pc = "write" => Holds(HEAD)
    /\ pc = "tail" => Holds(HEAD + BUF)
    /\ size # HEAD + BUF - 1 => SuccessMeansComplete

LEMMA EmptyHolds == out = <<>> => Holds(0)
  BY DEF Holds, InPlace, Length, Regions

LEMMA InitProgress == Init => Progress
  BY FileConstants DEF Init, Progress, SuccessMeansComplete

(* The last sendfile copies what is left, and main returns 0.              *)
LEMMA TailCopied ==
    ASSUME Progress, CopyTail, ret' = 0, size # HEAD + BUF - 1
    PROVE  SuccessMeansComplete'
<1> DEFINE sent == IF TailCount < 0 THEN -1 ELSE Available(TailStart, TailCount)
<1>1. /\ size \in Nat /\ out \in Seq(Piece) /\ Holds(HEAD + BUF)
      /\ n = AtMost(AtLeast0(size - HEAD), BUF)
      /\ HEAD \in Nat \ {0} /\ BUF \in Nat \ {0}
      /\ size' = size /\ n' = n
  BY FileConstants DEF Progress, CopyTail
<1>2. /\ out' = IF sent > 0 THEN Extend(out, "input", TailStart, sent) ELSE out
      /\ sent = TailCount
  BY DEF CopyTail, Give
<1>3. TailCount >= 0 /\ TailCount = size - HEAD - BUF /\ sent = size - HEAD - BUF
  BY <1>1, <1>2 DEF TailCount
<1> HIDE DEF sent
<1>4. n = BUF
  BY <1>1, <1>3 DEF AtMost, AtLeast0
<1>5. CASE sent = 0
  <2>1. out' = out /\ Length(out') = size /\ InPlace(out') /\ Regions(out')
    BY <1>1, <1>2, <1>3, <1>5 DEF Holds
  <2> QED
    BY <1>1, <1>4, <2>1 DEF SuccessMeansComplete, Regions
<1>6. CASE sent > 0
  <2>1. /\ out' = Extend(out, "input", HEAD + BUF, sent)
        /\ sent \in Nat /\ HEAD + BUF \in Nat /\ HEAD + BUF # HEAD
    BY <1>1, <1>2, <1>3, <1>6 DEF TailStart
  <2>2. InPlace(out') /\ Length(out') = HEAD + BUF + sent
    BY <1>1, <2>1, ExtendFile DEF Sources, Holds
  <2>3. Regions(out')
    BY <1>1, <2>1, ExtendRegions DEF Sources, Holds
  <2>4. Length(out') = size
    BY <1>1, <1>3, <2>2
  <2> QED
    BY <1>1, <1>4, <2>2, <2>3, <2>4 DEF SuccessMeansComplete, Regions
<1> QED
  BY <1>1, <1>3, <1>5, <1>6

LEMMA NextProgress == Progress /\ [Next]_vars => Progress'
<1> SUFFICES ASSUME Progress, [Next]_vars PROVE Progress'
  OBVIOUS
<1> USE FileConstants
<1>1. CASE Start
  BY <1>1 DEF Start, Progress, SuccessMeansComplete
<1>2. CASE Read
  BY <1>2 DEF Read, Progress, SuccessMeansComplete
<1>3. CASE PatchOk
  BY <1>3 DEF PatchOk, Progress, SuccessMeansComplete
<1>4. CASE ReadFails \/ PatchFails \/ OpenFails
  BY <1>4 DEF ReadFails, PatchFails, OpenFails, Give, Progress, SuccessMeansComplete
<1>5. CASE Open
  <2>1. Holds(0)'
    BY <1>5 DEF Open, Holds, InPlace, Length, Regions
  <2> QED
    BY <1>5, <2>1 DEF Open, Progress, SuccessMeansComplete
<1>6. CASE CopyHead
  <2> DEFINE len == Available(0, HEAD)
  <2>1. len \in Nat
    BY DEF Available, AtMost, AtLeast0, Progress
  <2>2. out \in Seq(Piece) /\ Holds(0) /\ out' = Extend(out, "input", 0, len)
    BY <1>6 DEF CopyHead, Progress
  <2> HIDE DEF len
  <2>3. out' \in Seq(Piece) /\ InPlace(out') /\ Length(out') = len
    BY <2>1, <2>2, ExtendFile DEF Sources, Holds
  <2>4. Regions(out')
    BY <2>1, <2>2, ExtendRegions DEF Sources, Holds
  <2>5. /\ (pc' = "write" /\ len = HEAD) \/ pc' = "off"
        /\ ret = 1 /\ ret' = 1 /\ UNCHANGED <<size, n, runs>> /\ pc = "head" /\ runs # 0
    BY <1>6 DEF CopyHead, Give, Progress, len
  <2>6. pc' = "write" => Holds(HEAD)'
    BY <2>3, <2>4, <2>5 DEF Holds, Regions
  <2> QED
    BY <2>3, <2>5, <2>6 DEF Progress, SuccessMeansComplete
<1>7. CASE WriteBuf
  <2>1. out \in Seq(Piece) /\ Holds(HEAD) /\ out' = Extend(out, "patched", HEAD, BUF)
    BY <1>7 DEF WriteBuf, Progress
  <2>2. out' \in Seq(Piece) /\ InPlace(out') /\ Length(out') = HEAD + BUF
    BY <2>1, ExtendFile DEF Sources, Holds
  <2>3. Regions(out')
    BY <2>1, ExtendRegions DEF Sources, Holds
  <2>4. Holds(HEAD + BUF)'
    BY <2>2, <2>3 DEF Holds, Regions
  <2> QED
    BY <1>7, <2>2, <2>4 DEF WriteBuf, Progress, SuccessMeansComplete
<1>8. CASE CopyTail
  <2> DEFINE sent == IF TailCount < 0 THEN -1 ELSE Available(TailStart, TailCount)
  <2>1. /\ out' = IF sent > 0 THEN Extend(out, "input", TailStart, sent) ELSE out
        /\ pc' = "off" /\ ret' \in {0, 1} /\ UNCHANGED <<size, runs>>
        /\ pc = "tail" /\ runs # 0
    BY <1>8 DEF CopyTail, Give, Progress
  <2>2. sent \in Int /\ TailStart \in Nat
    BY DEF Available, AtMost, AtLeast0, TailCount, TailStart, Progress
  <2> HIDE DEF sent
  <2>3. out' \in Seq(Piece)
    <3>1. CASE sent > 0
      <4>1. sent \in Nat /\ out \in Seq(Piece)
        BY <2>2, <3>1 DEF Progress
      <4> QED
        BY <2>1, <2>2, <3>1, <4>1, ExtendFile DEF Sources
    <3>2. CASE ~ (sent > 0)
      BY <2>1, <3>2 DEF Progress
    <3> QED
      BY <3>1, <3>2
  <2>4. size' # HEAD + BUF - 1 => SuccessMeansComplete'
    BY <1>8, <2>1, TailCopied DEF SuccessMeansComplete
  <2> QED
    BY <2>1, <2>3, <2>4 DEF Progress
<1>9. CASE IoFails
  <2>1. out \in Seq(Piece)
    BY DEF Progress
  <2>2. Extend(out, "cut", 0, 1) \in Seq(Piece)
    BY <2>1, ExtendFile DEF Sources
  <2>3. out' \in Seq(Piece)
    BY <1>9, <2>1, <2>2 DEF IoFails
  <2> QED
    BY <1>9, <2>3 DEF IoFails, Give, Progress, SuccessMeansComplete
<1>10. CASE OtherCreates
  <2>1. <<>> \in Seq(Piece)
    OBVIOUS
  <2>2. Extend(<<>>, "other", 0, 1) \in Seq(Piece)
    BY <2>1, ExtendFile DEF Sources
  <2>3. out' \in Seq(Piece)
    BY <1>10, <2>2 DEF OtherCreates
  <2> QED
    BY <1>10, <2>3 DEF OtherCreates, Progress, SuccessMeansComplete
<1>11. CASE Delete
  BY <1>11 DEF Delete, Progress, SuccessMeansComplete
<1>12. CASE Over \/ UNCHANGED vars
  BY <1>12 DEF Over, vars, Progress, SuccessMeansComplete, Holds, Regions
<1> QED
  BY <1>1, <1>2, <1>3, <1>4, <1>5, <1>6, <1>7, <1>8, <1>9, <1>10, <1>11, <1>12
     DEF Next, Step

(* patch_bl says "Patch successful" only when the buffer was read in full  *)
(* and the output is the input with the FIP region replaced, byte by byte  *)
(* in place, for an input of any size but one: at HEAD + BUF - 1 bytes the *)
(* count of the last sendfile is -1, which is also what its failure        *)
(* returns (run patch_file_short).                                         *)
THEOREM SuccessIsComplete ==
    Spec => [](size # HEAD + BUF - 1 => SuccessMeansComplete)
<1>1. Progress => (size # HEAD + BUF - 1 => SuccessMeansComplete)
  BY DEF Progress
<1> QED
  BY <1>1, InitProgress, NextProgress, PTL DEF Spec

-----------------------------------------------------------------------------
(* readnor and patch_bl *)

LEMMA Multiples ==
    ASSUME NEW a \in Nat, NEW b \in Nat, NEW c \in Nat \ {0},
           a % c = 0, b % c = 0, a < b
    PROVE  a + c <= b /\ (a + c) % c = 0
<1>1. PICK k \in Nat : a = k * c
  <2>1. a = c * (a \div c) + (a % c) /\ a \div c \in Nat
    OBVIOUS
  <2> QED
    BY <2>1
<1>2. PICK m \in Nat : b = m * c
  <2>1. b = c * (b \div c) + (b % c) /\ b \div c \in Nat
    OBVIOUS
  <2> QED
    BY <2>1
<1>3. k < m
  <2> SUFFICES ASSUME m <= k PROVE m * c <= k * c
    BY <1>1, <1>2
  <2> QED
    OBVIOUS
<1>4. (k + 1) * c <= m * c
  BY <1>3
<1>5. a + c = (k + 1) * c
  BY <1>1
<1>6. ((k + 1) * c) % c = 0
  OBVIOUS
<1> QED
  BY <1>2, <1>4, <1>5, <1>6

(* The dump is written chunk by chunk; unless a write was cut short it is  *)
(* the flash up to offset.                                                 *)
DumpInv ==
    /\ npc \in {"off", "loop"} /\ nruns \in Nat
    /\ dump \in Seq(Piece)
    /\ offset \in Nat /\ offset % CHUNK = 0 /\ offset <= FLASH
    /\ (npc = "loop" \/ nret = 0) /\ ~ short =>
           InPlace(dump) /\ Length(dump) = offset
    /\ npc = "loop" => nret = 1
    /\ nret = 0 => offset = FLASH
    /\ npc = "loop" \/ nret = 0 => size = Length(dump)

ToolsInv == Progress /\ IndInv /\ DumpInv

LEMMA InitTools == ToolsInit => ToolsInv
<1> SUFFICES ASSUME ToolsInit PROVE ToolsInv
  OBVIOUS
<1>1. Progress /\ IndInv
  BY InitProgress, InitIndInv DEF ToolsInit
<1>2. 0 % CHUNK = 0
  BY FlashConstants
<1>3. DumpInv
  BY FlashConstants, <1>2 DEF ToolsInit, Nor!Init, DumpInv, InPlace, Length
<1> QED
  BY <1>1, <1>3 DEF ToolsInv

LEMMA NorDumpInv ==
    ASSUME DumpInv,
           \/ Nor!CannotStart /\ size' = size
           \/ (Nor!Open \/ Nor!Step) /\ size' = Length(dump')
    PROVE  DumpInv'
<1> USE FlashConstants
<1>1. CASE Nor!CannotStart /\ size' = size
  BY <1>1 DEF Nor!CannotStart, DumpInv
<1>2. CASE Nor!Open /\ size' = Length(dump')
  <2>1. dump' = <<>> /\ InPlace(dump') /\ Length(dump') = 0 /\ dump' \in Seq(Piece)
    BY <1>2 DEF Nor!Open, InPlace, Length
  <2>2. 0 % CHUNK = 0
    OBVIOUS
  <2> QED
    BY <1>2, <2>1, <2>2 DEF Nor!Open, DumpInv
<1>3. ASSUME NEW len \in {CHUNK - 1, CHUNK}, Nor!Chunk(len), size' = Length(dump')
      PROVE  DumpInv'
  <2>1. /\ dump' = Extend(dump, "flash", offset, len)
        /\ dump \in Seq(Piece) /\ offset \in Nat /\ len \in Nat
    BY <1>3 DEF Nor!Chunk, DumpInv, Nor!Extend, Extend, Nor!Length, Length
  <2>2. /\ dump' \in Seq(Piece) /\ Length(dump') = Length(dump) + len
        /\ InPlace(dump) /\ offset = Length(dump) => InPlace(dump')
    BY <2>1, ExtendFile DEF Sources
  <2>3. offset' \in Nat /\ offset' % CHUNK = 0 /\ offset' <= FLASH
    <3>1. offset \in Nat /\ offset % CHUNK = 0 /\ offset < FLASH
      BY <1>3 DEF Nor!Chunk, Nor!More, DumpInv
    <3>2. offset + CHUNK <= FLASH /\ (offset + CHUNK) % CHUNK = 0
      BY <3>1, Multiples
    <3> QED
      BY <1>3, <3>1, <3>2 DEF Nor!Chunk
  <2>4. ~ short' => ~ short /\ len = CHUNK
    <3>1. short' = (short \/ len < CHUNK)
      BY <1>3 DEF Nor!Chunk
    <3>2. ~ (len < CHUNK) => len = CHUNK
      BY <1>3
    <3> QED
      BY <3>1, <3>2, Zenon
  <2>5. ~ short' => InPlace(dump') /\ Length(dump') = offset'
    BY <1>3, <2>2, <2>4 DEF Nor!Chunk, DumpInv
  <2> QED
    BY <1>3, <2>2, <2>3, <2>5 DEF Nor!Chunk, DumpInv
<1>4. CASE Nor!ReadFails /\ size' = Length(dump')
  BY <1>4 DEF Nor!ReadFails, DumpInv
<1>5. CASE Nor!Close /\ size' = Length(dump')
  BY <1>5 DEF Nor!Close, Nor!More, DumpInv
<1> QED
  BY <1>1, <1>2, <1>3, <1>4, <1>5 DEF Nor!Step

LEMMA NextTools == ToolsInv /\ [ToolsNext]_toolVars => ToolsInv'
<1> SUFFICES ASSUME ToolsInv, [ToolsNext]_toolVars PROVE ToolsInv'
  OBVIOUS
<1>1. CASE CannotDump \/ Dump
  <2>1. DumpInv'
    BY <1>1, NorDumpInv DEF CannotDump, Dump, ToolsInv
  <2>2. /\ UNCHANGED <<exists, mine, out, pc, n, ret, runs>>
        /\ runs = 0 /\ pc = "off" /\ ret = 1
    BY <1>1 DEF CannotDump, Dump, patchVars, ToolsInv, Progress
  <2>3. size' \in Nat
    BY <1>1, <2>1, LengthNat DEF CannotDump, Dump, DumpInv, ToolsInv, Progress
  <2>4. Progress'
    BY <2>2, <2>3 DEF ToolsInv, Progress, SuccessMeansComplete
  <2>5. IndInv'
    BY <2>2 DEF ToolsInv, IndInv
  <2> QED
    BY <2>1, <2>4, <2>5 DEF ToolsInv
<1>2. CASE Patch
  <2>1. Progress' /\ IndInv'
    BY <1>2, NextProgress, NextIndInv DEF Patch, ToolsInv
  <2>2. size' = size /\ UNCHANGED norVars
    BY <1>2 DEF Patch, Next, Step, Start, OtherCreates, Read, ReadFails, PatchOk,
                PatchFails, Open, OpenFails, CopyHead, WriteBuf, CopyTail, IoFails,
                Delete, Over, vars
  <2>3. DumpInv'
    BY <2>2 DEF DumpInv, norVars, ToolsInv
  <2> QED
    BY <2>1, <2>3 DEF ToolsInv
<1>3. CASE UNCHANGED toolVars
  <2>1. UNCHANGED vars /\ UNCHANGED norVars /\ size' = size
    BY <1>3 DEF toolVars, vars, patchVars
  <2>2. Progress' /\ IndInv'
    BY <2>1, NextProgress, NextIndInv DEF ToolsInv
  <2>3. DumpInv'
    BY <2>1 DEF DumpInv, norVars, ToolsInv
  <2> QED
    BY <2>2, <2>3 DEF ToolsInv
<1> QED
  BY <1>1, <1>2, <1>3 DEF ToolsNext

(* When readnor and patch_bl both returned 0 and no write of readnor was   *)
(* cut short, the dump is the flash and the image has its size, with every *)
(* piece where the flash had it.                                           *)
THEOREM ImageIsOfFlash == ToolsSpec => []ImageOfFlash
<1>1. ToolsInv => ImageOfFlash
  <2> SUFFICES ASSUME ToolsInv, nruns > 0, nret = 0, ~ short, exists, ret = 0
               PROVE  /\ InPlace(dump) /\ Length(dump) = FLASH
                      /\ InPlace(out) /\ Length(out) = FLASH
    BY DEF ImageOfFlash
  <2>1. InPlace(dump) /\ Length(dump) = FLASH /\ size = FLASH
    BY DEF ToolsInv, DumpInv
  <2>2. size # HEAD + BUF - 1
    BY <2>1, FlashConstants, FileConstants
  <2>3. SuccessMeansComplete
    BY <2>2 DEF ToolsInv, Progress
  <2> QED
    BY <2>1, <2>3 DEF SuccessMeansComplete
<1>2. ToolsSpec => []ToolsInv
  BY InitTools, NextTools, PTL DEF ToolsSpec
<1> QED
  BY <1>1, <1>2, PTL

(* With readnor running before it, patch_bl still keeps the output of an   *)
(* earlier run, and still reports success only for a complete image.       *)
THEOREM ToolsSafe ==
    ToolsSpec => NeverOverwrites /\ [](size # HEAD + BUF - 1 => SuccessMeansComplete)
<1>1. ToolsInv /\ [ToolsNext]_toolVars => [Keeps]_vars
  <2> SUFFICES ASSUME ToolsInv, [ToolsNext]_toolVars PROVE [Keeps]_vars
    OBVIOUS
  <2>1. CASE CannotDump \/ Dump
    BY <2>1 DEF CannotDump, Dump, patchVars, Keeps
  <2>2. CASE Patch
    BY <2>2, NextKeeps DEF Patch, ToolsInv
  <2>3. CASE UNCHANGED toolVars
    BY <2>3 DEF toolVars, patchVars, Keeps
  <2> QED
    BY <2>1, <2>2, <2>3 DEF ToolsNext
<1>2. ToolsSpec => []ToolsInv
  BY InitTools, NextTools, PTL DEF ToolsSpec
<1>3. [][ToolsNext]_toolVars /\ []ToolsInv => [][Keeps]_vars
  BY <1>1, PTL
<1>4. [][Keeps]_vars => NeverOverwrites
  BY PTL DEF Keeps, NeverOverwrites
<1>5. ToolsInv => (size # HEAD + BUF - 1 => SuccessMeansComplete)
  BY DEF ToolsInv, Progress
<1> QED
  BY <1>2, <1>3, <1>4, <1>5, PTL DEF ToolsSpec
=============================================================================
