--------------------------- MODULE PatchEl3Proofs ---------------------------
(***************************************************************************)
(* Proofs about PatchEl3, for every set of buffers: what a BL encodes,     *)
(* what a search may find in a patched buffer, and the three properties of *)
(* a call of patch_el3.                                                    *)
(***************************************************************************)
EXTENDS PatchEl3, WellFoundedInduction, TLAPS

-----------------------------------------------------------------------------
(* The BL instruction *)

(* An encoded BL is four bytes, the last one with the BL opcode.           *)
LEMMA BlBytes ==
    ASSUME NEW o \in Int
    PROVE  /\ BlInstr(o) \in Seq(Byte)
           /\ Len(BlInstr(o)) = 4
           /\ BlInstr(o)[4] \in 148 .. 151
<1> DEFINE imm == o % 67108864
<1>1. imm \in Int /\ 0 <= imm /\ imm < 67108864
  BY SMT
<1> HIDE DEF imm
<1>2. /\ imm % 256 \in 0 .. 255
      /\ (imm \div 256) % 256 \in 0 .. 255
      /\ (imm \div 65536) % 256 \in 0 .. 255
      /\ 148 + imm \div 16777216 \in 148 .. 151
  BY <1>1, SMT
<1>3. /\ imm % 256 \in Byte
      /\ (imm \div 256) % 256 \in Byte
      /\ (imm \div 65536) % 256 \in Byte
      /\ 148 + imm \div 16777216 \in Byte
  BY <1>2, SMT DEF Byte
<1>4. BlInstr(o) = <<imm % 256, (imm \div 256) % 256, (imm \div 65536) % 256,
                     148 + imm \div 16777216>>
  BY SMT DEF BlInstr, imm
<1>5. \A a, b, c, d \in Byte : <<a, b, c, d>> \in Seq(Byte)
  BY SMT
<1>6. \A a, b, c, d : Len(<<a, b, c, d>>) = 4 /\ <<a, b, c, d>>[4] = d
  BY SMT
<1>7. BlInstr(o) \in Seq(Byte)
  BY <1>3, <1>4, <1>5, SMT
<1>8. Len(BlInstr(o)) = 4 /\ BlInstr(o)[4] = 148 + imm \div 16777216
  BY <1>4, <1>6, SMT
<1> QED
  BY <1>2, <1>7, <1>8, SMT

(* The four bytes encode the low 26 bits of the offset.                    *)
LEMMA BlImmediate ==
    ASSUME NEW o \in Int
    PROVE  BlInstr(o)[1] + 256 * BlInstr(o)[2] + 65536 * BlInstr(o)[3]
              + 16777216 * (BlInstr(o)[4] - 148) = o % 67108864
<1> DEFINE imm == o % 67108864
<1>1. imm \in Int /\ 0 <= imm /\ imm < 67108864
  BY SMT
<1>2. BlInstr(o) = <<imm % 256, (imm \div 256) % 256, (imm \div 65536) % 256,
                     148 + imm \div 16777216>>
  BY SMT DEF BlInstr
<1> HIDE DEF imm
<1>3. \A a, b, c, d : /\ <<a, b, c, d>>[1] = a
                      /\ <<a, b, c, d>>[2] = b
                      /\ <<a, b, c, d>>[3] = c
                      /\ <<a, b, c, d>>[4] = d
  BY SMT
<1>4. (imm % 256) + 256 * ((imm \div 256) % 256) + 65536 * ((imm \div 65536) % 256)
        + 16777216 * ((148 + imm \div 16777216) - 148) = imm
  <2>1. \A n \in Nat : n = 256 * (n \div 256) + (n % 256)
    BY SMT
  <2>2. imm \div 65536 = (imm \div 256) \div 256
    BY <1>1, SMT
  <2>3. imm \div 16777216 = (imm \div 65536) \div 256
    BY <1>1, SMT
  <2>4. imm \in Nat /\ imm \div 256 \in Nat /\ imm \div 65536 \in Nat
        /\ imm \div 16777216 \in Nat
    BY <1>1, SMT
  <2>5. /\ imm = 256 * (imm \div 256) + (imm % 256)
        /\ imm \div 256 = 256 * (imm \div 65536) + ((imm \div 256) % 256)
        /\ imm \div 65536 = 256 * (imm \div 16777216) + ((imm \div 65536) % 256)
    BY <2>1, <2>2, <2>3, <2>4, SMT
  <2>6. \A a, b, c, x, y, z \in Int :
           (imm = 256 * a + x /\ a = 256 * b + y /\ b = 256 * c + z) =>
               x + 256 * y + 65536 * z + 16777216 * ((148 + c) - 148) = imm
    BY <2>4, SMT
  <2>7. imm % 256 \in Int /\ (imm \div 256) % 256 \in Int /\ (imm \div 65536) % 256 \in Int
    BY <1>1, SMT
  <2> QED
    BY <2>4, <2>5, <2>6, <2>7, SMT
<1> QED
  BY <1>2, <1>3, <1>4, SMT DEF imm

(* A BL written at p decodes to where it was meant to go, forwards or      *)
(* backwards.                                                              *)
LEMMA BlRoundTrip ==
    ASSUME NEW bytes, NEW p \in Nat, NEW stub \in Nat,
           p <= 134217724, stub <= 134217728,
           (stub - (p + 4)) % 4 = 0,
           MatchesAt(BlInstr(BlOffset(stub, p)), bytes, p + 4)
    PROVE  IsBl(bytes, p + 4) /\ BlTarget(bytes, p + 4) = stub
<1> DEFINE o == BlOffset(stub, p)
<1>1. o \in Int /\ -33554432 <= o /\ o < 33554432 /\ 4 * o = stub - (p + 4)
  <2>1. CASE stub - (p + 4) >= 0
    BY <2>1, SMT DEF BlOffset, DivC
  <2>2. CASE stub - (p + 4) < 0
    <3>1. \A n \in Int : n % 4 = 0 => (- n) % 4 = 0
      BY SMT
    <3>2. \A n \in Int : n % 4 = 0 => 4 * (n \div 4) = n
      BY SMT
    <3> QED
      BY <2>2, <3>1, <3>2, SMT DEF BlOffset, DivC
  <2> QED
    BY <2>1, <2>2, SMT
<1>2. o \in Int
  BY <1>1, SMT
<1> HIDE DEF o
<1>3. Len(BlInstr(o)) = 4 /\ BlInstr(o)[4] \in 148 .. 151
  BY <1>2, BlBytes, SMT
<1>4. /\ bytes[(p + 4) + 1] = BlInstr(o)[1]
      /\ bytes[(p + 4) + 2] = BlInstr(o)[2]
      /\ bytes[(p + 4) + 3] = BlInstr(o)[3]
      /\ bytes[(p + 4) + 4] = BlInstr(o)[4]
  <2>1. MatchesAt(BlInstr(o), bytes, p + 4)
    BY SMT DEF o
  <2>2. 1 \in 1 .. 4 /\ 2 \in 1 .. 4 /\ 3 \in 1 .. 4 /\ 4 \in 1 .. 4
    BY SMT
  <2> QED
    BY <1>3, <2>1, <2>2, SMT DEF MatchesAt
<1>5. IsBl(bytes, p + 4)
  BY <1>3, <1>4, SMT DEF IsBl
<1> DEFINE imm == o % 67108864
<1>6. BlTarget(bytes, p + 4)
        = (p + 4) + 4 * (IF imm >= 33554432 THEN imm - 67108864 ELSE imm)
  BY <1>2, <1>4, BlImmediate, SMT DEF BlTarget
<1>7. (IF imm >= 33554432 THEN imm - 67108864 ELSE imm) = o
  BY <1>1, SMT
<1> QED
  BY <1>1, <1>2, <1>5, <1>6, <1>7, SMT

-----------------------------------------------------------------------------
(* Init sequences *)

(* What the proofs use of init_pattern: its first byte occurs only once    *)
(* and no byte looks like the last byte of a BL.                           *)
LEMMA PatternBytes ==
    /\ init_pattern = <<255, 68, 3, 213, 0, 0, 128, 210, 64, 17, 30, 213>>
    /\ Len(init_pattern) = 12
    /\ init_pattern[1] = 255
    /\ \A k \in 2 .. 12 : init_pattern[k] # 255
    /\ \A k \in 1 .. 12 : init_pattern[k] \notin 148 .. 151
<1>1. init_pattern = <<255, 68, 3, 213, 0, 0, 128, 210, 64, 17, 30, 213>>
  BY DEF init_pattern
<1>2. Len(init_pattern) = 12
  BY <1>1
<1>3. /\ init_pattern[1] = 255 /\ init_pattern[2] = 68   /\ init_pattern[3] = 3
      /\ init_pattern[4] = 213 /\ init_pattern[5] = 0    /\ init_pattern[6] = 0
      /\ init_pattern[7] = 128 /\ init_pattern[8] = 210  /\ init_pattern[9] = 64
      /\ init_pattern[10] = 17 /\ init_pattern[11] = 30  /\ init_pattern[12] = 213
  BY <1>1
<1>4. \A k \in 1 .. 12 : k = 1 \/ k = 2 \/ k = 3 \/ k = 4 \/ k = 5 \/ k = 6 \/ k = 7
                          \/ k = 8 \/ k = 9 \/ k = 10 \/ k = 11 \/ k = 12
  OBVIOUS
<1>5. \A k \in 1 .. 12 : init_pattern[k] \notin 148 .. 151
  BY <1>3, <1>4
<1>6. \A k \in 2 .. 12 : init_pattern[k] # 255
  <2>1. \A k \in 2 .. 12 : k \in 1 .. 12 /\ k # 1
    OBVIOUS
  <2> QED
    BY <1>3, <1>4, <2>1
<1> QED
  BY <1>1, <1>2, <1>3, <1>5, <1>6

(* A match of init_pattern, byte by byte.                                  *)
LEMMA MatchInit ==
    ASSUME NEW bytes, NEW p \in Int
    PROVE  MatchesAt(init_pattern, bytes, p) <=>
              \A k \in 1 .. 12 : bytes[p + k] = init_pattern[k]
  BY PatternBytes DEF MatchesAt

(* Two init sequences do not overlap.                                      *)
LEMMA SitesApart ==
    ASSUME NEW bytes, NEW p \in Int, NEW q \in Int,
           MatchesAt(init_pattern, bytes, p), MatchesAt(init_pattern, bytes, q),
           p < q
    PROVE  q >= p + 12
<1> SUFFICES ASSUME q < p + 12 PROVE FALSE
  OBVIOUS
<1>1. (q + 1) - p \in 2 .. 12 /\ p + ((q + 1) - p) = q + 1
  OBVIOUS
<1>2. bytes[q + 1] = 255
  <2>1. 1 \in 1 .. 12
    OBVIOUS
  <2> QED
    BY <2>1, MatchInit, PatternBytes
<1>3. bytes[q + 1] = init_pattern[(q + 1) - p]
  <2>1. (q + 1) - p \in 1 .. 12
    BY <1>1
  <2>2. bytes[p + ((q + 1) - p)] = init_pattern[(q + 1) - p]
    BY <2>1, MatchInit
  <2> QED
    BY <1>1, <2>2
<1>4. init_pattern[(q + 1) - p] # 255
  BY <1>1, PatternBytes
<1> QED
  BY <1>2, <1>3, <1>4

(* An init sequence that the loop finds at q contains no byte of a BL it   *)
(* has written at p + 4, p the place of an original init sequence.         *)
LEMMA NoBlInSite ==
    ASSUME NEW bytes, NEW p \in Int, NEW q \in Int, NEW j \in Int,
           MatchesAt(init_pattern, bytes, q),
           j \in q .. q + 11, j \in p + 4 .. p + 7,
           IsBl(bytes, p + 4), bytes[p + 1] = 255
    PROVE  FALSE
<1>1. bytes[p + 8] \in 148 .. 151
  <2>1. (p + 4) + 4 = p + 8
    OBVIOUS
  <2> QED
    BY <2>1 DEF IsBl
<1>2. CASE p + 7 <= q + 11
  <2>1. (p + 8) - q \in 1 .. 12 /\ q + ((p + 8) - q) = p + 8
    BY <1>2
  <2>2. bytes[q + ((p + 8) - q)] = init_pattern[(p + 8) - q]
    BY <2>1, MatchInit
  <2>3. bytes[p + 8] = init_pattern[(p + 8) - q]
    BY <2>1, <2>2
  <2>4. init_pattern[(p + 8) - q] \notin 148 .. 151
    BY <2>1, PatternBytes
  <2> QED
    BY <1>1, <2>3, <2>4
<1>3. CASE p + 7 > q + 11
  <2>1. /\ (p + 1) - q \in 2 .. 12 /\ (p + 1) - q \in 1 .. 12
        /\ q + ((p + 1) - q) = p + 1
    BY <1>3
  <2>2. bytes[q + ((p + 1) - q)] = init_pattern[(p + 1) - q]
    BY <2>1, MatchInit
  <2>3. bytes[p + 1] = init_pattern[(p + 1) - q]
    BY <2>1, <2>2
  <2>4. init_pattern[(p + 1) - q] # 255
    BY <2>1, PatternBytes
  <2> QED
    BY <2>3, <2>4
<1> QED
  BY <1>2, <1>3

(* The stub has no first byte of an init sequence, and no init sequence    *)
(* ends in its first bytes.                                                *)
LEMMA StubBytes ==
    /\ stub_text \in Seq(Byte)
    /\ Len(stub_text) = 24
    /\ \A k \in 1 .. 24 : stub_text[k] # 255
    /\ \A k \in 1 .. 24 : stub_text[k] \in {0, 144, 210, 60, 80, 211, 165, 30, 213, 223,
                                        63, 3, 128, 192, 95, 214}
    /\ stub_text[1] = 0 /\ stub_text[2] = 0 /\ stub_text[3] = 144
<1>1. stub_text = << 0, 0, 144, 210,   0, 60, 80, 211,   0, 165, 30, 213,
                     223, 63, 3, 213,  0, 0, 128, 210,   192, 3, 95, 214>>
  BY DEF stub_text
<1>2. Len(stub_text) = 24 /\ DOMAIN stub_text = 1 .. 24
  BY <1>1
<1>3. /\ stub_text[1] = 0    /\ stub_text[2] = 0   /\ stub_text[3] = 144  /\ stub_text[4] = 210
      /\ stub_text[5] = 0    /\ stub_text[6] = 60  /\ stub_text[7] = 80   /\ stub_text[8] = 211
      /\ stub_text[9] = 0    /\ stub_text[10] = 165 /\ stub_text[11] = 30 /\ stub_text[12] = 213
      /\ stub_text[13] = 223 /\ stub_text[14] = 63 /\ stub_text[15] = 3   /\ stub_text[16] = 213
      /\ stub_text[17] = 0   /\ stub_text[18] = 0  /\ stub_text[19] = 128 /\ stub_text[20] = 210
      /\ stub_text[21] = 192 /\ stub_text[22] = 3  /\ stub_text[23] = 95  /\ stub_text[24] = 214
  BY <1>1
<1>4. \A k \in 1 .. 24 :
         \/ k = 1 \/ k = 2 \/ k = 3 \/ k = 4 \/ k = 5 \/ k = 6 \/ k = 7 \/ k = 8
         \/ k = 9 \/ k = 10 \/ k = 11 \/ k = 12 \/ k = 13 \/ k = 14 \/ k = 15 \/ k = 16
         \/ k = 17 \/ k = 18 \/ k = 19 \/ k = 20 \/ k = 21 \/ k = 22 \/ k = 23 \/ k = 24
  OBVIOUS
<1>5. \A k \in 1 .. 24 : stub_text[k] \in 0 .. 255
  BY <1>3, <1>4
<1>6. stub_text \in Seq(Byte)
  <2>1. \A k \in 1 .. 24 : stub_text[k] \in Byte
    BY <1>5 DEF Byte
  <2>2. stub_text \in Seq({stub_text[k] : k \in 1 .. 24})
    BY <1>1, <1>2
  <2> QED
    BY <1>1, <2>1, <2>2
<1>7. \A k \in 1 .. 24 : stub_text[k] # 255
  BY <1>3, <1>4
<1>8. stub_text[1] = 0 /\ stub_text[2] = 0 /\ stub_text[3] = 144
  BY <1>3
<1>9. Len(stub_text) = 24
  BY <1>2
<1>10. \A k \in 1 .. 24 : stub_text[k] \in {0, 144, 210, 60, 80, 211, 165, 30, 213, 223,
                                         63, 3, 128, 192, 95, 214}
  BY <1>3, <1>4
<1> HIDE DEF stub_text
<1> QED
  BY <1>6, <1>7, <1>8, <1>9, <1>10, SMTT(30)

(* The stub in the form in which a copy of it is recognised.               *)
LEMMA StubMatch ==
    ASSUME NEW bytes, NEW p, \A k \in 1 .. 24 : bytes[p + k] = stub_text[k]
    PROVE  MatchesAt(stub_text, bytes, p)
<1>1. Len(stub_text) = 24
  BY StubBytes
<1> QED
  BY <1>1, SMTT(30) DEF MatchesAt

(* Bytes that agree with an init sequence are one.                         *)
LEMMA InitTransfer ==
    ASSUME NEW a, NEW b, NEW p, MatchesAt(init_pattern, a, p),
           \A k \in 1 .. 12 : b[p + k] = a[p + k]
    PROVE  MatchesAt(init_pattern, b, p)
<1>1. Len(init_pattern) = 12
  BY PatternBytes
<1> QED
  BY <1>1, SMTT(30) DEF MatchesAt

(* The characters of the message.                                          *)
MessageByte == (97 .. 120) \cup {10, 32, 46, 51, 69, 73, 76, 85}

(* The message has no byte in common with an init sequence or the stub.    *)
LEMMA MessageBytes ==
    /\ Len(stub_pattern) = 38
    /\ \A k \in 1 .. 38 : stub_pattern[k] \in MessageByte
    /\ \A k \in 1 .. 12 : init_pattern[k] \notin MessageByte
    /\ \A k \in 1 .. 24 : stub_text[k] \notin MessageByte
<1>1. stub_pattern = <<85, 110, 104, 97, 110, 100, 108, 101, 100, 32,
                       73, 110, 116, 101, 114, 114, 117, 112, 116, 32,
                       69, 120, 99, 101, 112, 116, 105, 111, 110, 32,
                       105, 110, 32, 69, 76, 51, 46, 10>>
  BY DEF stub_pattern
<1>2. /\ stub_pattern[1] = 85 /\ stub_pattern[2] = 110 /\ stub_pattern[3] = 104 /\ stub_pattern[4] = 97
      /\ stub_pattern[5] = 110 /\ stub_pattern[6] = 100 /\ stub_pattern[7] = 108 /\ stub_pattern[8] = 101
      /\ stub_pattern[9] = 100 /\ stub_pattern[10] = 32 /\ stub_pattern[11] = 73 /\ stub_pattern[12] = 110
      /\ stub_pattern[13] = 116 /\ stub_pattern[14] = 101 /\ stub_pattern[15] = 114 /\ stub_pattern[16] = 114
      /\ stub_pattern[17] = 117 /\ stub_pattern[18] = 112 /\ stub_pattern[19] = 116 /\ stub_pattern[20] = 32
      /\ stub_pattern[21] = 69 /\ stub_pattern[22] = 120 /\ stub_pattern[23] = 99 /\ stub_pattern[24] = 101
      /\ stub_pattern[25] = 112 /\ stub_pattern[26] = 116 /\ stub_pattern[27] = 105 /\ stub_pattern[28] = 111
      /\ stub_pattern[29] = 110 /\ stub_pattern[30] = 32 /\ stub_pattern[31] = 105 /\ stub_pattern[32] = 110
      /\ stub_pattern[33] = 32 /\ stub_pattern[34] = 69 /\ stub_pattern[35] = 76 /\ stub_pattern[36] = 51
      /\ stub_pattern[37] = 46 /\ stub_pattern[38] = 10
  BY <1>1
<1>3. Len(stub_pattern) = 38
  BY <1>1
<1>4. \A k \in 1 .. 38 :
         \/ k = 1 \/ k = 2 \/ k = 3 \/ k = 4 \/ k = 5 \/ k = 6 \/ k = 7 \/ k = 8 \/ k = 9 \/ k = 10
         \/ k = 11 \/ k = 12 \/ k = 13 \/ k = 14 \/ k = 15 \/ k = 16 \/ k = 17 \/ k = 18 \/ k = 19 \/ k = 20
         \/ k = 21 \/ k = 22 \/ k = 23 \/ k = 24 \/ k = 25 \/ k = 26 \/ k = 27 \/ k = 28 \/ k = 29 \/ k = 30
         \/ k = 31 \/ k = 32 \/ k = 33 \/ k = 34 \/ k = 35 \/ k = 36 \/ k = 37 \/ k = 38
  OBVIOUS
<1>5. \A k \in 1 .. 38 : stub_pattern[k] \in MessageByte
  BY <1>2, <1>4 DEF MessageByte
<1>6. \A k \in 1 .. 12 : init_pattern[k] \in {255, 68, 3, 213, 0, 128, 210, 64, 17, 30}
  <2>1. \A k \in 1 .. 12 : k = 1 \/ k = 2 \/ k = 3 \/ k = 4 \/ k = 5 \/ k = 6 \/ k = 7
                          \/ k = 8 \/ k = 9 \/ k = 10 \/ k = 11 \/ k = 12
    OBVIOUS
  <2> QED
    BY <2>1 DEF init_pattern
<1>7. \A k \in 1 .. 12 : init_pattern[k] \notin MessageByte
  BY <1>6 DEF MessageByte
<1>8. \A k \in 1 .. 24 : stub_text[k] \in {0, 144, 210, 60, 80, 211, 165, 30, 213, 223,
                                         63, 3, 128, 192, 95, 214}
  BY StubBytes
<1>9. \A k \in 1 .. 24 : stub_text[k] \notin MessageByte
  BY <1>8 DEF MessageByte
<1> QED
  BY <1>3, <1>5, <1>7, <1>9

(* An init sequence and the debug message share no byte.                   *)
LEMMA MessageApart ==
    ASSUME NEW bytes, NEW p \in Int, NEW t \in Int, NEW j \in Int,
           MatchesAt(init_pattern, bytes, p), MatchesAt(stub_pattern, bytes, t),
           j \in p .. p + 11, j \in t .. t + 37
    PROVE  FALSE
<1>1. (j + 1) - p \in 1 .. 12 /\ p + ((j + 1) - p) = j + 1
  OBVIOUS
<1>2. (j + 1) - t \in 1 .. 38 /\ t + ((j + 1) - t) = j + 1
  OBVIOUS
<1>3. bytes[p + ((j + 1) - p)] = init_pattern[(j + 1) - p]
  BY <1>1, MatchInit
<1>4. bytes[t + ((j + 1) - t)] = stub_pattern[(j + 1) - t]
  BY <1>2, MessageBytes DEF MatchesAt
<1>5. bytes[j + 1] = init_pattern[(j + 1) - p] /\ bytes[j + 1] = stub_pattern[(j + 1) - t]
  BY <1>1, <1>2, <1>3, <1>4
<1>6. /\ init_pattern[(j + 1) - p] \notin MessageByte
      /\ stub_pattern[(j + 1) - t] \in MessageByte
  BY <1>1, <1>2, MessageBytes
<1> QED
  BY <1>5, <1>6

-----------------------------------------------------------------------------
(* Searching and writing *)

(* The first offset of a nonempty set of matches is one of them.           *)
LEMMA FirstMember ==
    ASSUME NEW T, T \subseteq Nat, T # {}
    PROVE  First(T) \in T
<1> DEFINE R == OpToRel(<, Nat)
<1>1. \E x \in T : \A y \in T : ~ (<<y, x>> \in R)
  <2>1. IsWellFoundedOn(R, Nat)
    BY NatLessThanWellFounded
  <2> HIDE DEF R
  <2> QED
    BY <2>1, WFMin
<1>2. \A x, y \in Nat : <<y, x>> \in R <=> y < x
  BY DEF OpToRel
<1> HIDE DEF R
<1>3. PICK x \in T : \A y \in T : ~ (<<y, x>> \in R)
  BY <1>1
<1>4. \A y \in T : x <= y
  <2>1. TAKE y \in T
  <2>2. x \in Nat /\ y \in Nat /\ ~ y < x
    BY <1>2, <1>3
  <2> QED
    BY <2>2
<1> QED
  BY <1>3, <1>4 DEF First

(* What search_pattern_in_buffer may find in an image.                     *)
LEMMA OccurrenceFacts ==
    ASSUME NEW bytes, NEW w, w.from \in Nat, w.size \in Nat
    PROVE  /\ \A p : p \in Sites(bytes, w) <=>
                 /\ p \in Nat /\ w.from <= p /\ p + 12 <= w.from + w.size
                 /\ MatchesAt(init_pattern, bytes, p)
           /\ \A p : p \in Strings(bytes, w) <=>
                 /\ p \in Nat /\ w.from <= p /\ p + 38 <= w.from + w.size
                 /\ MatchesAt(stub_pattern, bytes, p)
<1>1. Len(init_pattern) = 12 /\ Len(stub_pattern) = 38
  BY PatternBytes, MessageBytes
<1>2. \A p : p \in w.from .. w.from + w.size - 12 <=>
                p \in Nat /\ w.from <= p /\ p + 12 <= w.from + w.size
  OBVIOUS
<1>3. \A p : p \in w.from .. w.from + w.size - 38 <=>
                p \in Nat /\ w.from <= p /\ p + 38 <= w.from + w.size
  OBVIOUS
<1>4. Sites(bytes, w) = {p \in w.from .. w.from + w.size - 12 :
                           MatchesAt(init_pattern, bytes, p)}
  BY <1>1 DEF Sites, Occurrences
<1>5. Strings(bytes, w) = {p \in w.from .. w.from + w.size - 38 :
                             MatchesAt(stub_pattern, bytes, p)}
  BY <1>1 DEF Strings, Occurrences
<1> QED
  BY <1>2, <1>3, <1>4, <1>5

(* A memcpy into the buffer changes the bytes it covers and no others.     *)
LEMMA OverwriteFacts ==
    ASSUME NEW bytes \in Seq(Byte), NEW p \in Nat, NEW what \in Seq(Byte),
           p + Len(what) <= Len(bytes)
    PROVE  /\ Overwrite(bytes, p, what) \in Seq(Byte)
           /\ Len(Overwrite(bytes, p, what)) = Len(bytes)
           /\ DOMAIN Overwrite(bytes, p, what) = DOMAIN bytes
           /\ \A i \in DOMAIN bytes : i \notin p + 1 .. p + Len(what) =>
                 Overwrite(bytes, p, what)[i] = bytes[i]
           /\ \A k \in 1 .. Len(what) : Overwrite(bytes, p, what)[p + k] = what[k]
<1> DEFINE res == Overwrite(bytes, p, what)
<1>1. Len(bytes) \in Nat /\ Len(what) \in Nat /\ DOMAIN bytes = 1 .. Len(bytes)
  OBVIOUS
<1>2. res = [i \in 1 .. Len(bytes) |->
               IF i \in p + 1 .. p + Len(what) THEN what[i - p] ELSE bytes[i]]
  BY <1>1 DEF Overwrite
<1>3. \A i \in 1 .. Len(bytes) : res[i] \in Byte
  <2>1. TAKE i \in 1 .. Len(bytes)
  <2>2. CASE i \in p + 1 .. p + Len(what)
    <3>1. i - p \in 1 .. Len(what)
      BY <1>1, <2>2
    <3>2. what[i - p] \in Byte
      BY <3>1
    <3>3. res[i] = what[i - p]
      BY <1>2, <2>2
    <3> QED
      BY <3>2, <3>3
  <2>3. CASE i \notin p + 1 .. p + Len(what)
    <3>1. res[i] = bytes[i]
      BY <1>2, <2>3
    <3> QED
      BY <3>1
  <2> QED
    BY <2>2, <2>3
<1>4. res \in Seq(Byte) /\ Len(res) = Len(bytes) /\ DOMAIN res = DOMAIN bytes
  BY <1>1, <1>2, <1>3
<1>5. \A k \in 1 .. Len(what) : res[p + k] = what[k]
  <2>1. TAKE k \in 1 .. Len(what)
  <2>2. p + k \in 1 .. Len(bytes) /\ p + k \in p + 1 .. p + Len(what) /\ (p + k) - p = k
    BY <1>1
  <2> QED
    BY <1>2, <2>2
<1>6. \A i \in DOMAIN bytes : i \notin p + 1 .. p + Len(what) => res[i] = bytes[i]
  BY <1>1, <1>2
<1> QED
  BY <1>4, <1>5, <1>6

(* Aligning the stub moves it up by at most three bytes.                   *)
LEMMA AlignFacts ==
    ASSUME NEW from \in Nat, NEW p \in Nat, from <= p
    PROVE  /\ AlignStub(from, p) \in p .. p + 3
           /\ (AlignStub(from, p) - from) % 4 = 0
<1> DEFINE n == p - from + 3
<1>1. n \in Nat /\ n >= 3 /\ p = from + n - 3
  OBVIOUS
<1> HIDE DEF n
<1>2. (n \div 4) * 4 <= n /\ n < (n \div 4) * 4 + 4 /\ n \div 4 \in Nat
  BY <1>1
<1>3. AlignStub(from, p) = from + (n \div 4) * 4
  BY DEF AlignStub, n
<1>4. \A m \in Nat : (m * 4) % 4 = 0
  OBVIOUS
<1>5. AlignStub(from, p) - from = (n \div 4) * 4
  BY <1>2, <1>3
<1> QED
  BY <1>1, <1>2, <1>3, <1>4, <1>5

-----------------------------------------------------------------------------
(* The inductive invariant *)

(* The BL31 image lies inside the buffer.                                  *)
LEMMA Bl31Facts ==
    ASSUME TypeOK, bl31 \in DOMAIN dump.toc
    PROVE  /\ Bl31.from \in Nat /\ Bl31.size \in Nat
           /\ Bl31.from + Bl31.size <= Len(buf)
           /\ Len(buf) \in Nat /\ Len(buf) <= 134217728
           /\ buf \in Seq(Byte) /\ before \in Seq(Byte)
           /\ Len(before) = Len(buf)
           /\ DOMAIN buf = 1 .. Len(buf) /\ DOMAIN before = 1 .. Len(buf)
<1>1. dump \in Dumps /\ Dumps \subseteq Dump
  BY DumpAssumption, SMT DEF TypeOK
<1>2. dump.toc \in Seq(Entry)
  BY <1>1, SMT DEF Dump
<1>3. dump.toc[bl31] \in Entry
  BY <1>2, SMT
<1>4. dump.toc[bl31].offset \in Nat /\ dump.toc[bl31].size \in Nat
  BY <1>3, SMT DEF Entry
<1>5. Bl31.from = dump.toc[bl31].offset /\ Bl31.size = dump.toc[bl31].size
  BY SMT DEF Bl31, Window
<1>6. /\ dump.toc[bl31].offset + dump.toc[bl31].size <= Len(dump.bytes)
      /\ Len(dump.bytes) <= 134217728
  BY <1>1, DumpAssumption, SMT
<1>7. /\ buf \in Seq(Byte) /\ before \in Seq(Byte)
      /\ Len(buf) = Len(dump.bytes) /\ Len(before) = Len(dump.bytes)
  BY SMT DEF TypeOK
<1>8. Len(buf) \in Nat /\ DOMAIN buf = 1 .. Len(buf) /\ DOMAIN before = 1 .. Len(before)
  BY <1>7, SMT
<1> QED
  BY <1>4, <1>5, <1>6, <1>7, <1>8, SMT

(* The inductive invariant holds when patch_el3 is called.                 *)
LEMMA IndInvInit == Init => IndInv
<1> SUFFICES ASSUME Init PROVE IndInv
  OBVIOUS
<1>1. dump \in Dump
  BY DumpAssumption, SMT DEF Init
<1>2. dump.bytes \in Seq(Byte)
  BY <1>1, SMT DEF Dump
<1>3. MaxCalls \in Nat \ {0}
  BY DumpAssumption, SMT
<1>4. 1 \in 1 .. MaxCalls
  BY <1>3
<1>5. 0 \in 0 .. Len(dump.bytes) /\ 0 \in 0 .. 16
  BY <1>2
<1>6. TypeOK
  BY <1>2, <1>4, <1>5 DEF Init, TypeOK
<1> QED
  BY <1>6 DEF Init, IndInv

(* A call that fails has changed nothing so far.                           *)
LEMMA FailStep ==
    ASSUME IndInv, pc \in {"magic", "stub"}, Fail
    PROVE  IndInv'
<1>1. buf' = before'
  BY DEF IndInv, Fail
<1>2. TypeOK'
  BY DEF IndInv, TypeOK, Fail
<1>3. pc' = "done" /\ ret' = 1
  BY DEF Fail
<1> QED
  BY <1>1, <1>2, <1>3 DEF IndInv

(* Choosing the BL31 entry keeps the inductive invariant.                  *)
LEMMA FindBl31Step ==
    ASSUME IndInv, FindBl31
    PROVE  IndInv'
<1>1. PICK i \in TocRange(dump) : bl31' = i
  BY DEF FindBl31
<1>2. i \in DOMAIN dump.toc /\ i <= 16
  BY DEF TocRange
<1>3. i \in 0 .. 16
  <2>1. dump.toc \in Seq(Entry)
    BY DumpAssumption, SMT DEF IndInv, TypeOK, Dump
  <2>2. i \in Nat
    BY <1>2, <2>1
  <2> QED
    BY <1>2, <2>2
<1>4. TypeOK'
  BY <1>1, <1>3 DEF IndInv, TypeOK, FindBl31
<1>5. bl31' \in DOMAIN dump'.toc /\ buf' = before' /\ pc' = "stub"
  BY <1>1, <1>2 DEF FindBl31, IndInv
<1> QED
  BY <1>4, <1>5 DEF IndInv

(* Choosing the place of the stub keeps the inductive invariant.           *)
LEMMA FindStubStep ==
    ASSUME IndInv, FindStub
    PROVE  IndInv'
<1>1. TypeOK /\ bl31 \in DOMAIN dump.toc /\ buf = before
  BY DEF IndInv, FindStub
<1> DEFINE t == First(Strings(buf, Bl31))
<1>2. t \in Strings(buf, Bl31)
  <2>1. Strings(buf, Bl31) \subseteq Nat
    BY <1>1, Bl31Facts, OccurrenceFacts
  <2> QED
    BY <2>1, FirstMember DEF FindStub
<1> HIDE DEF t
<1>3. t \in Nat /\ Bl31.from <= t /\ t + 38 <= Len(buf) /\ Bl31.from \in Nat
  BY <1>1, <1>2, Bl31Facts, OccurrenceFacts, SMT
<1>4. stub_start' = AlignStub(Bl31.from, t)
  BY DEF FindStub, t
<1>5. stub_start' \in t .. t + 3 /\ (stub_start' - Bl31.from) % 4 = 0
  BY <1>3, <1>4, AlignFacts
<1>6. /\ dump' = dump /\ before' = before /\ buf' = buf /\ bl31' = bl31
      /\ patched' = patched /\ ret' = ret /\ calls' = calls /\ pc' = "loop"
  BY DEF FindStub
<1>7. Bl31' = Bl31
  BY <1>6 DEF Bl31, Window
<1>8. stub_start' \in 0 .. Len(dump.bytes)
  <2>1. Len(buf) = Len(dump.bytes) /\ Len(buf) \in Nat
    BY <1>1, Bl31Facts DEF TypeOK
  <2> QED
    BY <1>3, <1>5, <2>1
<1>9. TypeOK'
  BY <1>1, <1>6, <1>8 DEF TypeOK
<1>10. StubInMessage'
  BY <1>1, <1>2, <1>5, <1>6, <1>7 DEF StubInMessage, Aligned
<1>11. ChangesAreBls'
  BY <1>1, <1>6 DEF ChangesAreBls
<1>12. SitesHandled'
  <2>1. \A p \in Sites(before, Bl31) : MatchesAt(init_pattern, before, p)
    BY <1>1, Bl31Facts, OccurrenceFacts
  <2> QED
    BY <1>1, <1>6, <1>7, <2>1 DEF SitesHandled
<1> QED
  BY <1>1, <1>6, <1>9, <1>10, <1>11, <1>12 DEF IndInv

(* A new call on the same buffer starts from the inductive invariant.      *)
LEMMA CallAgainStep ==
    ASSUME IndInv, CallAgain
    PROVE  IndInv'
<1>1. calls' \in 1 .. MaxCalls
  <2>1. MaxCalls \in Nat
    BY DumpAssumption, SMT
  <2>2. calls \in 1 .. MaxCalls
    BY DEF IndInv, TypeOK
  <2> QED
    BY <2>1, <2>2 DEF CallAgain
<1>2. 0 \in 0 .. Len(dump.bytes) /\ 0 \in 0 .. 16
  <2>1. buf \in Seq(Byte) /\ Len(buf) = Len(dump.bytes)
    BY DEF IndInv, TypeOK
  <2>2. Len(buf) \in Nat
    BY <2>1
  <2> QED
    BY <2>1, <2>2
<1>3. TypeOK'
  BY <1>1, <1>2 DEF IndInv, TypeOK, CallAgain
<1>4. pc' = "magic" /\ buf' = before'
  BY DEF CallAgain
<1> QED
  BY <1>3, <1>4 DEF IndInv

(* What the loop takes for an init sequence was one before the call.       *)
LEMMA SiteIsOriginal ==
    ASSUME TypeOK, bl31 \in DOMAIN dump.toc, ChangesAreBls,
           NEW q \in Sites(buf, Bl31)
    PROVE  /\ q \in Sites(before, Bl31)
           /\ \A k \in 1 .. 12 : buf[q + k] = before[q + k]
<1>1. /\ q \in Nat /\ Bl31.from <= q /\ q + 12 <= Bl31.from + Bl31.size
      /\ MatchesAt(init_pattern, buf, q)
  BY Bl31Facts, OccurrenceFacts
<1>2. Len(buf) \in Nat /\ q + 12 <= Len(buf) /\ DOMAIN buf = 1 .. Len(buf)
  <2>1. Bl31.from \in Nat /\ Bl31.size \in Nat /\ Bl31.from + Bl31.size <= Len(buf)
        /\ Len(buf) \in Nat /\ DOMAIN buf = 1 .. Len(buf)
    BY Bl31Facts
  <2> QED
    BY <1>1, <2>1
<1>3. ASSUME NEW k \in 1 .. 12, buf[q + k] # before[q + k]
      PROVE  FALSE
  <2>1. q + k \in DOMAIN buf /\ (q + k) - 1 \in Int /\ (q + k) - 1 \in q .. q + 11
    BY <1>1, <1>2
  <2>2. PICK p \in Sites(before, Bl31) :
           (q + k) - 1 \in p + 4 .. p + 7 /\ IsBl(buf, p + 4) /\ buf[p + 1] = 255
    BY <1>3, <2>1 DEF ChangesAreBls
  <2>3. p \in Int
    <3>1. p \in Nat
      BY Bl31Facts, OccurrenceFacts
    <3> QED
      BY <3>1
  <2>4. q \in Int
    BY <1>1
  <2> QED
    BY <1>1, <2>1, <2>2, <2>3, <2>4, NoBlInSite
<1>4. \A k \in 1 .. 12 : buf[q + k] = before[q + k]
  BY <1>3
<1>5. MatchesAt(init_pattern, before, q)
  BY <1>1, <1>4, InitTransfer, SMTT(30)
<1> QED
  BY <1>1, <1>4, <1>5, Bl31Facts, OccurrenceFacts

(* Patching one init sequence keeps the inductive invariant.               *)
LEMMA PatchSiteStep ==
    ASSUME IndInv, PatchSite
    PROVE  IndInv'
<1>1. /\ TypeOK /\ bl31 \in DOMAIN dump.toc
      /\ StubInMessage /\ ChangesAreBls /\ SitesHandled
  BY DEF IndInv, PatchSite
<1> DEFINE init == First(Sites(buf, Bl31))
           bl == BlInstr(BlOffset(stub_start, init))
<1>2. init \in Sites(buf, Bl31)
  <2>1. Sites(buf, Bl31) \subseteq Nat
    BY <1>1, Bl31Facts, OccurrenceFacts
  <2> QED
    BY <2>1, FirstMember DEF PatchSite
<1>3. buf' = Overwrite(buf, init + 4, bl)
  BY DEF PatchSite
<1> HIDE DEF init
<1>4. init \in Sites(before, Bl31) /\ \A k \in 1 .. 12 : buf[init + k] = before[init + k]
  BY <1>1, <1>2, SiteIsOriginal
<1>5. /\ init \in Nat /\ init + 12 <= Len(buf) /\ Len(buf) \in Nat
      /\ MatchesAt(init_pattern, buf, init) /\ MatchesAt(init_pattern, before, init)
  <2>1. /\ init \in Nat /\ init + 12 <= Bl31.from + Bl31.size
        /\ MatchesAt(init_pattern, buf, init) /\ MatchesAt(init_pattern, before, init)
    BY <1>1, <1>2, <1>4, Bl31Facts, OccurrenceFacts
  <2>2. Bl31.from \in Nat /\ Bl31.size \in Nat /\ Bl31.from + Bl31.size <= Len(buf)
        /\ Len(buf) \in Nat
    BY <1>1, Bl31Facts
  <2> QED
    BY <2>1, <2>2
<1>6. bl \in Seq(Byte) /\ Len(bl) = 4 /\ bl[4] \in 148 .. 151
  <2>1. stub_start \in Int
    <3>1. Len(dump.bytes) = Len(buf)
      BY <1>1 DEF TypeOK
    <3> QED
      BY <1>1, <1>5, <3>1 DEF TypeOK
  <2>2. BlOffset(stub_start, init) \in Int
    BY <1>5, <2>1 DEF BlOffset, DivC
  <2> QED
    BY <2>2, BlBytes
<1> HIDE DEF bl
<1>7. /\ buf' \in Seq(Byte) /\ Len(buf') = Len(buf) /\ DOMAIN buf' = DOMAIN buf
      /\ \A i \in DOMAIN buf : i \notin init + 5 .. init + 8 => buf'[i] = buf[i]
      /\ \A k \in 1 .. 4 : buf'[(init + 4) + k] = bl[k]
  <2>1. buf \in Seq(Byte) /\ init + 4 \in Nat /\ (init + 4) + Len(bl) <= Len(buf)
    BY <1>1, <1>5, <1>6 DEF TypeOK
  <2>2. (init + 4) + 1 = init + 5 /\ (init + 4) + 4 = init + 8
    BY <1>5
  <2> DEFINE at == init + 4
  <2> HIDE DEF at
  <2>3. at \in Nat /\ at + Len(bl) <= Len(buf)
    BY <2>1 DEF at
  <2>4. /\ Overwrite(buf, at, bl) \in Seq(Byte)
        /\ Len(Overwrite(buf, at, bl)) = Len(buf)
        /\ DOMAIN Overwrite(buf, at, bl) = DOMAIN buf
        /\ \A i \in DOMAIN buf : i \notin at + 1 .. at + Len(bl) =>
              Overwrite(buf, at, bl)[i] = buf[i]
        /\ \A k \in 1 .. Len(bl) : Overwrite(buf, at, bl)[at + k] = bl[k]
    BY <1>6, <2>1, <2>3, OverwriteFacts
  <2>5. buf' = Overwrite(buf, at, bl)
    BY <1>3 DEF at
  <2> QED
    BY <1>6, <2>2, <2>4, <2>5 DEF at
<1>8. /\ dump' = dump /\ before' = before /\ bl31' = bl31 /\ stub_start' = stub_start
      /\ ret' = ret /\ calls' = calls /\ pc' = "loop"
  BY DEF PatchSite
<1>9. patched' \in BOOLEAN
  BY DEF PatchSite
<1>10. Bl31' = Bl31
  BY <1>8 DEF Bl31, Window
<1>11. TypeOK'
  BY <1>1, <1>7, <1>8, <1>9 DEF TypeOK
<1>12. DOMAIN buf = 1 .. Len(buf)
  BY <1>1, Bl31Facts
<1>13. IsBl(buf', init + 4) /\ buf'[init + 1] = 255
  <2>1. buf'[(init + 4) + 4] \in 148 .. 151
    BY <1>6, <1>7
  <2>2. init + 1 \in DOMAIN buf /\ init + 1 \notin init + 5 .. init + 8
    BY <1>5, <1>12
  <2>3. buf[init + 1] = 255
    <3>1. 1 \in 1 .. 12 /\ init \in Int
      BY <1>5
    <3> QED
      BY <1>5, <3>1, MatchInit, PatternBytes
  <2> QED
    BY <1>7, <2>1, <2>2, <2>3 DEF IsBl
(* The other init sequences of the original keep their bytes.              *)
<1>14. ASSUME NEW p \in Sites(before, Bl31), p # init
       PROVE  \A k \in 1 .. 12 : buf'[p + k] = buf[p + k]
  <2>1. /\ p \in Nat /\ p + 12 <= Len(buf)
        /\ MatchesAt(init_pattern, before, p)
    <3>1. /\ p \in Nat /\ p + 12 <= Bl31.from + Bl31.size
          /\ MatchesAt(init_pattern, before, p)
      BY <1>1, Bl31Facts, OccurrenceFacts
    <3>2. Bl31.from \in Nat /\ Bl31.size \in Nat /\ Bl31.from + Bl31.size <= Len(buf)
      BY <1>1, Bl31Facts
    <3> QED
      BY <1>5, <3>1, <3>2
  <2>2. p >= init + 12 \/ init >= p + 12
    <3>1. p \in Int /\ init \in Int /\ (p < init \/ init < p)
      BY <1>5, <1>14, <2>1
    <3> QED
      BY <1>5, <2>1, <3>1, SitesApart
  <2>3. \A k \in 1 .. 12 : p + k \in DOMAIN buf /\ p + k \notin init + 5 .. init + 8
    BY <1>5, <1>12, <2>1, <2>2
  <2> QED
    BY <1>7, <2>3
<1>15. StubInMessage'
  BY <1>1, <1>8, <1>10 DEF StubInMessage, Aligned
<1>16. ChangesAreBls'
  <2> SUFFICES ASSUME NEW i \in DOMAIN buf, buf'[i] # before[i]
               PROVE  \E p \in Sites(before, Bl31) :
                         i - 1 \in p + 4 .. p + 7 /\ IsBl(buf', p + 4) /\ buf'[p + 1] = 255
    BY <1>7, <1>8, <1>10 DEF ChangesAreBls
  <2>1. CASE i \in init + 5 .. init + 8
    <3>1. i - 1 \in init + 4 .. init + 7
      BY <1>5, <2>1
    <3> QED
      BY <1>4, <1>13, <3>1
  <2>2. CASE i \notin init + 5 .. init + 8
    <3>1. buf'[i] = buf[i]
      BY <1>7, <2>2
    <3>2. PICK p \in Sites(before, Bl31) :
             i - 1 \in p + 4 .. p + 7 /\ IsBl(buf, p + 4) /\ buf[p + 1] = 255
      BY <1>1, <3>1 DEF ChangesAreBls
    <3>3. CASE p = init
      BY <1>13, <3>2, <3>3
    <3>4. CASE p # init
      <4>1. buf'[p + 8] = buf[p + 8] /\ buf'[p + 1] = buf[p + 1]
        <5>1. 1 \in 1 .. 12 /\ 8 \in 1 .. 12
          OBVIOUS
        <5> QED
          BY <1>14, <3>4, <5>1
      <4>2. (p + 4) + 4 = p + 8
        <5>1. p \in Nat
          BY <1>1, Bl31Facts, OccurrenceFacts
        <5> QED
          BY <5>1
      <4> QED
        BY <3>2, <4>1, <4>2 DEF IsBl
    <3> QED
      BY <3>3, <3>4
  <2> QED
    BY <2>1, <2>2
<1>17. SitesHandled'
  <2> SUFFICES ASSUME NEW p \in Sites(before, Bl31)
               PROVE  \/ MatchesAt(init_pattern, buf', p)
                      \/ MatchesAt(BlInstr(BlOffset(stub_start, p)), buf', p + 4)
    BY <1>8, <1>10 DEF SitesHandled
  <2>1. CASE p = init
    <3>1. MatchesAt(bl, buf', init + 4)
      BY <1>6, <1>7 DEF MatchesAt
    <3> QED
      BY <2>1, <3>1 DEF bl
  <2>2. CASE p # init
    <3>1. \A k \in 1 .. 12 : buf'[p + k] = buf[p + k]
      BY <1>14, <2>2
    <3>2. CASE MatchesAt(init_pattern, buf, p)
      BY <3>1, <3>2, InitTransfer, SMTT(30)
    <3>3. CASE MatchesAt(BlInstr(BlOffset(stub_start, p)), buf, p + 4)
      <4> DEFINE b == BlInstr(BlOffset(stub_start, p))
      <4>1. p \in Nat /\ stub_start \in Int
        <5>1. p \in Nat
          BY <1>1, Bl31Facts, OccurrenceFacts
        <5>2. Len(dump.bytes) = Len(buf)
          BY <1>1 DEF TypeOK
        <5>3. stub_start \in Int
          BY <1>1, <1>5, <5>2 DEF TypeOK
        <5> QED
          BY <5>1, <5>3
      <4>2. Len(b) = 4
        <5>1. BlOffset(stub_start, p) \in Int
          BY <4>1 DEF BlOffset, DivC
        <5> QED
          BY <5>1, BlBytes
      <4> HIDE DEF b
      <4>3. \A k \in 1 .. 4 : buf'[(p + 4) + k] = buf[(p + 4) + k]
        <5>1. \A k \in 1 .. 4 : 4 + k \in 1 .. 12 /\ (p + 4) + k = p + (4 + k)
          BY <4>1
        <5> QED
          BY <3>1, <5>1
      <4>4. MatchesAt(b, buf, p + 4)
        BY <3>3 DEF b
      <4>5. MatchesAt(b, buf', p + 4)
        BY <4>2, <4>3, <4>4 DEF MatchesAt
      <4> QED
        BY <4>5 DEF b
    <3> QED
      BY <1>1, <3>2, <3>3 DEF SitesHandled
  <2> QED
    BY <2>1, <2>2
<1> QED
  BY <1>1, <1>8, <1>11, <1>15, <1>16, <1>17 DEF IndInv

(* Leaving the loop keeps the inductive invariant.                         *)
LEMMA LoopDoneStep ==
    ASSUME IndInv, LoopDone
    PROVE  IndInv'
<1>1. /\ dump' = dump /\ before' = before /\ buf' = buf /\ bl31' = bl31
      /\ stub_start' = stub_start /\ patched' = patched /\ calls' = calls
      /\ pc' = "copy" /\ ret' \in {0, 1} /\ pc = "loop"
  BY DEF LoopDone
<1>2. Bl31' = Bl31
  BY <1>1 DEF Bl31, Window
<1>3. TypeOK'
  BY <1>1 DEF IndInv, TypeOK
<1>4. StubInMessage' /\ ChangesAreBls' /\ SitesHandled'
  BY <1>1, <1>2 DEF IndInv, StubInMessage, ChangesAreBls, SitesHandled, Aligned
<1>5. Sites(buf, Bl31)' = {}
  BY <1>1, <1>2 DEF LoopDone
<1>6. bl31' \in DOMAIN dump'.toc
  BY <1>1 DEF IndInv
<1> QED
  BY <1>1, <1>3, <1>4, <1>5, <1>6 DEF IndInv

(* Copying the stub to s creates no init sequence: an init sequence at q   *)
(* in the new bytes lies outside the stub.                                 *)
LEMMA NoSiteInStub ==
    ASSUME NEW bytes, NEW q \in Nat, NEW s \in Nat,
           MatchesAt(init_pattern, bytes, q),
           \A k \in 1 .. 24 : bytes[s + k] = stub_text[k]
    PROVE  q >= s + 24 \/ s >= q + 12
<1>1. CASE q >= s /\ q < s + 24
  <2>1. (q + 1) - s \in 1 .. 24 /\ s + ((q + 1) - s) = q + 1
    BY <1>1
  <2>2. bytes[s + ((q + 1) - s)] = stub_text[(q + 1) - s]
    BY <2>1
  <2>3. stub_text[(q + 1) - s] # 255
    <3>1. \A k \in 1 .. 24 : stub_text[k] # 255
      BY StubBytes
    <3> QED
      BY <2>1, <3>1
  <2>4. bytes[q + 1] = 255
    <3>1. 1 \in 1 .. 12 /\ q \in Int
      OBVIOUS
    <3> QED
      BY <3>1, MatchInit, PatternBytes
  <2> QED
    BY <2>1, <2>2, <2>3, <2>4
<1>2. CASE q < s /\ s < q + 12
  <2> DEFINE d == s - q
  <2>1. d \in 1 .. 11 /\ s = q + d
    BY <1>2
  <2> HIDE DEF d
  <2>2. bytes[q + (d + 1)] = 0 /\ bytes[q + (d + 2)] = 0 /\ bytes[q + (d + 3)] = 144
    <3>1. s + 1 = q + (d + 1) /\ s + 2 = q + (d + 2) /\ s + 3 = q + (d + 3)
      BY <2>1
    <3>2. 1 \in 1 .. 24 /\ 2 \in 1 .. 24 /\ 3 \in 1 .. 24
      OBVIOUS
    <3>3. bytes[s + 1] = 0 /\ bytes[s + 2] = 0 /\ bytes[s + 3] = 144
      BY <3>2, StubBytes
    <3> QED
      BY <3>1, <3>3
  <2>3. \A k \in 1 .. 12 : bytes[q + k] = init_pattern[k]
    <3>1. q \in Int
      OBVIOUS
    <3> QED
      BY <3>1, MatchInit
  <2>4. /\ init_pattern[2] = 68  /\ init_pattern[3] = 3   /\ init_pattern[4] = 213
        /\ init_pattern[5] = 0   /\ init_pattern[6] = 0   /\ init_pattern[7] = 128
        /\ init_pattern[8] = 210 /\ init_pattern[9] = 64  /\ init_pattern[10] = 17
        /\ init_pattern[11] = 30 /\ init_pattern[12] = 213
    BY DEF init_pattern
  <2>5. init_pattern[d + 1] = 0
    <3>1. d + 1 \in 1 .. 12
      BY <2>1
    <3> QED
      BY <2>2, <2>3, <3>1
  <2>6. d = 4 \/ d = 5
    <3>1. d = 1 \/ d = 2 \/ d = 3 \/ d = 4 \/ d = 5 \/ d = 6 \/ d = 7 \/ d = 8
          \/ d = 9 \/ d = 10 \/ d = 11
      BY <2>1
    <3> QED
      BY <2>4, <2>5, <3>1
  <2>7. CASE d = 4
    <3>1. bytes[q + 7] = 144 /\ 7 \in 1 .. 12
      BY <2>2, <2>7
    <3> QED
      BY <2>3, <2>4, <3>1
  <2>8. CASE d = 5
    <3>1. bytes[q + 7] = 0 /\ 7 \in 1 .. 12
      BY <2>2, <2>8
    <3> QED
      BY <2>3, <2>4, <3>1
  <2> QED
    BY <2>6, <2>7, <2>8
<1> QED
  BY <1>1, <1>2

(* Copying the stub over the message keeps the inductive invariant.        *)
LEMMA CopyStubStep ==
    ASSUME IndInv, CopyStub
    PROVE  IndInv'
<1>1. /\ TypeOK /\ bl31 \in DOMAIN dump.toc
      /\ StubInMessage /\ ChangesAreBls /\ SitesHandled
      /\ Sites(buf, Bl31) = {}
  BY DEF IndInv, CopyStub
<1> DEFINE s == stub_start
<1>2. PICK t \in Strings(before, Bl31) : s \in t .. t + 3 /\ Aligned(s)
  BY <1>1 DEF StubInMessage
<1>3. /\ Bl31.from \in Nat /\ Bl31.size \in Nat /\ Len(buf) \in Nat
      /\ Bl31.from + Bl31.size <= Len(buf) /\ DOMAIN buf = 1 .. Len(buf)
      /\ Len(buf) <= 134217728
  BY <1>1, Bl31Facts, SMT
<1>4. /\ t \in Nat /\ t + 38 <= Len(buf)
      /\ MatchesAt(stub_pattern, before, t)
  <2>1. /\ t \in Nat /\ t + 38 <= Bl31.from + Bl31.size
        /\ MatchesAt(stub_pattern, before, t)
    BY <1>3, OccurrenceFacts, SMT
  <2> QED
    BY <1>3, <2>1, SMT
<1>5. s \in Nat /\ s + 24 <= Len(buf)
  BY <1>2, <1>3, <1>4, SMT
<1>6. /\ buf' = Overwrite(buf, s, stub_text) /\ ret' = 0 /\ pc' = "done"
      /\ dump' = dump /\ before' = before /\ bl31' = bl31 /\ stub_start' = stub_start
      /\ patched' = patched /\ calls' = calls
  BY DEF CopyStub
<1>7. Bl31' = Bl31
  BY <1>6 DEF Bl31, Window
<1>8. /\ buf' \in Seq(Byte) /\ Len(buf') = Len(buf) /\ DOMAIN buf' = DOMAIN buf
      /\ \A i \in DOMAIN buf : i \notin s + 1 .. s + 24 => buf'[i] = buf[i]
      /\ \A k \in 1 .. 24 : buf'[s + k] = stub_text[k]
  <2>1. buf \in Seq(Byte)
    BY <1>1 DEF TypeOK
  <2>2. s + Len(stub_text) <= Len(buf) /\ stub_text \in Seq(Byte) /\ Len(stub_text) = 24
    BY <1>5, StubBytes
  <2> HIDE DEF s
  <2>3. /\ Overwrite(buf, s, stub_text) \in Seq(Byte)
        /\ Len(Overwrite(buf, s, stub_text)) = Len(buf)
        /\ DOMAIN Overwrite(buf, s, stub_text) = DOMAIN buf
        /\ \A i \in DOMAIN buf : i \notin s + 1 .. s + Len(stub_text) =>
              Overwrite(buf, s, stub_text)[i] = buf[i]
        /\ \A k \in 1 .. Len(stub_text) :
              Overwrite(buf, s, stub_text)[s + k] = stub_text[k]
    <3>1. s \in Nat
      BY <1>5
    <3>2. s + Len(stub_text) <= Len(buf)
      BY <2>2
    <3>3. stub_text \in Seq(Byte)
      BY <2>2
    <3> QED
      BY <2>1, <3>1, <3>2, <3>3, OverwriteFacts, ZenonT(30)
  <2> QED
    BY <1>6, <2>2, <2>3
<1>9. TypeOK'
  BY <1>1, <1>6, <1>8 DEF TypeOK
<1> HIDE DEF s
<1>10. OnlyIntendedBytes'
  <2> SUFFICES ASSUME NEW i \in DOMAIN buf, buf'[i] # before[i]
               PROVE  \/ \E p \in Sites(before, Bl31) : i - 1 \in p + 4 .. p + 7
                      \/ \E p \in Strings(before, Bl31) : i - 1 \in p .. p + 37
    BY <1>6, <1>7, <1>8 DEF OnlyIntendedBytes
  <2>1. CASE i \in s + 1 .. s + 24
    <3>1. i - 1 \in t .. t + 37
      BY <1>2, <1>4, <1>5, <2>1
    <3> QED
      BY <3>1
  <2>2. CASE i \notin s + 1 .. s + 24
    <3>1. buf[i] # before[i]
      BY <1>8, <2>2
    <3> QED
      BY <1>1, <3>1 DEF ChangesAreBls
  <2> QED
    BY <2>1, <2>2
<1>11. Sites(buf', Bl31) = {}
  <2> SUFFICES ASSUME NEW q \in Sites(buf', Bl31) PROVE FALSE
    OBVIOUS
  <2>1. /\ q \in Nat /\ Bl31.from <= q /\ q + 12 <= Bl31.from + Bl31.size
        /\ MatchesAt(init_pattern, buf', q)
    BY <1>3, OccurrenceFacts, SMT
  <2>2. q >= s + 24 \/ s >= q + 12
    BY <1>5, <1>8, <2>1, NoSiteInStub
  <2>3. q + 12 <= Len(buf)
    BY <1>3, <2>1, SMT
  <2>4. \A k \in 1 .. 12 : q + k \in 1 .. Len(buf) /\ q + k \notin s + 1 .. s + 24
    <3>1. Len(buf) \in Nat
      BY <1>3, SMT
    <3> QED
      BY <1>5, <2>1, <2>2, <2>3, <3>1
  <2>5. \A k \in 1 .. 12 : buf'[q + k] = buf[q + k]
    <3>1. DOMAIN buf = 1 .. Len(buf)
      BY <1>3, SMT
    <3> QED
      BY <1>8, <2>4, <3>1
  <2>6. MatchesAt(init_pattern, buf, q)
    BY <2>1, <2>5, InitTransfer, SMTT(30)
  <2>7. q \in Sites(buf, Bl31)
    BY <1>3, <2>1, <2>6, OccurrenceFacts, SMT
  <2> QED
    BY <1>1, <2>7
<1>12. MatchesAt(stub_text, buf', s)
  <2>1. \A k \in 1 .. 24 : buf'[s + k] = stub_text[k]
    BY <1>8
  <2> QED
    BY <2>1, StubMatch, SMTT(30)
<1>13. ASSUME NEW p \in Sites(before, Bl31), Aligned(p)
       PROVE  IsBl(buf', p + 4) /\ BlTarget(buf', p + 4) = s
  <2>1. /\ p \in Nat /\ p + 12 <= Len(buf) /\ Bl31.from <= p
        /\ p + 12 <= Bl31.from + Bl31.size
        /\ MatchesAt(init_pattern, before, p)
    <3>1. /\ p \in Nat /\ p + 12 <= Bl31.from + Bl31.size /\ Bl31.from <= p
          /\ MatchesAt(init_pattern, before, p)
      BY <1>3, OccurrenceFacts, SMT
    <3> QED
      BY <1>3, <3>1, SMT
  <2>2. ~ MatchesAt(init_pattern, buf, p)
    <3>1. p \notin Sites(buf, Bl31)
      BY <1>1
    <3> QED
      BY <1>3, <2>1, <3>1, OccurrenceFacts, SMTT(30)
  <2> DEFINE b == BlInstr(BlOffset(s, p))
  <2>3. MatchesAt(b, buf, p + 4)
    BY <1>1, <2>2 DEF SitesHandled, s
  <2>4. Len(b) = 4
    <3>1. BlOffset(s, p) \in Int
      BY <1>5, <2>1 DEF BlOffset, DivC
    <3> QED
      BY <3>1, BlBytes
  <2>5. \A k \in 1 .. 4 : buf'[(p + 4) + k] = buf[(p + 4) + k]
    <3>1. TAKE k \in 1 .. 4
    <3> DEFINE j == (p + 4) + k - 1
    <3>2. j \in Int /\ j \in p .. p + 11 /\ j + 1 = (p + 4) + k
      BY <2>1
    <3>3. p \in Int /\ t \in Int
      BY <1>4, <2>1
    <3> HIDE DEF j
    <3>4. j \notin t .. t + 37
      BY <1>4, <2>1, <3>2, <3>3, MessageApart
    <3>5. j + 1 \notin s + 1 .. s + 24
      BY <1>2, <1>4, <1>5, <3>2, <3>4
    <3>6. j + 1 \in 1 .. Len(buf)
      <4>1. Len(buf) \in Nat
        BY <1>3, SMT
      <4> QED
        BY <2>1, <3>2, <4>1
    <3>7. j + 1 \in DOMAIN buf
      BY <1>3, <3>6, SMT
    <3> QED
      BY <1>8, <3>2, <3>5, <3>7
  <2>6. MatchesAt(b, buf', p + 4)
    <3> HIDE DEF b
    <3> QED
      BY <2>3, <2>4, <2>5 DEF MatchesAt
  <2>7. (s - (p + 4)) % 4 = 0
    <3>1. \A x, y \in Int : (x % 4 = 0 /\ y % 4 = 0) => (x - (y + 4)) % 4 = 0
      BY SMT
    <3>2. s - Bl31.from \in Int /\ p - Bl31.from \in Int
      BY <1>3, <1>5, <2>1, SMT
    <3>3. (s - Bl31.from) % 4 = 0 /\ (p - Bl31.from) % 4 = 0
      BY <1>2, <1>13 DEF Aligned
    <3>4. ((s - Bl31.from) - ((p - Bl31.from) + 4)) % 4 = 0
      BY <3>1, <3>2, <3>3
    <3>5. (s - Bl31.from) - ((p - Bl31.from) + 4) = s - (p + 4)
      BY <1>3, <1>5, <2>1, SMT
    <3> QED
      BY <3>4, <3>5
  <2>8. p <= 134217724 /\ s <= 134217728
    BY <1>3, <1>5, <2>1, SMT
  <2> QED
    BY <1>5, <2>1, <2>6, <2>7, <2>8, BlRoundTrip, SMT
<1>14. \A p \in Sites(before', Bl31') :
          Aligned(p)' => IsBl(buf', p + 4) /\ BlTarget(buf', p + 4) = stub_start'
  <2>1. \A p : Aligned(p)' <=> Aligned(p)
    BY <1>7 DEF Aligned
  <2>2. stub_start' = s
    BY <1>6 DEF s
  <2> QED
    BY <1>6, <1>7, <1>13, <2>1, <2>2
<1>15. ret' # 1
  BY <1>6
<1>16. MatchesAt(stub_text, buf', stub_start')
  BY <1>6, <1>12 DEF s
<1> QED
  BY <1>6, <1>7, <1>9, <1>10, <1>11, <1>14, <1>15, <1>16
     DEF IndInv, IsBl, BlTarget, Aligned

(* Every step of patch_el3 keeps the inductive invariant.                  *)
LEMMA IndInvNext == IndInv /\ [Next]_vars => IndInv'
<1> SUFFICES ASSUME IndInv, [Next]_vars PROVE IndInv'
  OBVIOUS
<1>1. CASE BadMagic
  BY <1>1, FailStep DEF BadMagic
<1>2. CASE FindBl31
  BY <1>2, FindBl31Step
<1>3. CASE NoBl31
  BY <1>3, FailStep DEF NoBl31
<1>4. CASE FindStub
  BY <1>4, FindStubStep
<1>5. CASE NoStub
  BY <1>5, FailStep DEF NoStub
<1>6. CASE PatchSite
  BY <1>6, PatchSiteStep
<1>7. CASE LoopDone
  BY <1>7, LoopDoneStep
<1>8. CASE CopyStub
  BY <1>8, CopyStubStep
<1>9. CASE CallAgain
  BY <1>9, CallAgainStep
<1>10. CASE UNCHANGED vars
  <2>1. Bl31' = Bl31
    BY <1>10 DEF vars, Bl31, Window
  <2>2. TypeOK'
    BY <1>10 DEF vars, IndInv, TypeOK
  <2> QED
    BY <1>10, <2>1, <2>2 DEF vars, IndInv, StubInMessage, ChangesAreBls,
       SitesHandled, OnlyIntendedBytes, Aligned
<1> QED
  BY <1>1, <1>2, <1>3, <1>4, <1>5, <1>6, <1>7, <1>8, <1>9, <1>10
     DEF Next, Step, Over

(* The inductive invariant holds in every reachable state.                 *)
LEMMA IndInvHolds == Spec => []IndInv
  BY IndInvInit, IndInvNext, PTL DEF Spec

-----------------------------------------------------------------------------
(* Whatever the buffer, patch_el3 keeps to bytes and stays inside it.      *)
THEOREM TypeCorrect == Spec => []TypeOK
<1>1. IndInv => TypeOK
  BY DEF IndInv
<1> QED
  BY <1>1, IndInvHolds, PTL

(* patch_el3 changes only second instructions of init sequences and bytes  *)
(* of the message, at any time during a call.                              *)
THEOREM ChangesOnlyIntendedBytes == Spec => []OnlyIntendedBytes
<1>1. IndInv => OnlyIntendedBytes
  <2> SUFFICES ASSUME IndInv PROVE OnlyIntendedBytes
    OBVIOUS
  <2>1. CASE buf = before
    BY <2>1 DEF OnlyIntendedBytes
  <2>2. CASE pc \in {"loop", "copy"}
    BY <2>2 DEF IndInv, ChangesAreBls, OnlyIntendedBytes
  <2>3. CASE pc \in {"magic", "stub"}
    BY <2>1, <2>3 DEF IndInv
  <2>4. CASE pc = "done"
    BY <2>1, <2>4 DEF IndInv
  <2> QED
    BY <2>2, <2>3, <2>4 DEF IndInv, TypeOK
<1> QED
  BY <1>1, IndInvHolds, PTL

(* After a successful call every aligned init sequence calls the stub.     *)
THEOREM EverySiteIsPatched == Spec => []EverySiteCallsStub
<1>1. IndInv => EverySiteCallsStub
  <2> SUFFICES ASSUME IndInv, pc = "done", ret = 0
               PROVE  /\ Sites(buf, Bl31) = {}
                      /\ MatchesAt(stub_text, buf, stub_start)
                      /\ \A p \in Sites(before, Bl31) : Aligned(p) =>
                            IsBl(buf, p + 4) /\ BlTarget(buf, p + 4) = stub_start
    BY DEF EverySiteCallsStub
  <2>1. ret # 1
    OBVIOUS
  <2> QED
    BY <2>1 DEF IndInv
<1> QED
  BY <1>1, IndInvHolds, PTL

(* A call that fails leaves the buffer as it was.                          *)
THEOREM FailureKeepsBuffer == Spec => []FailureChangesNothing
<1>1. IndInv => FailureChangesNothing
  BY DEF IndInv, FailureChangesNothing
<1> QED
  BY <1>1, IndInvHolds, PTL
-----------------------------------------------------------------------------
(* A patched dump is refused *)

(* The message, where the search finds it.                                 *)
LEMMA MatchMessage ==
    ASSUME NEW bytes, NEW q \in Int
    PROVE  MatchesAt(stub_pattern, bytes, q) <=>
              \A k \in 1 .. 38 : bytes[q + k] = stub_pattern[k]
  BY MessageBytes DEF MatchesAt

(* Every byte of an occurrence of the message is a character of it.        *)
LEMMA MessageChars ==
    ASSUME NEW bytes, NEW q \in Int, MatchesAt(stub_pattern, bytes, q),
           NEW i \in q + 1 .. q + 38
    PROVE  bytes[i] \in MessageByte
<1>1. i - q \in 1 .. 38 /\ q + (i - q) = i
  OBVIOUS
<1>2. bytes[q + (i - q)] = stub_pattern[i - q]
  BY <1>1, MatchMessage
<1>3. stub_pattern[i - q] \in MessageByte
  BY <1>1, MessageBytes
<1> QED
  BY <1>1, <1>2, <1>3

(* Neither the BLs nor the stub spell the message anew (38 bytes in a row  *)
(* that take in a byte of a BL also take in its opcode byte or the first   *)
(* byte of the init sequence), and the stub destroys the copy it is put    *)
(* into: a message that is left over lay elsewhere in BL31 before the call.*)
LEMMA MessageLeftOver ==
    ASSUME IndInv, CopyStub, NEW q \in Strings(buf', Bl31)
    PROVE  \E t \in Strings(before, Bl31) : q \in Strings(before, Bl31) /\ q # t
<1>1. /\ TypeOK /\ bl31 \in DOMAIN dump.toc /\ StubInMessage /\ ChangesAreBls
  BY DEF IndInv, CopyStub
<1> DEFINE s == stub_start
<1>2. PICK t \in Strings(before, Bl31) : s \in t .. t + 3
  BY <1>1 DEF StubInMessage
<1>3. /\ Bl31.from \in Nat /\ Bl31.size \in Nat /\ Len(buf) \in Nat
      /\ Bl31.from + Bl31.size <= Len(buf) /\ DOMAIN buf = 1 .. Len(buf)
  BY <1>1, Bl31Facts, SMT
<1>4. t \in Nat /\ t + 38 <= Bl31.from + Bl31.size
  BY <1>3, OccurrenceFacts, SMT
<1>5. /\ q \in Nat /\ Bl31.from <= q /\ q + 38 <= Bl31.from + Bl31.size
      /\ MatchesAt(stub_pattern, buf', q)
  BY <1>3, OccurrenceFacts, SMT
<1>6. s \in Nat /\ s + 24 <= Len(buf)
  BY <1>2, <1>3, <1>4, SMT
<1>7. /\ \A i \in DOMAIN buf : i \notin s + 1 .. s + 24 => buf'[i] = buf[i]
      /\ \A k \in 1 .. 24 : buf'[s + k] = stub_text[k]
  <2>1. buf \in Seq(Byte)
    BY <1>1 DEF TypeOK
  <2>2. buf' = Overwrite(buf, s, stub_text)
    BY DEF CopyStub
  <2>3. stub_text \in Seq(Byte) /\ Len(stub_text) = 24
    BY StubBytes
  <2> HIDE DEF s
  <2>4. s \in Nat
    BY <1>6
  <2>5. s + Len(stub_text) <= Len(buf)
    BY <1>6, <2>3
  <2>6. stub_text \in Seq(Byte)
    BY <2>3
  <2>7. /\ \A i \in DOMAIN buf : i \notin s + 1 .. s + Len(stub_text) =>
              Overwrite(buf, s, stub_text)[i] = buf[i]
        /\ \A k \in 1 .. Len(stub_text) :
              Overwrite(buf, s, stub_text)[s + k] = stub_text[k]
    BY <2>1, <2>4, <2>5, <2>6, OverwriteFacts, ZenonT(30)
  <2> QED
    BY <2>2, <2>3, <2>7
<1> HIDE DEF s
<1>8. ASSUME NEW i \in q + 1 .. q + 38 PROVE i \notin s + 1 .. s + 24
  <2> SUFFICES ASSUME i \in s + 1 .. s + 24 PROVE FALSE
    OBVIOUS
  <2>1. i - s \in 1 .. 24 /\ s + (i - s) = i
    BY <1>6
  <2>2. buf'[s + (i - s)] = stub_text[i - s]
    BY <1>7, <2>1
  <2>3. stub_text[i - s] \notin MessageByte
    BY <2>1, MessageBytes
  <2>4. buf'[i] \in MessageByte
    BY <1>5, MessageChars
  <2> QED
    BY <2>1, <2>2, <2>3, <2>4
<1>9. ASSUME NEW i \in q + 1 .. q + 38
      PROVE  i \in DOMAIN buf /\ buf'[i] = buf[i]
  <2>1. i \in DOMAIN buf
    BY <1>3, <1>5
  <2> QED
    BY <1>7, <1>8, <2>1
<1>10. MatchesAt(stub_pattern, buf, q)
  <2>1. \A k \in 1 .. 38 : q + k \in q + 1 .. q + 38
    BY <1>5
  <2>2. \A k \in 1 .. 38 : buf'[q + k] = stub_pattern[k]
    BY <1>5, MatchMessage
  <2>3. \A k \in 1 .. 38 : buf[q + k] = stub_pattern[k]
    BY <1>9, <2>1, <2>2
  <2> QED
    BY <1>5, <2>3, MatchMessage
<1>11. ASSUME NEW i \in q + 1 .. q + 38, buf[i] # before[i] PROVE FALSE
  <2>1. i \in DOMAIN buf
    BY <1>9
  <2>2. PICK p \in Sites(before, Bl31) :
           i - 1 \in p + 4 .. p + 7 /\ IsBl(buf, p + 4) /\ buf[p + 1] = 255
    BY <1>1, <1>11, <2>1 DEF ChangesAreBls
  <2>3. p \in Int /\ q \in Int
    BY <1>3, <1>5, OccurrenceFacts
  <2>4. buf[p + 8] \in 148 .. 151
    <3>1. (p + 4) + 4 = p + 8
      BY <2>3
    <3> QED
      BY <2>2, <3>1 DEF IsBl
  <2>5. \A k \in q + 1 .. q + 38 : buf[k] \in MessageByte
    BY <1>10, <2>3, MessageChars
  <2>6. p + 8 \in q + 1 .. q + 38 \/ p + 1 \in q + 1 .. q + 38
    BY <2>2, <2>3
  <2>7. CASE p + 8 \in q + 1 .. q + 38
    BY <2>4, <2>5, <2>7 DEF MessageByte
  <2>8. CASE p + 1 \in q + 1 .. q + 38
    BY <2>2, <2>5, <2>8 DEF MessageByte
  <2> QED
    BY <2>6, <2>7, <2>8
<1>12. MatchesAt(stub_pattern, before, q)
  <2>1. \A k \in 1 .. 38 : q + k \in q + 1 .. q + 38
    BY <1>5
  <2>2. \A k \in 1 .. 38 : buf[q + k] = stub_pattern[k]
    BY <1>5, <1>10, MatchMessage
  <2>3. \A k \in 1 .. 38 : before[q + k] = stub_pattern[k]
    BY <1>11, <2>1, <2>2
  <2> QED
    BY <1>5, <2>3, MatchMessage
<1>13. q \in Strings(before, Bl31)
  BY <1>3, <1>5, <1>12, OccurrenceFacts
<1>14. q # t
  <2>1. s + 1 \in s + 1 .. s + 24 /\ s + 1 \in t + 1 .. t + 38
    BY <1>2, <1>4, <1>6
  <2> QED
    BY <1>8, <2>1
<1> QED
  BY <1>13, <1>14

(* There is one entry at which the loop over the table of contents stops.  *)
LEMMA FirstBl31Unique ==
    ASSUME TypeOK, NEW i, NEW j, FirstBl31(dump, i), FirstBl31(dump, j)
    PROVE  i = j
<1>1. dump.toc \in Seq(Entry)
  BY DumpAssumption, SMT DEF TypeOK, Dump
<1>2. i \in Nat /\ j \in Nat /\ i >= 1 /\ j >= 1
  BY <1>1 DEF FirstBl31, TocRange
<1>3. ~ (i \in 1 .. j - 1) /\ ~ (j \in 1 .. i - 1)
  BY DEF FirstBl31
<1> QED
  BY <1>2, <1>3

(* A step that does not touch the bytes refuses what was refused.          *)
LEMMA RefusableSame ==
    ASSUME dump' = dump, NEW b
    PROVE  /\ OneMessage(dump)' <=> OneMessage(dump)
           /\ Refusable(b)' <=> (\A i \in TocRange(dump) :
                 dump.magic /\ FirstBl31(dump, i) => Strings(b', Window(dump, i)) = {})
  BY DEF OneMessage, Refusable

(* A call refused by the magic number, for want of a BL31 or for want of   *)
(* the message would be refused again.                                     *)
LEMMA FailRefusable ==
    ASSUME IndInv, RefusedAgain, OneMessage(dump), BadMagic \/ NoBl31 \/ NoStub
    PROVE  Refusable(buf)
<1>1. CASE BadMagic
  BY <1>1 DEF BadMagic, Refusable
<1>2. CASE NoBl31
  BY <1>2 DEF NoBl31, Refusable, FirstBl31
<1>3. CASE NoStub
  <2>1. FirstBl31(dump, bl31) /\ Strings(buf, Window(dump, bl31)) = {}
    BY <1>3 DEF NoStub, RefusedAgain, Bl31
  <2> QED
    BY <2>1, FirstBl31Unique DEF Refusable, IndInv
<1> QED
  BY <1>1, <1>2, <1>3

(* Every step keeps what refuses the second call.                          *)
LEMMA RefusedNext == IndInv /\ RefusedAgain /\ [Next]_vars => RefusedAgain'
<1> SUFFICES ASSUME IndInv, RefusedAgain, [Next]_vars, OneMessage(dump)'
             PROVE  /\ calls' = 1 => before' = dump'.bytes
                    /\ pc' \in {"stub", "loop", "copy"} =>
                          dump'.magic /\ FirstBl31(dump', bl31')
                    /\ calls' > 1 => /\ Refusable(before)'
                                     /\ pc' \notin {"loop", "copy"}
                                     /\ pc' = "done" => ret' = 1
                    /\ pc' = "done" => Refusable(buf)'
  BY DEF RefusedAgain
<1>1. dump' = dump
  BY DEF Next, Step, BadMagic, FindBl31, NoBl31, FindStub, NoStub, Fail,
         PatchSite, LoopDone, CopyStub, CallAgain, Over, vars
<1>2. OneMessage(dump)
  BY <1>1, RefusableSame
<1>3. /\ calls = 1 => before = dump.bytes
      /\ pc \in {"stub", "loop", "copy"} => dump.magic /\ FirstBl31(dump, bl31)
      /\ calls > 1 => Refusable(before) /\ pc \notin {"loop", "copy"}
      /\ calls > 1 /\ pc = "done" => ret = 1
      /\ pc = "done" => Refusable(buf)
  BY <1>2 DEF RefusedAgain
<1>4. /\ buf' = buf => (Refusable(buf)' <=> Refusable(buf))
      /\ before' = before => (Refusable(before)' <=> Refusable(before))
      /\ before' = buf => (Refusable(before)' <=> Refusable(buf))
  BY <1>1 DEF Refusable
<1>5. calls \in Nat /\ calls >= 1
  BY DumpAssumption, SMT DEF IndInv, TypeOK
<1>6. CASE BadMagic \/ NoBl31 \/ NoStub
  <2>1. Refusable(buf)
    BY <1>2, <1>6, FailRefusable
  <2>2. pc' = "done" /\ ret' = 1 /\ UNCHANGED <<before, buf, calls>>
    BY <1>6 DEF BadMagic, NoBl31, NoStub, Fail
  <2> QED
    BY <1>1, <1>3, <1>4, <2>1, <2>2
<1>7. CASE FindBl31
  <2>1. /\ pc' = "stub" /\ dump.magic /\ FirstBl31(dump, bl31')
        /\ UNCHANGED <<before, buf, calls>>
    BY <1>7 DEF FindBl31
  <2> QED
    BY <1>1, <1>3, <1>4, <2>1
<1>8. CASE FindStub
  <2>1. /\ pc = "stub" /\ pc' = "loop" /\ Strings(buf, Bl31) # {}
        /\ UNCHANGED <<before, buf, bl31, calls>>
    BY <1>8 DEF FindStub
  <2>2. buf = before /\ bl31 \in DOMAIN dump.toc
    BY <2>1 DEF IndInv
  <2>3. bl31 \in TocRange(dump) /\ ~ Refusable(before)
    BY <1>3, <2>1, <2>2 DEF Refusable, FirstBl31, Bl31
  <2>4. ~ calls > 1
    BY <1>3, <2>3
  <2> QED
    BY <1>1, <1>3, <2>1, <2>4
<1>9. CASE PatchSite
  <2>1. pc = "loop" /\ pc' = "loop" /\ UNCHANGED <<before, bl31, calls>>
    BY <1>9 DEF PatchSite
  <2> QED
    BY <1>1, <1>3, <2>1
<1>10. CASE LoopDone
  <2>1. pc = "loop" /\ pc' = "copy" /\ UNCHANGED <<before, bl31, calls>>
    BY <1>10 DEF LoopDone
  <2> QED
    BY <1>1, <1>3, <2>1
<1>11. CASE CopyStub
  <2>1. pc = "copy" /\ pc' = "done" /\ UNCHANGED <<before, bl31, calls>>
    BY <1>11 DEF CopyStub
  <2>2. calls = 1 /\ before = dump.bytes /\ FirstBl31(dump, bl31)
    BY <1>3, <1>5, <2>1
  <2>3. \A p, t \in Strings(before, Bl31) : p = t
    BY <1>2, <2>2 DEF OneMessage, FirstBl31, Bl31
  <2>4. Strings(buf', Bl31) = {}
    BY <1>11, <2>3, MessageLeftOver
  <2>5. Refusable(buf)'
    <3>1. \A i \in TocRange(dump) : FirstBl31(dump, i) => i = bl31
      BY <2>2, FirstBl31Unique DEF IndInv
    <3>2. \A i \in TocRange(dump) : FirstBl31(dump, i) => Strings(buf', Window(dump, i)) = {}
      BY <2>4, <3>1 DEF Bl31
    <3> QED
      BY <1>1, <3>2 DEF Refusable
  <2> QED
    BY <1>1, <2>1, <2>2, <2>5
<1>12. CASE CallAgain
  <2>1. pc = "done" /\ pc' = "magic" /\ before' = buf /\ buf' = buf /\ calls' = calls + 1
    BY <1>12 DEF CallAgain
  <2> QED
    BY <1>3, <1>4, <1>5, <2>1
<1>13. CASE UNCHANGED vars
  <2>1. UNCHANGED <<before, buf, pc, bl31, ret, calls>>
    BY <1>13 DEF vars
  <2> QED
    BY <1>1, <1>3, <1>4, <2>1
<1> QED
  BY <1>6, <1>7, <1>8, <1>9, <1>10, <1>11, <1>12, <1>13 DEF Next, Step, Over

(* patch_el3 applied to its own output refuses: when BL31 held one copy of *)
(* the message, every call after the first reports failure and leaves the  *)
(* buffer alone.                                                           *)
THEOREM PatchedOnce == Spec => []SecondCallRefused
<1>1. Init => RefusedAgain
  BY DEF Init, RefusedAgain
<1>2. IndInv /\ RefusedAgain => SecondCallRefused
  BY DEF IndInv, RefusedAgain, SecondCallRefused
<1> QED
  BY <1>1, <1>2, RefusedNext, IndInvHolds, PTL DEF Spec
=============================================================================
