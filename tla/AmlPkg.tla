------------------------------- MODULE AmlPkg -------------------------------
(***************************************************************************)
(* aml.c: the PkgLength of an AML package.  A package is an opcode, its    *)
(* length and its body; the length counts its own bytes, and their number  *)
(* depends on the length.  aml_node_size finds the number from the size of *)
(* the body, aml_node_serialize from the length: they must agree.          *)
(***************************************************************************)
EXTENDS Integers, Sequences

\* mutant: the length's own bytes are forgotten in the limits
PkgLengthSizeOfBody(body) ==
    IF body < 64 THEN 1
    ELSE IF body < 4096 THEN 2
    ELSE IF body < 1048576 THEN 3
    ELSE 4

(* aml_node_size: bytes taken by the PkgLength of a package with this body *)
PkgLengthSize(body) ==
    IF body < 63 THEN 1
    ELSE IF body < 4094 THEN 2
    ELSE IF body < 1048573 THEN 3
    ELSE 4

\* mutant: the second byte is shifted by a whole byte
PkgLengthShift8(len) ==
    IF len < 64 THEN <<len>>
    ELSE IF len < 4096 THEN <<64 + (len % 16), (len \div 256) % 256>>
    ELSE <<128 + (len % 16), (len \div 256) % 256, (len \div 65536) % 256>>

(* aml_node_serialize: the bytes of the PkgLength.  The first one holds    *)
(* the number of bytes that follow and, if there are any, the low 4 bits.  *)
PkgLength(len) ==
    IF len < 64 THEN <<len>>
    ELSE IF len < 4096 THEN <<64 + (len % 16), (len \div 16) % 256>>
    ELSE IF len < 1048576
         THEN <<128 + (len % 16), (len \div 16) % 256, (len \div 4096) % 256>>
    ELSE <<192 + (len % 16), (len \div 16) % 256, (len \div 4096) % 256,
           (len \div 1048576) % 256>>

(* How an AML interpreter reads a PkgLength.                               *)
FollowBytes(lead) == lead \div 64

DecodePkgLength(bytes) ==
    LET lead == bytes[1] IN
    IF FollowBytes(lead) = 0 THEN lead
    ELSE IF FollowBytes(lead) = 1 THEN (lead % 16) + 16 * bytes[2]
    ELSE IF FollowBytes(lead) = 2 THEN (lead % 16) + 16 * bytes[2] + 4096 * bytes[3]
    ELSE (lead % 16) + 16 * bytes[2] + 4096 * bytes[3] + 1048576 * bytes[4]
=============================================================================
