------------------------------- MODULE Files -------------------------------
(***************************************************************************)
(* The files that readnor writes and patch_bl reads and writes.  A file is *)
(* the list of pieces it was written from: [src, at, from, len] stands for *)
(* len bytes at offset at of the file, which src has at offset from.       *)
(***************************************************************************)
EXTENDS Integers, Sequences

(* The size of a file: where its last piece ends.                          *)
Length(file) ==
    IF file = <<>> THEN 0 ELSE file[Len(file)].at + file[Len(file)].len

(* A write of len bytes behind the end of a file                           *)
Extend(file, src, from, len) ==
    Append(file, [src |-> src, at |-> Length(file), from |-> from, len |-> len])

(* Every piece lies at the offset it was taken from.                       *)
InPlace(file) == \A i \in DOMAIN file : file[i].from = file[i].at
=============================================================================
