---------------------------- MODULE PackageFormat ----------------------------
(***************************************************************************)
(* The format of a package (package.h): an archive followed by a trailer   *)
(* of nine bytes, which package.c calls the header: a magic number, the    *)
(* version of the format and the CRC-32 of the archive.  The numbers are   *)
(* written as the machine holds them (dudepack.c) and read back through a  *)
(* pointer (package.c).                                                    *)
(*                                                                         *)
(* A byte is the set of its bits that are one, a subset of 0 .. 7, and a   *)
(* 32-bit number a subset of 0 .. 31; the exclusive or of two numbers is   *)
(* then the symmetric difference.                                          *)
(***************************************************************************)
EXTENDS Integers, Sequences

Byte   == SUBSET (0 .. 7)
Word   == SUBSET (0 .. 31)
Orders == {"little", "big"}

Xor(a, b) == (a \ b) \cup (b \ a)
Not(w)    == (0 .. 31) \ w

-----------------------------------------------------------------------------
(* crc32 of zlib *)

Polynomial == {5, 8, 9, 15, 19, 20, 21, 23, 24, 26, 27, 29, 30, 31}  \* 0xEDB88320

ShiftRight(w) == {i - 1 : i \in w \ {0}}

ShiftBit(w) == IF 0 \in w THEN Xor(Polynomial, ShiftRight(w)) ELSE ShiftRight(w)

TakeByte(w, byte) ==
  LET shifted[n \in 0 .. 8] == IF n = 0 THEN Xor(w, byte) ELSE ShiftBit(shifted[n - 1])
  IN shifted[8]

(***************************************************************************)
(* crc32(crc, bytes): the checksum of what crc is the checksum of,         *)
(* followed by bytes.  That of nothing is 0.                               *)
(***************************************************************************)
Crc32(crc, bytes) ==
  LET after[n \in 0 .. Len(bytes)] ==
        IF n = 0 THEN Not(crc) ELSE TakeByte(after[n - 1], bytes[n])
  IN Not(after[Len(bytes)])

-----------------------------------------------------------------------------
(* package_header_t *)

HeaderSize == 9

ByteOf(w, k) == {i - 8 * k : i \in w \cap (8 * k .. 8 * k + 7)}

(***************************************************************************)
(* The four bytes of a number in memory.                                   *)
(***************************************************************************)
Bytes(w, order) ==
  [i \in 1 .. 4 |-> ByteOf(w, IF order = "little" THEN i - 1 ELSE 4 - i)]

(***************************************************************************)
(* ntohl makes MAGIC the number whose bytes are "edud" on every machine.   *)
(***************************************************************************)
Magic == <<{0, 2, 5, 6}, {2, 5, 6}, {0, 2, 4, 5, 6}, {2, 5, 6}>>  \* 0x65647564

(* Mutant: the checksum is converted to the order of the network, here only. *)
HeaderConverted(version, checksum, order) ==
  Magic \o <<version>> \o Bytes(checksum, "big")

Header(version, checksum, order) == Magic \o <<version>> \o Bytes(checksum, order)

Package(archive, version, order) ==
  archive \o Header(version, Crc32({}, archive), order)

-----------------------------------------------------------------------------
(* package_open and package_verify, on a machine of this order that runs a *)
(* program of this version *)

Opens(contents) == Len(contents) > HeaderSize

Archive(contents) == SubSeq(contents, 1, Len(contents) - HeaderSize)
Trailer(contents) == SubSeq(contents, Len(contents) - HeaderSize + 1, Len(contents))

(* Mutant: the checksum is not compared. *)
VerifiesMagic(contents, version, order) ==
  SubSeq(Trailer(contents), 1, 5) = Magic \o <<version>>

Verifies(contents, version, order) ==
  /\ SubSeq(Trailer(contents), 1, 4) = Magic
  /\ Trailer(contents)[5] = version
  /\ SubSeq(Trailer(contents), 6, 9) = Bytes(Crc32({}, Archive(contents)), order)
=============================================================================
