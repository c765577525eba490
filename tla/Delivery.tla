------------------------------- MODULE Delivery -------------------------------
(***************************************************************************)
(* One package file on its way: dudepack writes it (dudepack.c), while     *)
(* packdude downloads it (repo_get_package, fetch.c) or dudeunpack maps it *)
(* (dudeunpack.c), and package_open and package_verify (package.c) decide. *)
(* The publisher writes the file in place, again and again, and may stop   *)
(* half-way; a transfer may end early or damage what it carries.           *)
(***************************************************************************)
EXTENDS PackageFormat

CONSTANTS
  Archives,     \* the archives that are packed
  Pieces,       \* bound: the sizes of what one read or one piece brings
  Bits,         \* bound: the bits of a byte that damage turns over
  Page,         \* the page size of mmap
  Version,      \* the version of the format the reader knows
  ReaderOrder,  \* the byte order of the reader's machine
  Machines,     \* the versions and byte orders that publishers write in
  Faults,       \* what may go wrong
  MaxAttempts   \* bound: how often the publisher packs

FaultKinds == {"read", "write", "kill", "network", "cut", "damage", "rewrite", "extract"}

ASSUME DeliveryAssumption ==
  /\ Archives \subseteq Seq(Byte) /\ Page \in Nat \ {0}
  /\ Pieces \subseteq Nat \ {0} /\ Bits \subseteq 0 .. 7
  /\ Version \in Byte /\ ReaderOrder \in Orders
  /\ Machines \subseteq [version : Byte, order : Orders]
  /\ Faults \subseteq FaultKinds /\ MaxAttempts \in Nat

VARIABLES
  file,      \* the bytes of the published file
  packing,   \* where dudepack is: idle, read or done
  source,    \* the archive dudepack was given
  left,      \* what of it was not read yet
  crc,       \* header.checksum so far
  attempts,  \* how often dudepack was started
  machine,   \* the publisher's: the version and the byte order it writes
  reading,   \* where the reader is, or how it ended
  buffer,    \* what packdude has received, or dudeunpack has read of the archive
  size,      \* the size dudeunpack got from stat
  noted,     \* the four bytes of the checksum it has read, or none
  flaws,     \* history: what happened to the bytes on their way
  whole      \* history: the packages that dudepack completed

packVars == <<packing, source, left, crc, attempts, machine>>
readVars == <<reading, buffer, size, noted, flaws>>
vars == <<file, packVars, readVars, whole>>

Init ==
  /\ file = <<>> /\ packing = "idle" /\ source = <<>> /\ left = <<>> /\ crc = {}
  /\ attempts = 0 /\ machine = [version |-> Version, order |-> ReaderOrder]
  /\ reading = "idle" /\ buffer = <<>> /\ size = 0 /\ noted = <<>> /\ flaws = {}
  /\ whole = {}

Least(m, n)   == IF m < n THEN m ELSE n
Drop(s, n)    == SubSeq(s, n + 1, Len(s))
Take(s, n)    == SubSeq(s, 1, n)

Sizes(n)      == {Least(k, n) : k \in IF n = 0 THEN {} ELSE Pieces}

Ended == {"idle", "accepted", "rejected", "unpacked", "failed", "killed"}

(***************************************************************************)
(* A change of the file is a flaw of the package that is being read, a     *)
(* late one when dudeunpack has begun to verify it.                        *)
(***************************************************************************)
Disturb ==
  \/ reading \in Ended /\ UNCHANGED flaws
  \/ /\ reading \notin Ended /\ "rewrite" \in Faults
     /\ flaws' = flaws \cup {IF reading \in {"version", "sum", "extract"} THEN "late"
                                                                          ELSE "rewrite"}

Completed ==
  [archive |-> source, version |-> machine.version, order |-> machine.order]

-----------------------------------------------------------------------------
(* dudepack ARCHIVE > FILE *)

PackBegins ==
  /\ packing # "read" /\ attempts < MaxAttempts /\ attempts' = attempts + 1
  /\ source' \in Archives /\ left' = source' /\ crc' = {}
  /\ machine' \in Machines
  /\ file' = <<>>
  /\ packing' = "read"
  /\ Disturb
  /\ UNCHANGED <<reading, buffer, size, noted, whole>>

(***************************************************************************)
(* read returns a part of what is left; the checksum takes the chunk in    *)
(* before it is written.                                                   *)
(***************************************************************************)
PackChunk ==
  /\ packing = "read"
  /\ \E n \in Sizes(Len(left)) :
       /\ crc' = Crc32(crc, Take(left, n))
       /\ file' = file \o Take(left, n)
       /\ left' = Drop(left, n)
  /\ Disturb
  /\ UNCHANGED <<packing, source, attempts, machine, reading, buffer, size, noted, whole>>

(* Mutant: a short write is not noticed. *)
PackFailsUnseen ==
  /\ packing = "read" /\ "write" \in Faults
  /\ \E n \in Sizes(Len(left)) : \E m \in 0 .. n - 1 :
       /\ crc' = Crc32(crc, Take(left, n))
       /\ file' = file \o Take(left, m)
       /\ left' = Drop(left, n)
  /\ Disturb
  /\ UNCHANGED <<packing, source, attempts, machine, reading, buffer, size, noted, whole>>

(***************************************************************************)
(* A read that fails; a write that fails or is short; a kill.              *)
(***************************************************************************)
PackFails ==
  /\ packing = "read"
  /\ \/ Faults \cap {"read", "kill"} # {} /\ UNCHANGED file
     \/ /\ Faults \cap {"write", "kill"} # {}
        /\ \E n \in Sizes(Len(left)) : \E m \in 0 .. n - 1 : file' = file \o Take(left, m)
  /\ packing' = "idle" /\ left' = <<>> /\ crc' = {}
  /\ Disturb
  /\ UNCHANGED <<source, attempts, machine, reading, buffer, size, noted, whole>>

(***************************************************************************)
(* The end of the input.  An empty archive is refused.                     *)
(***************************************************************************)
RefuseEmpty ==
  /\ packing = "read" /\ source = <<>>
  /\ packing' = "idle"
  /\ UNCHANGED <<file, source, left, crc, attempts, machine, readVars, whole>>

WriteHeader ==
  /\ packing = "read" /\ left = <<>> /\ source # <<>>
  /\ \E n \in 0 .. HeaderSize :
       /\ n = HeaderSize \/ Faults \cap {"write", "kill"} # {}
       /\ file' = file \o Take(Header(machine.version, crc, machine.order), n)
       /\ whole' = IF n = HeaderSize THEN whole \cup {Completed} ELSE whole
       /\ packing' = IF n = HeaderSize THEN "done" ELSE "idle"
  /\ left' = <<>> /\ crc' = {}
  /\ Disturb
  /\ UNCHANGED <<source, attempts, machine, reading, buffer, size, noted>>

-----------------------------------------------------------------------------
(* packdude: repo_get_package, package_open and package_verify *)

(***************************************************************************)
(* A package is fit when dudepack finished it on a machine and in a        *)
(* version like the reader's.                                              *)
(***************************************************************************)
Fit == packing = "done" /\ machine = [version |-> Version, order |-> ReaderOrder]

Begin(how) ==
  /\ reading = "idle"
  /\ reading' = how
  /\ buffer' = <<>>
  /\ flaws' = IF Fit THEN {} ELSE {"unfit"}
  /\ UNCHANGED <<file, packVars, whole>>

Stop ==
  /\ reading' = "idle" /\ buffer' = <<>> /\ size' = 0 /\ noted' = <<>> /\ flaws' = {}
  /\ UNCHANGED <<file, packVars, whole>>

FetchBegins == Begin("fetch") /\ UNCHANGED <<size, noted>>

(***************************************************************************)
(* A piece arrives, with one bit of it turned over at worst.               *)
(***************************************************************************)
Receive ==
  /\ reading = "fetch"
  /\ \E n \in Sizes(Len(file) - Len(buffer)) :
       LET piece == SubSeq(file, Len(buffer) + 1, Len(buffer) + n) IN
       \/ buffer' = buffer \o piece /\ UNCHANGED flaws
       \/ /\ "damage" \in Faults \ flaws
          /\ \E i \in 1 .. n, bit \in Bits :
               buffer' = buffer \o [piece EXCEPT ![i] = Xor(@, {bit})]
          /\ flaws' = flaws \cup {"damage"}
  /\ UNCHANGED <<file, packVars, reading, size, noted, whole>>

(***************************************************************************)
(* The transfer is over: all of the file has arrived, or the connection    *)
(* was closed early and nobody could tell.                                 *)
(***************************************************************************)
TransferEnds ==
  /\ reading = "fetch"
  /\ \/ Len(buffer) >= Len(file) /\ UNCHANGED flaws
     \/ "cut" \in Faults /\ Len(buffer) < Len(file) /\ flaws' = flaws \cup {"cut"}
  /\ reading' = "check"
  /\ UNCHANGED <<file, packVars, buffer, size, noted, whole>>

TransferFails ==
  /\ reading = "fetch" /\ "network" \in Faults
  /\ Stop

Check ==
  /\ reading = "check"
  /\ reading' = IF Opens(buffer) /\ Verifies(buffer, Version, ReaderOrder)
                THEN "accepted" ELSE "rejected"
  /\ UNCHANGED <<file, packVars, buffer, size, noted, flaws, whole>>

-----------------------------------------------------------------------------
(* dudeunpack PACKAGE DEST *)

UnpackBegins == Begin("map") /\ size' = Len(file) /\ UNCHANGED noted

(***************************************************************************)
(* The file as mapped: what was cut off it reads as zeroes up to the end   *)
(* of its last page, and cannot be read beyond.                            *)
(***************************************************************************)
Extent    == Page * ((Len(file) + Page - 1) \div Page)
Mapped(i) == IF i <= Len(file) THEN file[i] ELSE {}
Contents  == [i \in 1 .. size |-> Mapped(i)]

(***************************************************************************)
(* mmap refuses to map nothing, and package_open what is too small.        *)
(***************************************************************************)
MapFails ==
  /\ reading = "map" /\ ~ Opens(Contents)
  /\ reading' = "rejected"
  /\ UNCHANGED <<file, packVars, buffer, size, noted, flaws, whole>>

Opened == reading = "map" /\ Opens(Contents)

(***************************************************************************)
(* What the reader comes to after it has read the mapping up to byte n.    *)
(***************************************************************************)
After(n, next) == reading' = IF n <= Extent THEN next ELSE "killed"

(* Mutant: dudeunpack does not verify the package. *)
VerifyNothing ==
  /\ Opened
  /\ reading' = "extract" /\ flaws' = {}
  /\ UNCHANGED <<file, packVars, buffer, size, noted, whole>>

(***************************************************************************)
(* package_verify reads a mapping that may change under it: the magic      *)
(* number, the version, and then the archive for its checksum, with the    *)
(* checksum to compare it with before or behind, as the compiler likes.    *)
(***************************************************************************)
ReadMagic ==
  /\ Opened
  /\ After(size - 5, IF SubSeq(Trailer(Contents), 1, 4) = Magic THEN "version"
                                                                ELSE "rejected")
  /\ UNCHANGED <<file, packVars, buffer, size, noted, flaws, whole>>

(* Mutant: every version will do. *)
ReadAnyVersion ==
  /\ reading = "version"
  /\ After(size - 4, "sum")
  /\ UNCHANGED <<file, packVars, buffer, size, noted, flaws, whole>>

ReadVersion ==
  /\ reading = "version"
  /\ After(size - 4, IF Trailer(Contents)[5] = Version THEN "sum" ELSE "rejected")
  /\ UNCHANGED <<file, packVars, buffer, size, noted, flaws, whole>>

ArchiveSize == size - HeaderSize

ReadChecksum ==
  /\ reading = "sum" /\ noted = <<>>
  /\ Len(buffer) \in {0, ArchiveSize}
  /\ After(size, reading)
  /\ noted' = SubSeq(Trailer(Contents), 6, 9)
  /\ UNCHANGED <<file, packVars, buffer, size, flaws, whole>>

(***************************************************************************)
(* The archive in the mapping is read from the front, by crc32 and again   *)
(* by libarchive.                                                          *)
(***************************************************************************)
ReadPiece ==
  \E n \in Sizes(ArchiveSize - Len(buffer)) :
    /\ buffer' = buffer \o [i \in 1 .. n |-> Mapped(Len(buffer) + i)]
    /\ After(Len(buffer'), reading)

SumPiece ==
  /\ reading = "sum" /\ ReadPiece
  /\ UNCHANGED <<file, packVars, size, noted, flaws, whole>>

(***************************************************************************)
(* Once the package is verified only what happened since verification      *)
(* began counts as a flaw.                                                 *)
(***************************************************************************)
Compare ==
  /\ reading = "sum" /\ noted # <<>> /\ Len(buffer) = ArchiveSize
  /\ IF noted = Bytes(Crc32({}, buffer), ReaderOrder)
       THEN reading' = "extract" /\ flaws' = flaws \cap {"late"}
       ELSE reading' = "rejected" /\ UNCHANGED flaws
  /\ buffer' = <<>> /\ noted' = <<>>
  /\ UNCHANGED <<file, packVars, size, whole>>

(***************************************************************************)
(* A block that cannot be written ends its file; archive_extract goes on   *)
(* with the next, none the wiser.                                          *)
(***************************************************************************)
Extract ==
  /\ reading = "extract" /\ ReadPiece
  /\ \/ UNCHANGED flaws
     \/ "extract" \in Faults /\ flaws' = flaws \cup {"torn"}
  /\ UNCHANGED <<file, packVars, size, noted, whole>>

(***************************************************************************)
(* The end of the archive; or an entry that cannot be read or created,     *)
(* for which archive_extract may return the RESULT_OK of the last call     *)
(* that worked.                                                            *)
(***************************************************************************)
ExtractEnds ==
  /\ reading = "extract"
  /\ \/ Len(buffer) = ArchiveSize /\ UNCHANGED flaws
     \/ "extract" \in Faults /\ buffer # <<>> /\ flaws' = flaws \cup {"torn"}
  /\ reading' = "unpacked"
  /\ UNCHANGED <<file, packVars, buffer, size, noted, whole>>

(***************************************************************************)
(* chdir fails, or archive_extract and says so.                            *)
(***************************************************************************)
ExtractFails ==
  /\ reading = "extract" /\ "extract" \in Faults
  /\ reading' = "failed"
  /\ UNCHANGED <<file, packVars, buffer, size, noted, flaws, whole>>

ReadAgain ==
  /\ reading \in Ended \ {"idle"}
  /\ Stop

-----------------------------------------------------------------------------
Pack   == PackBegins \/ PackChunk \/ PackFails \/ RefuseEmpty \/ WriteHeader
Fetch  == FetchBegins \/ Receive \/ TransferEnds \/ TransferFails \/ Check
Unpack ==
  \/ UnpackBegins \/ MapFails \/ ReadMagic \/ ReadVersion \/ ReadChecksum \/ SumPiece
  \/ Compare \/ Extract \/ ExtractEnds \/ ExtractFails

Next == Pack \/ Fetch \/ Unpack \/ ReadAgain

Spec == Init /\ [][Next]_vars

-----------------------------------------------------------------------------
(* What the theorems about whole archives need of them *)

(***************************************************************************)
(* The magic number is nowhere in a package but at the start of its        *)
(* trailer.                                                                *)
(***************************************************************************)
MagicOnce ==
  \A a \in Archives, m \in Machines : \A n \in 0 .. Len(a) + 5 :
    (\A i \in 1 .. 4 : Package(a, m.version, m.order)[n + i] = Magic[i]) => n = Len(a)

(***************************************************************************)
(* The last byte of a trailer is not one that is also read where the file  *)
(* has ended.                                                              *)
(***************************************************************************)
ChecksumsEnd ==
  \A a \in Archives \ {<<>>} : Bytes(Crc32({}, a), ReaderOrder)[4] # {}

-----------------------------------------------------------------------------
(***************************************************************************)
(* What dudepack reports as done is on disk: the archive and a header with *)
(* the checksum of all of it, however the input came in chunks             *)
(* (dudepack.c).                                                           *)
(***************************************************************************)
DoneIsPackage ==
  packing = "done" => file = Package(source, machine.version, machine.order)

(***************************************************************************)
(* packdude installs from nothing but an archive that dudepack completed:  *)
(* not from one that was half written, cut short, damaged or mixed with    *)
(* another on its way.  Its version was the reader's, unless the bytes     *)
(* changed: the checksum does not cover it (package_open, package_verify). *)
(***************************************************************************)
AcceptedIsWhole ==
  reading = "accepted" =>
    \E w \in whole :
      /\ Opens(buffer) /\ Archive(buffer) = w.archive
      /\ flaws \cap {"damage", "rewrite"} = {} =>
           w.version = Version /\ buffer = Package(w.archive, w.version, w.order)

(***************************************************************************)
(* A package whose transfer was not cut short and whose file was not       *)
(* touched meanwhile is accepted only as dudepack wrote it: a byte that    *)
(* was damaged is always noticed, in the archive or in the trailer         *)
(* (package_open, package_verify).                                         *)
(***************************************************************************)
AcceptedAsPacked ==
  reading = "accepted" /\ flaws \subseteq {"damage"} =>
    \E w \in whole : /\ w.version = Version /\ w.order = ReaderOrder
                     /\ buffer = Package(w.archive, w.version, w.order)

(***************************************************************************)
(* A package that was complete when the transfer or dudeunpack began and   *)
(* to which nothing happened since is not rejected, whatever the pieces it *)
(* came in (_append_to_buffer, package_verify).                            *)
(***************************************************************************)
RejectedIsFlawed == reading \in {"rejected", "killed"} => flaws # {}

(***************************************************************************)
(* dudeunpack reports success for nothing but an archive that dudepack     *)
(* completed, unless the file was changed after its verification began: a  *)
(* file replaced between stat and the verification is noticed.  It has     *)
(* then read all of the archive and written what it read, but for an       *)
(* entry or a block that could not be read or written, of which            *)
(* archive_extract did not tell (dudeunpack.c).                            *)
(***************************************************************************)
UnpackedIsWhole ==
  reading = "unpacked" /\ "late" \notin flaws =>
    \E w \in whole : \E n \in 0 .. Len(w.archive) :
      buffer = Take(w.archive, n) /\ ("torn" \notin flaws => n = Len(w.archive))

(***************************************************************************)
(* The verification decides as if it had read the file at once: unless the *)
(* file changes after it began, the magic number, version, checksum and    *)
(* archive it reads one after the other, in whatever pieces and whether    *)
(* the checksum comes first or last, are those of one state of the         *)
(* mapping, the zeroes behind the end of a shorter file included           *)
(* (package_verify, dudeunpack.c).                                         *)
(***************************************************************************)
VerifiedAtOnce ==
  [][reading' # reading /\ reading' \in {"extract", "rejected"} /\ "late" \notin flaws
       /\ reading # "check" /\ Opens(Contents) =>
     (reading' = "extract" <=> Verifies(Contents, Version, ReaderOrder))]_vars
==============================================================================
