# packdude in TLA+

packdude is a package manager written in C: about 2,700 lines around SQLite
(the databases), libarchive (extraction) and libcurl (download). This directory
holds its models, the TLC configurations that check them on small instances, and
proofs, checked by TLAPS, that hold for every instance.

Line numbers below are those of the sources in `src/`. The program is built with
`-DNDEBUG` (Makefile), so its `assert`s are documentation, not behaviour.

## 1. The system

| component | state | operations | talks to | what is hard |
|---|---|---|---|---|
| manager core (`manager.c`, driven by `packdude.c`) | the installation stack, the call stack of `manager_fetch`; the packages table | `manager_fetch`, `manager_remove`, `manager_can_remove`, `manager_cleanup` | database, repository, file operations | recursion over a dependency graph it does not control, failures in the middle of it, kills, a SELECT that deletes what it iterates over |
| file operations (`package_ops.c`, `archive.c`) | the disk; the files table | `package_install`, `package_remove` | libarchive, database | two stores (disk and table) that cannot change together; shared paths; another program on the same disk |
| installation database (`database.c`) | one SQLite file with the two tables | create, insert, delete, select with a callback | SQLite | created in two steps, never repaired; DELETE inside an open SELECT |
| processes (`manager_new`, `manager_free`) | the lock file | lock, open, unlock | kernel | several processes, kills at every step |
| repository (`repo.c`, `fetch.c`) | the cached metadata database, one per URL | `repo_get_database`, `repo_get_package` | libcurl, the disk | a cache that is trusted for an hour, written in place |
| stack (`stack.c`) | a linked list | push, pop, contains | manager core | pops the last node of a singly linked list; its nodes point into strings that other frames of the recursion own |
| package format (`package.c`, `dudepack.c`, `dudeunpack.c`) | the package file | append a trailer, verify magic, version and CRC32, extract | manager core, publisher | files written in place, cut short and replaced while they are read; sizes at the boundary |
| repository generator (`repodude.c`) | a metadata database | CSV to rows | database | lines at the size of the buffer, what `strtok_r` takes for a field, partial output after a bad line |
| listing commands, log, option parsing | none | read and print | | |

How they interact: `main` calls `manager_new`, which takes the lock (and waits for
it), opens or creates the installation database and, when there is a repository,
opens its cached metadata database or downloads it. Then one command runs:

* `-i`: `manager_fetch` on the named package. It returns at once if the package is
  on the installation stack or installed; else it reads its metadata, pushes it,
  checks the architecture, downloads and verifies it, calls itself for each
  dependency, unpacks the files, inserts the row, and pops.
* `-r`: `manager_remove` asks `manager_can_remove` (not a core package, listed by no
  other installed package), removes the files and the row; then `manager_cleanup`
  visits all rows again and again, removing what was installed as a dependency and
  is not needed, until a pass removes nothing.

`manager_free` closes and unlocks. A process that is killed leaves the packages and
files tables and the disk as they are after the last SQL statement or system call;
each SQL statement commits on its own, and the kernel releases the lock.

### What makes it correct

* manager: the installed packages are closed under dependencies at every moment; no
  package is registered twice; core packages stay; only dependencies are cleaned
  up; a successful removal leaves nothing unneeded; every command ends.
* files: no file of a package on the disk that the table does not know; a
  successful removal leaves no file of the package, and no directory; an installation
  that is reported as done is complete; only registered paths are deleted.
* both together: what the packages table says is installed is on the disk, to the last
  byte, and nothing else, but for packages whose installation or removal was cut short; and
  no step of a command touches a file of a package that an installed one needs.
* processes: one at a time; tables are created once, and exist when they are used; the
  metadata database in use is a whole one, unless its last writer was killed or its
  transfer was cut short unnoticed; nobody waits for ever.
* memory: the list of packages in progress mirrors the recursion and points to live
  strings; every block has one owner, and no block is freed twice.
* packages: only what the publisher completed is accepted, whatever happened on the way,
  and what nothing happened to is not refused; the verification of a mapping decides as if it
  read the file at once.
* repository: the rows of the metadata database are the lines of the text.

## 2. The modules

| module | models | checked by |
|---|---|---|
| `InstalledSet` | the promise: what a command may do to the installed packages | implemented by `Manager` |
| `Manager` | `manager.c` 134-376 and 378-639, `stack.c` as a sequence, `packdude.c` 153-212 | `MCManager` + 3 configurations |
| `Requests` | `Manager` with a history variable: what the user was told is installed | `MCRequests` |
| `PackageOps` | `package_ops.c`, `archive.c`, the files table of `database.c` | `MCPackageOps` + 2 configurations |
| `Packdude` | one process from the command to the files: `Manager` and `PackageOps` composed | `MCPackdude` |
| `Session` | `manager_new`, `manager_free`, `database_open_write`, `repo_get_database`, `fetcher_fetch_to_file` | 2 configurations |
| `Memory` | `Manager`'s `manager_fetch` with its heap: `stack.c`, `_append_to_buffer`, the clean-up labels | `MCMemory` |
| `PackageFormat` | `package.h`, `package.c`, zlib's `crc32`, as operators | `MCDelivery` |
| `Delivery` | `dudepack.c`, `dudeunpack.c`, `repo_get_package`, `fetcher_fetch_to_memory` | `MCDelivery` |
| `Repodude` | `repodude.c`, `database_set_metadata` | `MCRepodude` |
| `ManagerProofs` | theorems about `Manager` | TLAPS |
| `PackdudeProofs` | theorems about `Packdude` | TLAPS |
| `SessionProofs` | theorems about `Session` | TLAPS |
| `FilesProofs` | theorems about `PackageOps` | TLAPS |
| `MemoryProofs` | theorems about `Memory` | TLAPS |
| `DeliveryProofs` | theorems about `Delivery`, and lemmas about `PackageFormat` | TLAPS |
| `RepodudeProofs` | theorems about `Repodude` | TLAPS |
| `Induction` | lemmas for the last three: the smallest counterexample, computations of n steps | TLAPS |

`Manager` is the middle: `InstalledSet` is above it, `Requests`, `Packdude` and `Memory` extend
it with what is beside or below it. `Packdude` takes `PackageOps` by `INSTANCE`, with the
packages table shared. `Session` treats a command as one step and says that commands do
not overlap, which is why the other modules have one process. `Delivery` is the inside of
`Manager`'s `Download` and `DownloadFails`; `Repodude` makes what `Manager` calls `avail`.

Definitions called "mutant" in a comment are plausible bugs of the code next to the
action they spoil. They are not part of any specification; each shows that a property
would notice the bug.

### InstalledSet

The promise without the way it is kept. `table` is the set of installed packages with what
each needs and its reason. An installation adds packages one at a time, each only when all
it needs is there, the one that was asked for last and with the reason it was asked for,
all others as dependencies. A removal takes the package it names, unless it is core or
needed, and then dependencies nobody needs; it may report success only when there are
none left. Every job may stop at any moment with what it has done. `Manager` maps to it by
`Table`, `Phase`, `cmd` and `status`; the stack, the recursion, the passes over the rows and
the steps between a check and the DELETE are all stuttering.

### Manager

`packages` is the packages table: a function from names to the dependency list and the
installation reason. `avail` is the metadata database opened by the process
(`manager->avail_packages`), chosen anew from `Catalogs` by each installation, because a
repository changes between runs. `calls` is the C call stack of `manager_fetch`: for
each frame the name, the reason, and the dependency `strtok_r` comes to next.
`inst_stack` is kept apart from it, as in the code; that the two agree is a property.
`pc` says which part of which function runs, and `ret` is what a returning
`manager_fetch` returns. `victim`, `cleaning`, `pending` and `removed` are the locals of
`_remove`, `manager_cleanup` and the SELECT it runs.

| code | actions |
|---|---|
| `manager_fetch` up to the push | `SkipFetch`, `RejectFetch`, `EnterFetch`, through `FetchRequested` (from `main`) or `InstallDependency` |
| architecture, download, verification | `Download`, `DownloadFails` |
| `manager_for_each_dependency` | `InstallDependency`, `ReturnToCaller`, `DependenciesDone`, `DependenciesUnreadable` |
| `package_install`, the INSERT | `Unpack`, `UnpackFails`, `Register`, `RegisterFails` |
| `pop_from_stack` and the return | `PopFromStack`, `ReturnToCaller`, `InstallEnds` |
| `manager_remove` | `RemoveRequested`, `RemoveRefused`, `RemoveSpins` |
| `_remove` | `Erase`, `Unregister`, `RemovalFails` |
| `_remove_unneeded`, one row | `KeepRow`, `RemoveRow`, `SpinOnRow` |
| `manager_cleanup` | `NextPass`, `CleanupEnds`, `CleanupFails` |

`DependsOn` and `SpinsOn` translate `_depends_on`, whose loop does not advance when a
package lists itself: the process then spins (`pc = "spin"`), and nothing but a kill
ends it. A SELECT returns rows in no promised order, so `pending` is a set. Failures are
grouped by what causes them (`Faults`); callers only compare with `RESULT_OK`, so
every error is `Failed`.

### Requests

Adds `wanted`, the packages the user asked for, was told are installed, and did not ask
to remove. It exists for one question, whether such packages can disappear.

### PackageOps

`owner` is the disk: whom the file or directory at each path comes from; `cut` the files
that were not written to their end; `files` the files table with its row identifiers;
`packages` the names in the packages table. One step is one SQL statement or one system
call that changes a file. The loop of `archive_extract` is `NextEntry` (and `SkipRoot`,
`RejectEntry`, `EndOfArchive`, `CorruptArchive`), `RegisterPath` (the callback),
`WriteHeader`, `CopyData`, each with its failures. `result` follows the C variable,
also where an error path leaves the value of an earlier call in it. `package_remove`
is `NextRow` (the SELECT in descending order), `Missing` or `Found` (`lstat`), `Erase`
or `KeepDirectory` (`unlink`, `rmdir`), `UnregisterPath`, `UnregisterPackage`. `Crash`
may come anywhere; `UserActs` lets the user create, replace and delete what is on the
disk while a package is being removed, and between commands. He is not modelled during
an extraction: what libarchive then does to a path that changes under it is not
packdude's code. `WriteHeader` and `HeaderFails` are modelled from the extraction options
that `archive.c` sets; that libarchive creates a file and then fails, or creates it and warns,
is left out of `HeaderFails`, which leaves the old file or none.

### Packdude

`Unpack` and `Erase` of `Manager` are single steps. Here `package_install` starts
(`BeginInstall`), extracts in the steps of `PackageOps!Extraction` while `Manager` waits at
`pc = "unpack"`, and returns (`InstallReturns`); `package_remove` likewise. The INSERT and
the DELETE on the packages table are one step of both modules. A kill stops both. Two
history variables, `origin` (the archive an installed package came from) and `halfway`
(packages whose files were begun on and not finished), serve the properties. Each action
conjoins a step of one module, or none, with a step of the other, or none, so what is proved of
either holds here by construction. What is worth asking is what neither part says alone:
`DiskMatchesTable` and `FilesMatchTable` compare the two stores over whole commands (the
first speaks of every path, the second of files alone, which need less: directories may be
shared, differ between editions and refuse to go), and `NeededFilesStay` says that the answer
of `manager_can_remove` in the one still holds at every file that the other deletes.

### Session

The processes of one prefix and one repository URL: `holder` is the lock, `inst` and
`cache` the two database files, `recent` whether the cache is younger than
`MAX_METADATA_CACHE_AGE`. `exists` is the local flag of `database_open_write`, kept apart
from what it was read from. The command itself is one step. `scars` is a history variable:
which of the two files somebody was stopped at while making it, and `"cut"` when the cache was
filled by a transfer that ended early and that nobody could tell from a whole one, so that the
properties can say which failure, and no other, leaves a half-made file in use. `Fill` is what
the one `write` of `fetcher_fetch_to_file` does: it stores what has arrived, all of it, a
part, or nothing, and `repo_get_database` looks at none of it.

### Memory

`heap` says what each block holds: metadata (`package_info_t`), a dependency list, a download
of some size, a node of the list. `head` is `manager->inst_stack`; a node's data is a pointer
to a token of a dependency list, as in the code, where `stack_push` stores the pointer that
`strtok_r` returned. `locals` are the locals of the active frames, `label` the clean-up label
of `manager_fetch` the innermost frame has reached. `fault` is the first misuse. `Malloc`
is a constant: which of the unused blocks `malloc` may return. The proofs hold for every
`Malloc`; the run takes the first one, which reuses a freed block at once, so that a stale
pointer meets somebody else's data.

### PackageFormat, Delivery

A byte is a set of bits and a 32-bit number a set of bit positions, so that CRC-32 is the
real one, bit by bit; `MCDelivery` checks its published check value, and that a checksum in
chunks is the checksum of the whole. Numbers in the trailer have the byte order of the
machine that wrote them. `Delivery` has one file. `dudepack` writes it in place, chunk by
chunk, and may fail, write short, or be killed; it may start over on a file that is being
read. The reader is either packdude, which receives the file in pieces that may be damaged
and may end early, or dudeunpack, which has the size from `stat` and reads through a
mapping: what was cut off reads as zeroes to the end of the page, and kills it beyond.
The mapping is live, and `package_verify` reads it one field after the other: `ReadMagic`,
`ReadVersion`, the checksum of the trailer (`ReadChecksum`, kept in `noted`) before or behind
the archive, as C leaves the order of the two operands open, the archive in pieces (`SumPiece`),
and `Compare`. `dudepack` may rewrite the file between any two of them, and between the pieces
that libarchive then reads (`Extract`). `archive_extract` may fail (`ExtractFails`), or report
success after a block it could not write or an entry it could not read or create (`Extract`,
`ExtractEnds`): entries are not told apart here, so the flaw `"torn"` says that a part of what
was read is missing on the disk. That it does not read what lies behind the end mark of the tar
archive is left out. `flaws` remembers what happened to the bytes under way (`"late"` is a
change of the file after its verification began), `whole` what was completed.

### Repodude

Texts are sequences of characters of which two mean something, the comma and the line
break; the rest, `Other`, is told apart only by the clashes. `ReadSize` is what one `fgets`
reads, with the buffer's size a constant; `Fields` is what `strtok_r` finds, which skips
empty fields: the `Pieces` of the line that start where a comma or nothing is in front of
another character. `Lines`, the pieces that start behind a line break, and `RowIn`, on the
property side, say what the text means without a buffer.

## 3. The runs

Passing runs:

| run | properties | instance |
|---|---|---|
| `manager` | `TypeOK`; the promise is kept (`ImplementsInstalledSet`); the installed set is closed under dependencies (`DependencyClosed`); cleanup is complete (`NothingUnneeded`); success means done (`SuccessMeansDone`) | 4 packages, two editions of an acyclic repository that move, drop and add edges and packages, one foreign architecture; failing downloads, files, INSERTs and DELETEs; kills (53,760 states) |
| `manager_faults` | the stack mirrors the recursion (`StackMatchesCalls`), no INSERT clashes (`InsertIsFresh`), `CoreIsKept`, `OnlyDependenciesAreCleaned`; every command ends unless a row lists itself (`OnlySelfDependencySpins`) | 4 packages in two overlapping cycles, or one that lists itself; all faults, memory included; a prefix other than `/`; `FairSpec` (456,412 states) |
| `package_ops` | `TypeOK`; the table knows every file (`OwnedFilesAreRegistered`); a removal leaves none (`RemovedFilesAreGone`) and touches registered paths only (`RemovesOnlyItsPaths`) | two packages that share a directory and a file, one with a malformed edition; 5 rows; everything may fail, silently or not; kills; the user (787,309 states) |
| `packdude` | the disk is what the packages table says (`DiskMatchesTable`); no step touches a file of a package that an installed one needs (`NeededFilesStay`) | two packages, one needs the other, a directory with a file in it, a file that is renamed between editions; 4 rows; failing INSERTs, DELETEs, reads and unlinks; kills (1,460,748 states) |
| `session` | `TypeOK`; mutual exclusion (`OneAtATime`), no action on stale sight (`TablesAreNew`), tables and metadata are there or a scar says why not (`TablesExist`, `CatalogIsWhole`), `NobodyWaitsForEver` | 3 processes that come back for ever, all faults, transfers that are cut short unnoticed among them, `FairSpec` (6,858 states) |
| `memory` | the list mirrors the recursion and points to live strings (`ListIsStack`); every block in use has one owner (`OneOwnerEach`); one failure alone frees twice (`OnlyAppendFreesTwice`) | 3 packages in a cycle, a foreign architecture; 14 blocks, downloads of up to 2 pieces; every fault an installation can meet, kills (35,710 states) |
| `delivery` | what `dudepack` reports as done is a package (`DoneIsPackage`); what is accepted or unpacked is an archive that was completed (`AcceptedIsWhole`, `UnpackedIsWhole`); damage is always noticed (`AcceptedAsPacked`); what nothing happened to is not refused (`RejectedIsFlawed`); the verification decides as if it read the file at once (`VerifiedAtOnce`) | archives of 0, 1 and 3 bytes, two versions, two byte orders, pieces of 2 and 7 bytes, pages of 8; all faults; two packings (664,859 states) |
| `repodude` | the rows are the lines (`RowsAreLines`); a well-formed text is converted (`WellFormedSucceeds`) | texts of up to two lines out of 12 kinds, with and without a last line break; a buffer of 15; two runs; all faults (71,877 states) |

Bounds. Packages, paths, processes and texts are small sets.

* Four packages are enough for a chain of three, a diamond, two cycles that share packages,
  and editions that move, drop and add edges (none reverses one); three processes for a holder, one that
  waits, and one that comes while both do.
* `MaxRows` bounds the row identifiers of the files table, in the guard of `Install`. In
  `package_ops` 5 rows allow a failed or killed installation of either package before a
  successful one, and both packages installed at once. In `packdude` 4 rows allow both
  packages at once, and one of them again after a failure; identifiers start over when
  the table is empty, so nothing stops when rows run out but that one installation.
* `MaxBlocks` is more than any state of `memory` uses (two blocks for a frame's metadata and
  node, one for its list, one for its download, three frames); `MaxChunks` lets a download
  fail before, between and after pieces.
* `MaxAttempts` bounds how often the publisher packs, and 2 lets a package change under the
  reader once in every way. `Pieces` splits the archive, the trailer and both; `Bits` turns one bit
  over in any one byte. A page of 8 bytes is crossed by an archive of 3 with its trailer
  of 9.
* `MaxLength` is 15 so that the shortest row fits with room to spare, one row just fits, one
  leaves its line break for the next read, and longer ones are cut, also where the
  remainder is a row of its own. `MaxRuns` is 2, because a run only sees what the one
  before it left.

In `silent_truncation`, `delivery` and `repodude` nothing can happen once a bound is used up,
so deadlock is not checked there (`CHECK_DEADLOCK FALSE`); it is everywhere else.

Why the hypotheses of the runs are there:

* `manager` has no memory faults, no failing queries and no cycles, because
  `DependencyClosed`, `NothingUnneeded` and the promise fail with one or the other (below).
* `packdude` has no `"write"`, `"header"` and `"corrupt"`, because `DiskMatchesTable` fails with
  each of them (below); its packages share no directory, and none refuses to go; and the user
  keeps off the disk, as what he deletes is not there. `FilesMatchTable`, which is proved, says
  what is left of the property when directories are shared and refuse to go.
* the archives of `delivery` do not contain the magic number. One that begins with a
  complete package could be cut at just that place and be taken for that package. They are
  also so short that CRC-32 tells any two of them apart for certain; with longer ones
  damage passes once in 2^32 times.

Runs that find a violation, each of a sentence in the repository's own text:

| run | what the code does |
|---|---|
| `self_dependency` | a package that lists itself makes `packdude -r` of another one spin for ever, holding the lock (`manager.c` 413) |
| `requests` | a package that came as a dependency and that the user then asked for is cleaned up (`manager.c` 260) |
| `silent_truncation` | a block that cannot be written ends the file and the installation succeeds (`archive.c` 54) |
| `init_crash` | a kill during the creation of the database leaves it without tables, for good (`database.c` 126) |

### Other behaviour met while modelling

These follow from the same modules, with other constants or hypotheses than the
runs have, or are the exceptions their properties name.

Packages and dependencies:

* Packages that need only each other are never cleaned up, though README:79 says that "all
  leftover dependencies are cleaned up automatically" (`manager.c` 523): with the cyclic
  catalog of `MCManager`, `NothingUnneeded` fails.
* A dependency cycle whose outer package failed leaves the inner one registered; the next
  `manager_fetch` finds it installed and reports success, with a dependency missing
  (`manager.c` 250-260). This is why `DependencyClosed` needs repositories without cycles.
* `-n -i` of a package that is installed already does not mark it as core
  (`manager_fetch` returns at `manager.c` 260, before the reason is written).
* When the `strdup` in `_depends_on` fails, the answer is "does not depend", and a package
  that is needed is removed (`manager.c` 407).
* A package whose removal was cut short keeps its row. Installing it again reports "already
  installed" and leaves it torn, and other packages may be installed on top of it
  (`manager.c` 254). These are the packages in `halfway` that `DiskMatchesTable` excepts.

Files:

* Removing a package deletes the rows of a directory it shares with another, which then
  stays on the disk after the second is removed (`database.c` 415).
* A directory that an earlier installation, which then stopped, registered again has its
  row out of order, and outlives its package.
* The row of a file the user deleted survives the removal of its package and is listed for
  the next edition (`package_ops.c` 59).
* A file with which the user replaced one of a package's is deleted with the package
  (`package_ops.c` 57-84): its path is registered, so `RemovesOnlyItsPaths` allows it.
* When `archive_write_header` or the next header fails, `archive_extract` returns what the
  previous call left in `result`, which may be `RESULT_OK` (`archive.c` 120-125, 153-156).

Repository and cache:

* A kill during the download leaves half a metadata cache, which is used for an hour
  (`fetch.c` 195, `repo.c` 82): the `"cache"` scar of `CatalogIsWhole`.
* A transfer of the metadata database that ends early, and of which libcurl cannot tell, is
  stored as it is and reported as success (`fetch.c` 181-200). The database has no checksum,
  so it is used for an hour too: the `"cut"` scar.
* The cache is opened without `O_TRUNC` (`fetch.c` 188): a shorter database keeps the tail of a
  longer one behind it, which SQLite does not look at. `Session` takes it for whole.
* `repodude` says "skip empty lines" (`repodude.c` 74), but tests the length before it strips the
  line break: an empty line has one field too few and ends the conversion.
* It ignores whether the old file was deleted (`repodude.c` 55), and then adds to the old rows;
  it takes a read error for the end of the text (`repodude.c` 67) and reports success.
* A line that does not fit in the buffer is cut, and its remainder read as a line of its
  own; one that fits without its break fails at the break. An empty field shifts the ones
  behind it, because `strtok_r` never returns an empty token.

Packages on their way:

* The checksum does not cover the version, so a package of another version with that byte
  damaged is accepted (`package.c` 65-74).
* The checksum is in the byte order of the machine that packed (`dudepack.c` 66-70): packages
  do not move between machines of different order, though the magic number does.
* `dudeunpack` maps as many bytes as `stat` reported (`dudeunpack.c` 40-51). When the file became
  shorter in between and its trailer is not yet written to the end, the zeroes behind the end
  of the file may be the missing bytes of the checksum, and the package verifies.
* `dudeunpack` verifies a mapping and then extracts from it: a file changed while it is verified
  or after that is extracted although nobody completed it, as `MAP_PRIVATE` does not keep the
  bytes; one cut short while mapped kills it (`dudeunpack.c` 51-79). This is the flaw `"late"`.
* `dudeunpack` exits with success when `archive_extract` has left out a part of the archive and did
  not tell (`dudeunpack.c` 79-87, `archive.c` 54, 120-125, 153-156): the flaw `"torn"`.
* A file that changed between `stat` and the verification, to another complete package of the same
  size, is accepted: it is a whole one, and `RejectedIsFlawed` says nothing of it.

Memory:

* When `realloc` fails in the middle of a download, the buffer is freed twice (`fetch.c` 99-101
  and 143-144). This is the one exception in `OnlyAppendFreesTwice`.
* `stack.h` calls the list a FIFO and says that `stack_pop` removes the first node; it removes
  the last, which is what `manager_fetch` needs.

### Fairness

`Manager!FairSpec` has weak fairness on the steps of the running command, taken together:
a process that runs keeps running, and each step is a finite computation or a call that
returns. Nobody has to start a command, and `Crash` is never required.
`Session!FairSpec` has weak fairness on the steps of each process that holds the lock, and
strong fairness on taking it: the kernel does not pass one waiting process over for
ever. That a command ends is assumed there; `OnlySelfDependencySpins` of `Manager` says
when it does, and `CommandsEnd` that a package that lists itself prevents it.

## 4. The proofs

All theorems hold for every value of the constants that satisfies the named assumptions
of the modules (`ConstantsAssumption`, `FilesAssumption`, `SessionAssumption`,
`MemoryAssumption`, `DeliveryAssumption`, `RepodudeAssumption`), which say no more than which sets the constants
belong to, and the hypotheses a theorem states itself. `tlapm` checks every leaf. The
inductive invariants stand at the head of the modules, or sections, that prove them; `FilesInv` is in
`PackageOps`, because `Packdude` keeps it as well.

**The installation stack** (`ManagerProofs`). `StackMatchesCalls` and `InsertIsFresh` hold in
every repository, with cycles, and under every failure. Neither is inductive alone:
the INSERT is fresh because a package being installed is on the stack and
`manager_fetch` does nothing for a package on the stack; that uses that stack and
frames agree, and types. `StackInv` is the conjunction with `FramesOK`, which says when
there are frames. The proof has a lemma for a call of `manager_fetch`, one for the end
of the process, one for steps that only move `pc`, and one case per remaining action.

**What may be removed** (`ManagerProofs`). `CoreIsKept` and `OnlyDependenciesAreCleaned` are
action properties about the single step that deletes a row. They follow from
`RemovalInv`: between the check and the DELETE the row of `victim` is what the check
saw, because only `Register` and `Unregister` change the table (`TableChanges`).

**Dependency closure** (`ManagerProofs`). `DependenciesAreInstalled`: in repositories without
cycles, as long as allocations succeed, every dependency of an installed package is
installed at every moment, including inside commands and after kills. The inductive
invariant `ClosureInv` adds that the call stack follows dependency edges and descends in
a ranking of the packages (`FramesDescend`), so a dependency is never on the stack when
it is asked for and "skipped" can only mean "installed"; that the dependencies a frame
is done with are installed (`FramesSettled`, `TopSettled`); that nobody needs `victim`
(`NobodyNeedsVictim`); and that no row lists itself, which is what makes
`MayRemove` mean that no row lists the package. Both hypotheses are needed, as the list in
section 3 shows. `MCManager` evaluates that the acyclic catalogs of the runs satisfy the
ranking hypothesis and the others do not.

**The promise** (`ManagerProofs`). `PromiseIsKept`: under the same hypotheses, and when
queries do not fail, `Manager` implements `InstalledSet`. Each action gets a lemma that it is one
step of the promise or none. What these need beyond `StackInv`, `RemovalInv` and `ClosureInv`
is `CommandInv` (the outermost frame is for the package the command names, all others
for dependencies, so that `Register` records the right reason) and `PassInv` (while a pass has
removed nothing, the rows it has visited are needed, so that the end of the cleanup finds
nothing left to remove). A query that fails makes the cleanup keep a row nobody needs,
which is why the hypothesis is there. `SuccessIsTrue` needs only that allocations succeed;
`DoneInv` says that the cleanup begins when the named package is gone.

**Nothing unneeded** (`ManagerProofs`). `NothingIsLeftOver` says more than that every dependency
left is listed by somebody: a set of packages that list each other in a circle would pass
that. `OrderedInv` excludes it: among any installed packages there is one that none of them
depends on. It is inductive because a package is installed when nobody can depend on it
yet, which `DependencyClosed` gives; and it holds although two editions of the repository
may each be without cycles and have one together. `LeftInv` carries what `PassInv` says at
the end of a cleanup, and `LeftAreNeeded` puts the two together without induction.

**The composition** (`PackdudeProofs`). By construction each step of `Packdude` is a step, or
none, of `Manager` and of `PackageOps` (the lemmas `ManagerIsImplemented` and
`FilesAreImplemented`), which brings every safety theorem about either to the process with its
files; `DependenciesStayInstalled` is stated as one such case. `NeededPackagesKeepTheirFiles`
needs both parts: `ClosureInv` says that nobody needs `victim`, `VictimInv` that
`package_remove` works on that package and no other until it is done, and `OriginInv` that the
row it is at names a path of an archive of that package, as the entry at hand in
`archive_extract` does of the package being installed, which has no row yet. Files that belong
to one package only (`Separate`) do the rest (`WorksOnOthers`). It holds also when libarchive
keeps its failures to itself, and of shared directories.

**Processes** (`SessionProofs`). `LockInv`: who works holds the lock, so what it read from the
disk is still true when it acts on it. `ProcessesTakeTurns` and `CreationIsNotRepeated`
hold for any number of processes and all failures. `MadeInv` adds that a half-made file
exists only while its maker works on it or because of a scar, of which the cache has two: a kill
in its write, and a transfer that was cut short unnoticed. It gives `TablesAreThere` and
`CatalogsAreWhole` under every failure and kill; a whole download, and a short write, which
deletes the file, end both scars, so that what the theorem excepts is no more than the hour
until the next one.

**Files** (`FilesProofs`). `FilesAreRegistered`, `RemovalIsComplete` and
`RemovalTouchesItsPathsOnly` hold for any packages, paths, archives and editions, under
every failure, kills at every step and a user at work. The table and the disk cannot
change in one step, and neither property is inductive: `TableInv` adds `OrderInv` (a row
is there before its file is written, and a file is gone before its row is deleted) and
`RowsInv` (identifiers are unique, and the rows a removal has visited name no file of the
package any more). `RowsInv` is what makes the descending SELECT meet every file
although its callback deletes rows: when no row is ahead of the cursor all have been
visited. The proof has a lemma for the installation, for the step to the next row, for
`_remove_file` and for the end of a removal. `TypeInv` comes first and says on which
package and path the process works.

**The disk and the table** (`PackdudeProofs`). `FilesAreAsTheTableSays` and
`DiskIsAsTheTableSays` relate the two stores over whole commands: of a package in the
packages table, unless it is in `halfway`, every path it brought is on the disk, whole and
listed; of one that is not in the table nothing is there. `FilesStayInStep` brings
`FilesInv`, the invariant of `PackageOps`, to the composition. On top of it `FileInv` has
`OriginInv` (which archive the process works on, and that no row names a path its package
has no archive for), `EndInv` (`archive_extract` says OK at the end of the archive) and `ExtractedInv` (what the loop of `archive_extract` went past is on
the disk and listed), which turns into the property when the row is inserted. The
hypotheses:

* `Separate`: no two packages bring the same file. Otherwise the second takes it over, and
  the removal of either deletes it.
* `Noticed`: libarchive reports its failures to `package_install`. With `"header"`,
  `"write"` or `"corrupt"` an installation that is torn succeeds (`silent_truncation`).

For directories, `DiskInv` needs more, and so does the theorem: a directory goes only when
it is empty, so the removal must meet what lies in it first. `OwnedInv`, `MetInv` and
`VisitInv` say that it does: a row of a path lies behind the one of its directory, and
`package_remove` visits them in descending order. This needs that directories are
shared by nobody, come before what they hold (`DirectoriesFirst`), that editions bring
the same ones (`SameDirectories`), and that `rmdir` fails for no other reason. `MCPackdude`
evaluates all these hypotheses for the archives of the run.

**Memory** (`MemoryProofs`). Each step of `Memory` is built on one of `Manager`, or on none, so
the theorems of the manager hold of the recursion with its heap. `ListHoldsTheStack`,
`BlocksHaveOneOwner` and `NothingElseIsFreedTwice` hold for every repository, depth of
recursion, failure and `Malloc`. The inductive invariant `MemoryInv` names the nodes of the
list: there is a sequence of distinct blocks, one per frame, linked in the order of the frames,
of which each points to the token of the caller's dependency list that names the frame's
package (`ListInv`). A walk of the list from `head` is then that sequence, which is shown by
the smallest number of nodes for which it is not. `Balanced` is double-entry bookkeeping:
`Held` says which block each local of each frame holds, and every block in use is in one
slot. Each call of `malloc`, `free`, `stack_push` and `stack_pop` is a change of
one slot and one block, and one lemma each says that the books stay balanced; `LocalsInv`
says which locals are set when, so that `free` is never called on what is freed already.
The depth is bounded by the number of packages, because the stack has no repetitions.
After a block was freed twice nothing is claimed but the list: what `malloc` hands out then
is no longer in the hands of one.

**Packages on their way** (`DeliveryProofs`). The first part is about CRC-32 itself, for byte
sequences of any length: one step loses nothing, because bit 31 of the result tells
whether the polynomial was taken in (`ShiftBitInjective`); so the checksum of two sequences
that differ in one byte differs (`CrcNoticesOneByte`), and a checksum in chunks is that of the
whole (`CrcOfChunks`). The second part is the trailer byte by byte: `PackageVerifies`, and
`DamageIsNoticed` for damage in the archive, the magic number, the version or the checksum.
The third is the protocol. `PackInv`: while `dudepack` reads, the file is what it has read
and `crc` its checksum; it gives `DoneMeansPackage`. `ReadInv`: what arrived is what
is in the file, but for one byte when there was damage; and while dudeunpack verifies or
extracts and nobody touches the file, the magic number, version, checksum and pieces it has
read so far are those of the mapping as it is (`VerifyInv`, `SteadyInv`), although no step
reads more than one of them. It gives `RejectedHasFlaw` (which also needs that a mapping
reaches to the end of the file, for every page size), `DamageIsRefused` and
`VerificationIsAtomic`: the verification, in any number of pieces and in either order, decides
as if it had read the file at once, unless the file changed after it began.

The fourth part is about whole archives. `WrittenInv` says that wherever `dudepack` was
stopped, the file is the front of one package, `Written`, and that it is all of it only
when the package was completed. A reader that verifies something has found the magic number
in it; if that is nowhere in a package but at its place, all of the archive is in front of
it, and the bytes behind it tell whether the trailer is whole. `CutIsRefused` and
`WholeIsUnpacked` are `AcceptedIsWhole`, without damage and rewriting, and
`UnpackedIsWhole`, under hypotheses on the archives that `MCDelivery` evaluates for those of the
run, and that are both needed:

* `MagicOnce`: the magic number is only at its place. A package that contains another and is
  cut behind it is taken for the other.
* `ChecksumsEnd`, for dudeunpack: the checksum of no archive ends in a zero byte. A mapping
  that reaches beyond the end of the file shows zeroes there, and so completes a trailer
  that lacks nothing else: with the archive of the one byte 38 TLC finds `UnpackedIsWhole`
  violated.

**Rows and lines** (`RepodudeProofs`). `RowsAreTheLines` and `WellFormedIsConverted` hold for
all texts, of any length and over any characters, every size of the buffer, any number of
runs, every failure and kills. The loop reads the text from the front, a buffer at a time; `Lines`
cuts it at all its breaks at once. The two are compared by a count: `LinesRead` is how many
lines start in the part of the text that is read. The lemmas before it are about sets
of positions and the pieces that start at them: the n-th of a set is the one up to which there are
n (`NthUnique`, `NthExists`), a piece ends (`PieceEnds`) and depends on nothing behind
its end (`PieceIn`). `LineIsRead` says what one `fgets` does when the loop is at the start
of a line that fits: what it reads is that line, with its break stripped, and afterwards the
loop is at the start of the next line or at the end of the text. That is also the heart of `RowsInv`,
the inductive invariant, with the fields at hand being those of the last line read. It has to carry
over what `RowsAreLines` leaves open while `pc = "insert"`. `WellFormedSucceeds` is
inductive only with it: a line ends the conversion when it has too few fields or clashes with a
row, and a row is known to be an earlier line. `TextInv` has the types and that `rest` is the
end of `text`.

**Induction** (`Induction`). The provers cannot instantiate the library's induction theorems,
which have an operator as a parameter. Where a proof needs induction over data, it takes
the smallest counterexample instead: every set of numbers that is not empty has a smallest one
(`Smallest`), from the well-foundedness of the order on numbers. `RunExists` uses it to show that
a computation of n steps can be carried out, and with it what the recursive functions in
`TakeByte` and `Crc32` compute.

Only model-checked:

* the liveness properties `OnlySelfDependencySpins`, `NobodyWaitsForEver` and `CommandsEnd`:
  liveness under fairness is outside what TLAPS proves;
* `AcceptedIsWhole` of a package that is damaged and cut, or whose file is rewritten while it
  is downloaded: it is then a mixture that only CRC-32 tells from an archive, and CRC-32 does
  not tell all archives apart. Damage alone is in `DamageIsRefused`.

## 5. Not modelled, and the plan

Not modelled:

* the listing commands (`manager.c` 640-792): they read and print under the lock and change
  nothing; the question `-c` asks of every row is `MayRemove` of `Manager`;
* option parsing, logging, the set-up and the options of libcurl (`fetcher_new`,
  `repo_open`): straight-line code whose failures end the process before it has done
  anything, `"open"` in `Session`;
* file attributes, links and the contents of archives, which are libarchive's; package versions
  (packdude has no upgrade); the `file_name` column of the installation database, whose
  UNIQUE constraint is one more way for the INSERT to fail, the fault `"insert"`;
* two `repodude` at once on one output, and a repository that replaces a package file
  between the download of its metadata and that of the package: `AcceptedIsWhole` says that what
  is installed is a package of the publisher, not that it is the one the metadata meant.

The plan, in order; all of it is done.

1. `Manager`: the recursion, the removal and the cleanup, with every failure.
2. `PackageOps`: the files, the table and the disk.
3. `Session`: the processes, half-made files and what becomes of them.
4. `InstalledSet`, and that `Manager` implements it.
5. `Packdude`: the process with its files, and what neither part says alone.
6. `Memory`: the linked list, the buffer and the blocks of the recursion.
7. `PackageFormat` and `Delivery`; `Repodude`.
8. Theorems: the stack, the removal, the closure, the promise, what is left, the
   composition, the lock, half-made files, the files.
9. More theorems: the disk and the table, the list and the heap, the checksum and the
   package on its way.
10. `RowsAreLines` and `WellFormedSucceeds` for every text; `AcceptedIsWhole` and
    `UnpackedIsWhole` for every archive for which they are true.
