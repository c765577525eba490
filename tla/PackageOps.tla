----------------------------- MODULE PackageOps -----------------------------
(***************************************************************************)
(* The files of packages: package_install and package_remove               *)
(* (package_ops.c), archive_extract (archive.c) and the files table of the *)
(* installation database (database.c).  One process works at a time; it    *)
(* may be killed between any two steps.  SQLite commits each statement,    *)
(* also a DELETE run from the callback of a SELECT that is still open, so  *)
(* the table and the disk survive and the rest is lost.                    *)
(*                                                                         *)
(* A step is one SQL statement or one system call that changes a file.     *)
(***************************************************************************)
EXTENDS Integers, Sequences, FiniteSets

CONSTANTS
  Package,       \* package names
  Path,          \* paths inside the installation prefix
  Dir,           \* the paths that are directories
  Above,         \* the directories that each path lies in
  RootDir,       \* the archive entry "./"
  AbsolutePath,  \* an archive entry that does not begin with "./"
  Archives,      \* the archives each package is published as, over time
  Nobody,        \* the owner of a path that does not exist
  User,          \* the owner of what the user put there
  Environment,   \* what may go wrong, and whether the user is there
  MaxRows        \* the bound on the identifiers of the files table

Events == {"insert", "delete", "corrupt", "header", "read", "write",
           "unlink", "readonly", "crash", "user"}

ASSUME FilesAssumption ==
  /\ Dir \subseteq Path
  /\ Above \in [Path -> SUBSET Dir] /\ \A d \in Dir : d \notin Above[d]
  /\ RootDir \notin Path /\ AbsolutePath \notin Path
  /\ Archives \in [Package -> SUBSET Seq(Path \cup {RootDir, AbsolutePath})]
  /\ Nobody \notin Package /\ User \notin Package /\ Nobody # User
  /\ Environment \subseteq Events
  /\ MaxRows \in Nat

OK     == "OK"
Failed == "FAILED"

File == Path \ Dir

VARIABLES
  owner,     \* who the file or directory at each path comes from
  cut,       \* the files that were not written to their end
  files,     \* the files table
  packages,  \* the names in the packages table
  op,        \* "install", "remove" or "none"
  name,      \* the package being installed or removed
  archive,   \* the archive being extracted
  pc,        \* where the process is
  entry,     \* the archive entry being read
  cursor,    \* the id the open SELECT on the files table is at
  path,      \* the path at hand
  result,    \* archive_extract's result so far
  last       \* how the last operation ended

tableVars == <<files, packages>>
diskVars  == <<owner, cut>>
jobVars   == <<op, name, archive>>
vars == <<owner, cut, files, packages, op, name, archive, pc, entry, cursor,
          path, result, last>>

Exists(p)    == owner[p] # Nobody
Holds(d)     == {p \in Path : d \in Above[p] /\ Exists(p)}
RowsOf(pkg)  == {r \in files : r.package = pkg}

Init ==
  /\ owner = [p \in Path |-> Nobody] /\ cut = {}
  /\ files = {} /\ packages = {}
  /\ op = "none" /\ name = Nobody /\ archive = <<>>
  /\ pc = "idle" /\ entry = 1 /\ cursor = 0 /\ path = RootDir
  /\ result = OK /\ last = "none"

End(how) ==
  /\ pc' = "idle" /\ last' = how
  /\ entry' = 1 /\ cursor' = 0 /\ path' = RootDir /\ result' = OK
  /\ UNCHANGED <<diskVars, jobVars>>

-----------------------------------------------------------------------------
(* package_install *)

(***************************************************************************)
(* SQLite gives a new row an id above all others: the largest, plus one.   *)
(***************************************************************************)
IsNextId(n) ==
  /\ \A r \in files : r.id < n
  /\ n = 1 \/ \E r \in files : r.id = n - 1

Install(pkg, contents) ==
  /\ pc = "idle"
  /\ pkg \notin packages
  /\ contents \in Archives[pkg]
  /\ \E n \in 1 .. MaxRows : IsNextId(n) /\ n + Len(contents) <= MaxRows + 1
  /\ op' = "install" /\ name' = pkg /\ archive' = contents
  /\ pc' = "header" /\ entry' = 1 /\ result' = Failed
  /\ UNCHANGED <<tableVars, diskVars, cursor, path, last>>

(***************************************************************************)
(* archive_read_next_header: an entry, the end, or a corrupt archive, and  *)
(* then the result is what the entry before this one left.                 *)
(***************************************************************************)
NextEntry ==
  /\ pc = "header"
  /\ entry <= Len(archive) /\ archive[entry] \in Path
  /\ path' = archive[entry]
  /\ pc' = "register"
  /\ UNCHANGED <<tableVars, diskVars, jobVars, entry, cursor, result, last>>

SkipRoot ==
  /\ pc = "header"
  /\ entry <= Len(archive) /\ archive[entry] = RootDir
  /\ entry' = entry + 1
  /\ UNCHANGED <<tableVars, diskVars, jobVars, pc, cursor, path, result, last>>

RejectEntry ==
  /\ pc = "header"
  /\ entry <= Len(archive) /\ archive[entry] = AbsolutePath
  /\ result' = Failed /\ pc' = "extracted"
  /\ UNCHANGED <<tableVars, diskVars, jobVars, entry, cursor, path, last>>

EndOfArchive ==
  /\ pc = "header"
  /\ entry > Len(archive)
  /\ result' = OK /\ pc' = "extracted"
  /\ UNCHANGED <<tableVars, diskVars, jobVars, entry, cursor, path, last>>

CorruptArchive ==
  /\ pc = "header"
  /\ "corrupt" \in Environment
  /\ pc' = "extracted"
  /\ UNCHANGED <<tableVars, diskVars, jobVars, entry, cursor, path, result, last>>

(***************************************************************************)
(* _register_file: the row is there before the file is.                    *)
(***************************************************************************)
RegisterPath ==
  /\ pc = "register"
  /\ \E n \in 1 .. MaxRows :
       /\ IsNextId(n)
       /\ files' = files \cup {[package |-> name, path |-> path, id |-> n]}
  /\ result' = OK /\ pc' = "extract"
  /\ UNCHANGED <<packages, diskVars, jobVars, entry, cursor, path, last>>

(* Mutant: the result of the callback is dropped. *)
RegisterPathUnseen ==
  /\ pc = "register"
  /\ "insert" \in Environment
  /\ result' = OK /\ pc' = "extract"
  /\ UNCHANGED <<tableVars, diskVars, jobVars, entry, cursor, path, last>>

RegisterPathFails ==
  /\ pc = "register"
  /\ "insert" \in Environment
  /\ result' = Failed /\ pc' = "extracted"
  /\ UNCHANGED <<tableVars, diskVars, jobVars, entry, cursor, path, last>>

(***************************************************************************)
(* archive_write_header: libarchive makes the directories above that are   *)
(* missing, leaves a directory that exists, and replaces a file that       *)
(* exists by an empty one.                                                 *)
(***************************************************************************)
Created(p) == p = path \/ p \in Above[path]

(* Mutant: a directory, too, waits for its contents. *)
WriteHeaderOfAny ==
  /\ pc = "extract"
  /\ owner' = [p \in Path |->
                 IF Created(p) /\ (~Exists(p) \/ p \in File) THEN name ELSE owner[p]]
  /\ cut' = cut \cup {path}
  /\ pc' = "data"
  /\ UNCHANGED <<tableVars, jobVars, entry, cursor, path, result, last>>

WriteHeader ==
  /\ pc = "extract"
  /\ owner' = [p \in Path |->
                 IF Created(p) /\ (~Exists(p) \/ p \in File) THEN name ELSE owner[p]]
  /\ cut' = cut \cup ({path} \cap File)
  /\ pc' = "data"
  /\ UNCHANGED <<tableVars, jobVars, entry, cursor, path, result, last>>

(***************************************************************************)
(* It may fail after it removed the old file.  The loop breaks, and        *)
(* archive_extract returns what the callback had returned.                 *)
(***************************************************************************)
HeaderFails ==
  /\ pc = "extract"
  /\ "header" \in Environment
  /\ \/ UNCHANGED diskVars
     \/ /\ path \in File
        /\ owner' = [owner EXCEPT ![path] = Nobody] /\ cut' = cut \ {path}
  /\ pc' = "extracted"
  /\ UNCHANGED <<tableVars, jobVars, entry, cursor, path, result, last>>

(***************************************************************************)
(* _extract_file: all blocks; some, when one cannot be written, and the    *)
(* result is still RESULT_OK; some, when one cannot be read.               *)
(***************************************************************************)
CopyData ==
  /\ pc = "data"
  /\ cut' = cut \ {path}
  /\ result' = OK /\ entry' = entry + 1 /\ pc' = "header"
  /\ UNCHANGED <<tableVars, owner, jobVars, cursor, path, last>>

WriteFails ==
  /\ pc = "data" /\ path \in File
  /\ "write" \in Environment
  /\ result' = OK /\ entry' = entry + 1 /\ pc' = "header"
  /\ UNCHANGED <<tableVars, diskVars, jobVars, cursor, path, last>>

ReadFails ==
  /\ pc = "data" /\ path \in File
  /\ "read" \in Environment
  /\ result' = Failed /\ pc' = "extracted"
  /\ UNCHANGED <<tableVars, diskVars, jobVars, entry, cursor, path, last>>

(***************************************************************************)
(* manager_fetch then adds the row of the packages table.                  *)
(***************************************************************************)
RegisterPackage ==
  /\ pc = "extracted" /\ result = OK
  /\ packages' = packages \cup {name}
  /\ End("success")
  /\ UNCHANGED files

InstallFails ==
  /\ pc = "extracted"
  /\ result = Failed \/ "insert" \in Environment
  /\ End("failure")
  /\ UNCHANGED tableVars

-----------------------------------------------------------------------------
(* package_remove *)

Remove(pkg) ==
  /\ pc = "idle"
  /\ pkg \in packages
  /\ op' = "remove" /\ name' = pkg
  /\ pc' = "rows" /\ cursor' = MaxRows + 1
  /\ UNCHANGED <<tableVars, diskVars, archive, entry, path, result, last>>

(***************************************************************************)
(* SELECT ... WHERE package = name ORDER BY id DESC, while the callback    *)
(* deletes rows: the next row is the one with the largest id below.        *)
(***************************************************************************)
Ahead == {r \in RowsOf(name) : r.id < cursor}

(* Mutant: the files come in the order they were installed in. *)
NextRowAscending ==
  /\ pc = "rows"
  /\ LET last_id == IF cursor = MaxRows + 1 THEN 0 ELSE cursor
         ahead == {r \in RowsOf(name) : r.id > last_id}
     IN \E r \in ahead :
          /\ \A other \in ahead : other.id >= r.id
          /\ cursor' = r.id /\ path' = r.path
  /\ pc' = "lstat"
  /\ UNCHANGED <<tableVars, diskVars, jobVars, entry, result, last>>

(* Mutant: the SELECT does not ask for the package. *)
NextRowOfAnyPackage ==
  /\ pc = "rows"
  /\ \E r \in files :
       /\ r.id < cursor
       /\ \A other \in files : other.id < cursor => other.id <= r.id
       /\ cursor' = r.id /\ path' = r.path
  /\ pc' = "lstat"
  /\ UNCHANGED <<tableVars, diskVars, jobVars, entry, result, last>>

NextRow ==
  /\ pc = "rows"
  /\ \E r \in Ahead :
       /\ \A other \in Ahead : other.id <= r.id
       /\ cursor' = r.id /\ path' = r.path
  /\ pc' = "lstat"
  /\ UNCHANGED <<tableVars, diskVars, jobVars, entry, result, last>>

(***************************************************************************)
(* _remove_file: lstat, then unlink or rmdir, then the DELETE.  A missing  *)
(* file is fine, and its row stays.                                        *)
(***************************************************************************)
Missing ==
  /\ pc = "lstat"
  /\ ~Exists(path)
  /\ pc' = "rows"
  /\ UNCHANGED <<tableVars, diskVars, jobVars, entry, cursor, path, result, last>>

Found ==
  /\ pc = "lstat"
  /\ Exists(path)
  /\ pc' = "erase"
  /\ UNCHANGED <<tableVars, diskVars, jobVars, entry, cursor, path, result, last>>

Erase ==
  /\ pc = "erase"
  /\ Exists(path) /\ Holds(path) = {}
  /\ owner' = [owner EXCEPT ![path] = Nobody] /\ cut' = cut \ {path}
  /\ pc' = "unregister"
  /\ UNCHANGED <<tableVars, jobVars, entry, cursor, path, result, last>>

KeepDirectory ==
  /\ pc = "erase"
  /\ path \in Dir /\ Exists(path)
  /\ Holds(path) # {} \/ "readonly" \in Environment
  /\ pc' = "unregister"
  /\ UNCHANGED <<tableVars, diskVars, jobVars, entry, cursor, path, result, last>>

(***************************************************************************)
(* DELETE ... WHERE path = ...: the rows of other packages too.            *)
(***************************************************************************)
UnregisterPath ==
  /\ pc = "unregister"
  /\ files' = {r \in files : r.path # path}
  /\ pc' = "rows"
  /\ UNCHANGED <<packages, diskVars, jobVars, entry, cursor, path, result, last>>

(* Mutant: _remove_file goes on when unlink fails. *)
RemovalFailsUnseen ==
  \/ /\ pc = "erase" /\ ("unlink" \in Environment \/ ~Exists(path))
     /\ pc' = "unregister"
     /\ UNCHANGED <<tableVars, diskVars, jobVars, entry, cursor, path, result, last>>
  \/ /\ \/ pc = "lstat" /\ "unlink" \in Environment
        \/ pc = "unregister" /\ "delete" \in Environment
        \/ pc = "rows" /\ "delete" \in Environment
     /\ End("failure")
     /\ UNCHANGED tableVars

(***************************************************************************)
(* An error of any of these aborts the SELECT and leaves the package       *)
(* registered.  unlink fails also when the file went away after lstat.     *)
(***************************************************************************)
RemovalFails ==
  /\ \/ pc = "lstat" /\ "unlink" \in Environment
     \/ pc = "erase" /\ ("unlink" \in Environment \/ ~Exists(path))
     \/ pc = "unregister" /\ "delete" \in Environment
     \/ pc = "rows" /\ "delete" \in Environment
  /\ End("failure")
  /\ UNCHANGED tableVars

UnregisterPackage ==
  /\ pc = "rows"
  /\ Ahead = {}
  /\ packages' = packages \ {name}
  /\ End("success")
  /\ UNCHANGED files

-----------------------------------------------------------------------------
Crash ==
  /\ pc # "idle"
  /\ "crash" \in Environment
  /\ End("killed")
  /\ UNCHANGED tableVars

(***************************************************************************)
(* The user works on the same disk, except while an archive is extracted:  *)
(* creates or replaces what is not a directory with contents, or deletes.  *)
(***************************************************************************)
UserActs(p) ==
  /\ "user" \in Environment
  /\ pc = "idle" \/ op = "remove"
  /\ Holds(p) = {}
  /\ \A d \in Above[p] : Exists(d)
  /\ \E who \in {User, Nobody} \ {owner[p]} : owner' = [owner EXCEPT ![p] = who]
  /\ cut' = cut \ {p}
  /\ UNCHANGED <<tableVars, jobVars, pc, entry, cursor, path, result, last>>

(***************************************************************************)
(* archive_extract, and the loop of package_remove over the files table.   *)
(***************************************************************************)
Extraction ==
  \/ NextEntry \/ SkipRoot \/ RejectEntry \/ EndOfArchive \/ CorruptArchive
  \/ RegisterPath \/ RegisterPathFails \/ WriteHeader \/ HeaderFails
  \/ CopyData \/ WriteFails \/ ReadFails

Deletion == NextRow \/ Missing \/ Found \/ Erase \/ KeepDirectory \/ UnregisterPath

InstallStep == Extraction \/ RegisterPackage \/ InstallFails

RemoveStep == Deletion \/ RemovalFails \/ UnregisterPackage

Next ==
  \/ \E pkg \in Package :
       Remove(pkg) \/ \E contents \in Archives[pkg] : Install(pkg, contents)
  \/ InstallStep \/ RemoveStep \/ Crash
  \/ \E p \in Path : UserActs(p)

Spec == Init /\ [][Next]_vars

-----------------------------------------------------------------------------
(* Properties *)

Control == {"idle", "header", "register", "extract", "data", "extracted",
            "rows", "lstat", "erase", "unregister"}

FileRow == [package : Package, path : Path, id : 1 .. MaxRows]

TypeOK ==
  /\ owner \in [Path -> Package \cup {Nobody, User}]
  /\ cut \subseteq File
  /\ files \subseteq FileRow
  /\ packages \subseteq Package
  /\ op \in {"none", "install", "remove"}
  /\ name \in Package \cup {Nobody}
  /\ archive \in Seq(Path \cup {RootDir, AbsolutePath})
  /\ pc \in Control
  /\ entry \in Nat \ {0}
  /\ cursor \in 0 .. MaxRows + 1
  /\ path \in Path \cup {RootDir}
  /\ result \in {OK, Failed}
  /\ last \in {"none", "success", "failure", "killed"}

(***************************************************************************)
(* A file that a package put on the disk, whole or not, is in the files    *)
(* table under that package, whatever failed and whenever the process was  *)
(* killed: the row comes before the file and goes after it, and when       *)
(* another package takes the file over both are listed.                    *)
(***************************************************************************)
OwnedFilesAreRegistered ==
  \A f \in File :
    owner[f] \in Package => \E r \in files : r.package = owner[f] /\ r.path = f

Succeeded(what) == pc = "idle" /\ op = what /\ last = "success"

(***************************************************************************)
(* When package_remove succeeds no file of the package is left, those of   *)
(* earlier installations and removals that failed half-way included.       *)
(***************************************************************************)
RemovedFilesAreGone ==
  Succeeded("remove") => \A f \in File : owner[f] # name

(***************************************************************************)
(* When archive_extract returns RESULT_OK, every entry of the archive is   *)
(* on the disk, from its first byte to its last.                           *)
(***************************************************************************)
InstalledIsComplete ==
  pc = "extracted" /\ result = OK =>
    \A i \in DOMAIN archive :
      archive[i] \in Path => /\ Exists(archive[i]) /\ archive[i] \notin cut
                             /\ archive[i] \in File => owner[archive[i]] = name

(***************************************************************************)
(* package_remove deletes only what is registered as the package's.        *)
(***************************************************************************)
RemovesOnlyItsPaths ==
  [][\A p \in Path :
       pc = "erase" /\ pc' = "unregister" /\ owner'[p] # owner[p] =>
         \E r \in RowsOf(name) : r.path = p]_vars

-----------------------------------------------------------------------------
(* What runs, and what it has done *)

Installing == {"header", "register", "extract", "data", "extracted"}
Removing   == {"rows", "lstat", "erase", "unregister"}

Listed(pkg, p) == \E r \in files : r.package = pkg /\ r.path = p

(***************************************************************************)
(* The SELECT of package_remove, from the highest identifier down, has     *)
(* been past the row.                                                      *)
(***************************************************************************)
Visited(r) == r.package = name /\ (r.id > cursor \/ (pc = "rows" /\ r.id = cursor))

-----------------------------------------------------------------------------
(* The inductive invariant: Packdude keeps it too, with its own archives *)

(***************************************************************************)
(* What runs, and on what.                                                 *)
(***************************************************************************)
JobInv ==
  /\ op # "none" => name \in Package
  /\ pc \in Installing => op = "install"
  /\ pc \in Removing => op = "remove"
  /\ pc \in {"register", "extract", "data", "lstat", "erase", "unregister"} => path \in Path

(***************************************************************************)
(* The rows a removal is done with name no file of the package any more,   *)
(* and the row it is at, as long as it is there, is that of path.          *)
(***************************************************************************)
RowsInv ==
  /\ \A r, s \in files : r.id = s.id => r = s
  /\ pc \in Removing =>
       \A r \in files : (Visited(r) /\ r.path \in File) => owner[r.path] # name
  /\ pc \in Removing \ {"rows"} =>
       \A r \in files : r.package = name /\ r.id = cursor => r.path = path

(***************************************************************************)
(* The row is there before the file, and the file is gone before the row.  *)
(***************************************************************************)
OrderInv ==
  /\ pc = "extract" => Listed(name, path)
  /\ pc \in {"lstat", "erase"} => Listed(name, path)
  /\ pc = "unregister" /\ path \in File => owner[path] \notin Package

FilesInv ==
  /\ TypeOK /\ JobInv /\ RowsInv /\ OrderInv
  /\ OwnedFilesAreRegistered /\ RemovedFilesAreGone
=============================================================================
