---------------------------- MODULE PackdudeProofs ----------------------------
(***************************************************************************)
(* The whole of packdude, from the command to the files, is a behaviour of *)
(* Manager and one of PackageOps: what is proved of the package manager    *)
(* holds when its calls of package_install and package_remove take time.   *)
(***************************************************************************)
EXTENDS Packdude, ManagerProofs

-----------------------------------------------------------------------------
(* The inductive invariant *)

(***************************************************************************)
(* What the process is doing, with which archive, and for whom.            *)
(***************************************************************************)
OriginInv ==
  /\ DOMAIN origin = Package
  /\ \A p \in Package : origin[p] = <<>> \/ origin[p] \in Archives[p]
  /\ \A r \in files : \E a \in Archives[r.package] : r.path \in PathsIn(a)
  /\ fpc # "idle" => target \in halfway
  /\ fpc \in Files!Installing => target \notin Installed /\ archive \in Archives[target]
  /\ fpc \in Files!Removing => target \in Installed
  /\ fpc \in Files!Removing \ {"rows"} => \E a \in Archives[target] : path \in PathsIn(a)
  /\ fpc \in {"register", "extract", "data"} =>
       entry \in DOMAIN archive /\ path = archive[entry]

(***************************************************************************)
(* archive_extract says OK at the end of the archive.                      *)
(***************************************************************************)
EndInv == fpc = "extracted" /\ result = OK => entry > Len(archive)

(***************************************************************************)
(* The entries of the archive that are registered, and that are extracted. *)
(***************************************************************************)
Through(places) ==
  {f \in Path : \E i \in DOMAIN archive :
     archive[i] = f /\ (i < entry \/ (i = entry /\ fpc \in places))}

Registered == Through({"extract", "data"})
Extracted  == Through({"data"})

(***************************************************************************)
(* What archive_extract went past is on the disk and listed.               *)
(***************************************************************************)
ExtractedInv(which) ==
  fpc \in Files!Installing /\ (fpc = "extracted" => result = OK) =>
    \A f \in Extracted \cap which :
      /\ owner[f] = target /\ Files!Listed(target, f)
      /\ f \in cut => fpc = "data" /\ f = path

FileInv == OriginInv /\ EndInv /\ ExtractedInv(Files!File) /\ FilesMatchTable

(***************************************************************************)
(* The SELECT of package_remove meets p's path f before p's directory d.   *)
(***************************************************************************)
MetBefore(p, f, d) ==
  \E r \in files :
    /\ r.package = p /\ r.path = f
    /\ \A s \in files : s.package = p /\ s.path = d => s.id < r.id

(***************************************************************************)
(* Whatever is there is some package's, and listed.                        *)
(***************************************************************************)
OwnedInv ==
  \A f \in Path : Files!Exists(f) =>
    /\ owner[f] \in Package
    /\ \E a \in Archives[owner[f]] : f \in PathsIn(a)
    /\ Files!Listed(owner[f], f)

MetInv ==
  /\ \A p \in Installed : \A f \in Path : owner[f] = p =>
       \A d \in Above[f] : MetBefore(p, f, d)
  /\ fpc \in Files!Installing =>
       \A f \in Registered : \A d \in Above[f] : MetBefore(target, f, d)

(***************************************************************************)
(* What the SELECT went past is gone, and the row it is at is there until  *)
(* its path is gone.                                                       *)
(***************************************************************************)
VisitInv ==
  /\ fpc \in Files!Removing =>
       \A r \in files : Files!Visited(r) => ~ Files!Exists(r.path)
  /\ fpc \in {"lstat", "erase"} =>
       \E r \in files : r.package = target /\ r.path = path /\ r.id = cursor
  /\ fpc = "unregister" => ~ Files!Exists(path)

TreeInv == OwnedInv /\ MetInv /\ VisitInv

DiskInv == OriginInv /\ EndInv /\ ExtractedInv(Path) /\ TreeInv /\ DiskMatchesTable

-----------------------------------------------------------------------------
(* Manager *)

(***************************************************************************)
(* A step of the whole is a step of the manager, or one it waits for.      *)
(***************************************************************************)
LEMMA ManagerStep ==
  ASSUME [PackdudeNext]_allVars
  PROVE  [Next]_vars
<1>1. CASE UNCHANGED allVars
  BY <1>1 DEF allVars
<1>2. CASE BeginInstall \/ Extract \/ BeginRemove \/ Delete
  BY <1>2 DEF BeginInstall, Extract, BeginRemove, Delete
<1>3. CASE InstallReturns \/ RegisterRow \/ RegisterRowFails
  BY <1>3 DEF InstallReturns, RegisterRow, RegisterRowFails, Next, FetchStep
<1>4. CASE DeleteReturns \/ UnregisterRow \/ RemoveFails
  BY <1>4 DEF DeleteReturns, UnregisterRow, RemoveFails, Next, RemoveStep
<1>5. CASE Decide
  BY <1>5 DEF Decide, Next, FetchStep, RemoveStep
<1>6. CASE Kill
  BY <1>6 DEF Kill, Next
<1>7. QED
  BY <1>1, <1>2, <1>3, <1>4, <1>5, <1>6 DEF PackdudeNext

(***************************************************************************)
(* The process keeps the rules of the package manager.                     *)
(***************************************************************************)
LEMMA ManagerIsImplemented == PackdudeSpec => Spec
<1>1. PackdudeInit => Init
  BY DEF PackdudeInit
<1>2. [PackdudeNext]_allVars => [Next]_vars
  BY ManagerStep
<1>3. QED
  BY <1>1, <1>2, PTL DEF PackdudeSpec, Spec

-----------------------------------------------------------------------------
(* PackageOps *)

(***************************************************************************)
(* What the manager does between its calls changes no installed package.   *)
(***************************************************************************)
LEMMA DecisionsKeepTable ==
  ASSUME Decide
  PROVE  packages' = packages
BY DEF Decide, Begin, Install, Remove, FetchRequested, Download, DownloadFails,
       InstallDependency, DependenciesUnreadable, DependenciesDone, PopFromStack,
       ReturnToCaller, InstallEnds, RemoveRequested, RemoveRefused, RemoveSpins,
       KeepRow, RemoveRow, SpinOnRow, Spin, NextPass, CleanupEnds, CleanupFails, Fetch

(***************************************************************************)
(* The files are only worked on for a package, and the row of the packages *)
(* table comes and goes in the step in which they are done.                *)
(***************************************************************************)
LEMMA FilesStep ==
  ASSUME StackInv, RemovalInv, [PackdudeNext]_allVars
  PROVE  [Files!Next]_(Files!vars)
<1>1. CASE UNCHANGED allVars
  BY <1>1 DEF allVars, fileVars, vars, Files!vars, Installed
<1>2. CASE BeginInstall
  <2>1. calls # <<>>
    BY <1>2 DEF BeginInstall, StackInv, FramesOK
  <2>2. Top.name \in Package
    BY <2>1, TopType
  <2>3. QED
    BY <1>2, <2>2 DEF BeginInstall, Files!Next
<1>3. CASE BeginRemove
  <2>1. victim \in Package
    BY <1>3 DEF BeginRemove, RemovalInv, StackInv, TypeOK
  <2>2. QED
    BY <1>3, <2>1 DEF BeginRemove, Files!Next
<1>4. CASE Extract \/ RegisterRow \/ RegisterRowFails
  BY <1>4 DEF Extract, RegisterRow, RegisterRowFails, Files!Next, Files!InstallStep
<1>5. CASE Delete \/ UnregisterRow \/ RemoveFails
  BY <1>5 DEF Delete, UnregisterRow, RemoveFails, Files!Next, Files!RemoveStep
<1>6. CASE InstallReturns
  BY <1>6 DEF InstallReturns, Unpack, fileVars, Files!vars, Installed, Files!Next,
              Files!InstallStep
<1>7. CASE DeleteReturns
  BY <1>7 DEF DeleteReturns, Erase, fileVars, Files!vars, Installed
<1>8. CASE Decide
  BY <1>8, DecisionsKeepTable DEF Decide, fileVars, Files!vars, Installed
<1>9. CASE Kill
  BY <1>9 DEF Kill, Crash, fileVars, Files!vars, Installed, Files!Next
<1>10. QED
  BY <1>1, <1>2, <1>3, <1>4, <1>5, <1>6, <1>7, <1>8, <1>9 DEF PackdudeNext

-----------------------------------------------------------------------------
(***************************************************************************)
(* The files are worked on by steps of PackageOps only, as the composition *)
(* is built: what is proved of PackageOps can be used here.                *)
(***************************************************************************)
LEMMA FilesAreImplemented == PackdudeSpec => Files!Spec
<1>1. PackdudeInit => Files!Init
  BY DEF PackdudeInit
<1>2. StackInv /\ RemovalInv /\ [PackdudeNext]_allVars => [Files!Next]_(Files!vars)
  BY FilesStep
<1>3. PackdudeSpec => []StackInv /\ []RemovalInv
  BY ManagerIsImplemented, StackInvariant, RemovalInvariant
<1>4. QED
  BY <1>1, <1>2, <1>3, PTL DEF PackdudeSpec, Files!Spec

(***************************************************************************)
(* With the files in it, too: at every moment, in the middle of unpacking  *)
(* or deleting, every dependency of an installed package is installed.     *)
(***************************************************************************)
THEOREM DependenciesStayInstalled ==
  ASSUME Acyclic, "memory" \notin Faults
  PROVE  PackdudeSpec => []DependencyClosed
BY ManagerIsImplemented, DependenciesAreInstalled
-----------------------------------------------------------------------------
(* What FilesProofs shows of PackageOps holds here. *)

FilesProof ==
  INSTANCE FilesProofs
    WITH packages <- Installed, name <- target, pc <- fpc,
         Nobody <- NoPackage, User <- Bystander

(***************************************************************************)
(* The two instances of PackageOps are the same.                           *)
(***************************************************************************)
LEMMA SameFiles ==
  /\ Files!Init => FilesProof!Init
  /\ [Files!Next]_(Files!vars) => [FilesProof!Next]_(FilesProof!vars)
BY DEF Files!Init, FilesProof!Init,
       Files!NextEntry, FilesProof!NextEntry, Files!SkipRoot,
       FilesProof!SkipRoot, Files!RejectEntry, FilesProof!RejectEntry,
       Files!EndOfArchive, FilesProof!EndOfArchive, Files!CorruptArchive,
       FilesProof!CorruptArchive, Files!RegisterPath, FilesProof!RegisterPath,
       Files!RegisterPathFails, FilesProof!RegisterPathFails,
       Files!WriteHeader, FilesProof!WriteHeader, Files!HeaderFails,
       FilesProof!HeaderFails, Files!CopyData, FilesProof!CopyData,
       Files!WriteFails, FilesProof!WriteFails, Files!ReadFails,
       FilesProof!ReadFails, Files!RegisterPackage,
       FilesProof!RegisterPackage, Files!InstallFails,
       FilesProof!InstallFails, Files!NextRow, FilesProof!NextRow,
       Files!Missing, FilesProof!Missing, Files!Found, FilesProof!Found,
       Files!Erase, FilesProof!Erase, Files!KeepDirectory,
       FilesProof!KeepDirectory, Files!UnregisterPath,
       FilesProof!UnregisterPath, Files!RemovalFails, FilesProof!RemovalFails,
       Files!UnregisterPackage, FilesProof!UnregisterPackage, Files!Crash,
       FilesProof!Crash, Files!UserActs, FilesProof!UserActs, Files!Install,
       FilesProof!Install, Files!Remove, FilesProof!Remove, Files!Extraction,
       FilesProof!Extraction, Files!Deletion, FilesProof!Deletion,
       Files!InstallStep, FilesProof!InstallStep, Files!RemoveStep,
       FilesProof!RemoveStep, Files!Next, FilesProof!Next, Files!tableVars,
       FilesProof!tableVars, Files!diskVars, FilesProof!diskVars,
       Files!jobVars, FilesProof!jobVars, Files!vars, FilesProof!vars,
       Files!OK, FilesProof!OK, Files!Failed, FilesProof!Failed, Files!End,
       FilesProof!End, Files!IsNextId, FilesProof!IsNextId, Files!Exists,
       FilesProof!Exists, Files!Holds, FilesProof!Holds, Files!RowsOf,
       FilesProof!RowsOf, Files!Ahead, FilesProof!Ahead, Files!Created,
       FilesProof!Created, Files!File, FilesProof!File

LEMMA SameInvariants ==
  ASSUME FilesProof!TypeInv, FilesProof!TableInv
  PROVE  Files!FilesInv
BY DEF FilesProof!TypeInv, FilesProof!TableInv, Files!FilesInv,
       Files!TypeOK, FilesProof!TypeOK, Files!JobInv, FilesProof!JobInv,
       Files!RowsInv, FilesProof!RowsInv, Files!OrderInv, FilesProof!OrderInv,
       Files!OwnedFilesAreRegistered, FilesProof!OwnedFilesAreRegistered,
       Files!RemovedFilesAreGone, FilesProof!RemovedFilesAreGone,
       Files!Visited, FilesProof!Visited, Files!Listed, FilesProof!Listed,
       Files!Succeeded, FilesProof!Succeeded, Files!Control,
       FilesProof!Control, Files!FileRow, FilesProof!FileRow,
       Files!Installing, FilesProof!Installing, Files!Removing,
       FilesProof!Removing, Files!File, FilesProof!File, Files!OK,
       FilesProof!OK, Files!Failed, FilesProof!Failed

(***************************************************************************)
(* The files table and the disk are in the relation of FilesInv at every   *)
(* moment of a command.                                                    *)
(***************************************************************************)
THEOREM FilesStayInStep == PackdudeSpec => []Files!FilesInv
<1>1. FilesProof!Spec => []FilesProof!TypeInv
  BY FilesProof!TypeInvariant, PackdudeAssumption, ConstantsAssumption
     DEF FilesProof!Events
<1>2. FilesProof!Spec => []FilesProof!TableInv
  BY FilesProof!TableInvariant, PackdudeAssumption, ConstantsAssumption
     DEF FilesProof!Events
<1>3. Files!Spec => FilesProof!Spec
  BY SameFiles, PTL DEF Files!Spec, FilesProof!Spec
<1>4. FilesProof!TypeInv /\ FilesProof!TableInv => Files!FilesInv
  BY SameInvariants
<1>5. QED
  BY <1>1, <1>2, <1>3, <1>4, FilesAreImplemented, PTL
-----------------------------------------------------------------------------
(* Steps that are none of the disk's: most of a command. *)

(***************************************************************************)
(* Outside package_install and package_remove, and at their ends, the disk *)
(* and the files table stay as they are.                                   *)
(***************************************************************************)
LEMMA OtherSteps ==
  ASSUME [PackdudeNext]_allVars, ~ Extract, ~ Delete
  PROVE  /\ UNCHANGED <<owner, cut, files>>
         /\ RegisterRow \/ Installed' \subseteq Installed
         /\ \/ RegisterRow \/ UnregisterRow
            \/ UNCHANGED <<Installed, origin>> /\ halfway \subseteq halfway'
         /\ \/ UNCHANGED <<archive, entry, fpc, target, path, cursor, result>>
            \/ fpc' = "idle"
            \/ fpc' = "rows" /\ cursor' = MaxRows + 1
            \/ fpc' = "header" /\ entry' = 1
<1>1. CASE UNCHANGED allVars
  BY <1>1 DEF allVars, fileVars, historyVars, vars, Installed
<1>2. CASE BeginInstall \/ BeginRemove
  BY <1>2 DEF BeginInstall, BeginRemove, Files!Install, Files!Remove, Files!tableVars,
              Files!diskVars, vars, Installed
<1>3. CASE InstallReturns \/ DeleteReturns \/ Decide
  <2>1. Installed' = Installed /\ UNCHANGED historyVars
    BY <1>3, DecisionsKeepTable
       DEF InstallReturns, DeleteReturns, Decide, Unpack, UnpackFails, Erase, Installed
  <2>2. UNCHANGED fileVars \/ Files!InstallFails
    BY <1>3 DEF InstallReturns, DeleteReturns, Decide
  <2> QED
    BY <2>1, <2>2 DEF fileVars, historyVars, Files!InstallFails, Files!End, Files!tableVars,
                      Files!diskVars
<1>4. CASE RegisterRowFails \/ RemoveFails \/ Kill
  <2>1. Installed' = Installed /\ UNCHANGED historyVars
    BY <1>4 DEF RegisterRowFails, RemoveFails, Kill, RegisterFails, RemovalFails, Crash,
                Installed
  <2>2. UNCHANGED fileVars \/ (fpc' = "idle" /\ UNCHANGED <<files, owner, cut>>)
    BY <1>4 DEF RegisterRowFails, RemoveFails, Kill, Files!InstallFails,
                Files!RemovalFails, Files!Crash, Files!End, Files!tableVars,
                Files!diskVars
  <2> QED
    BY <2>1, <2>2 DEF fileVars, historyVars
<1>5. CASE RegisterRow \/ UnregisterRow
  BY <1>5 DEF RegisterRow, UnregisterRow, Files!RegisterPackage, Files!UnregisterPackage,
              Files!End, Files!diskVars
<1> QED
  BY <1>1, <1>2, <1>3, <1>4, <1>5 DEF PackdudeNext

-----------------------------------------------------------------------------
(* The histories, and the place in the archive. *)

LEMMA OriginInvStep ==
  ASSUME Files!FilesInv, Files!FilesInv', OriginInv, [PackdudeNext]_allVars
  PROVE  OriginInv'
<1> USE DEF OriginInv, Files!Installing, Files!Removing
<1>1. CASE UNCHANGED allVars
  BY <1>1 DEF allVars, fileVars, historyVars, vars, Installed
<1>2. CASE BeginInstall
  <2>1. PICK contents \in Archives[Top.name] : Files!Install(Top.name, contents)
    BY <1>2 DEF BeginInstall
  <2>2. /\ fpc' = "header" /\ target' = Top.name /\ archive' = contents
        /\ UNCHANGED <<files, Installed>> /\ Top.name \notin Installed
    BY <2>1 DEF Files!Install, Files!tableVars
  <2>3. origin' = origin /\ halfway' = halfway \cup {Top.name}
    BY <1>2 DEF BeginInstall
  <2> QED
    BY <2>1, <2>2, <2>3
<1>3. CASE Extract
  <2>1. /\ Files!Extraction /\ Installed' = Installed /\ origin' = origin
        /\ halfway' = halfway
    BY <1>3 DEF Extract, historyVars, vars, Installed
  <2>2. CASE Files!NextEntry
    BY <2>1, <2>2 DEF Files!NextEntry, Files!tableVars, Files!jobVars, Files!FilesInv,
                      Files!TypeOK
  <2>3. CASE Files!SkipRoot \/ Files!RejectEntry \/ Files!EndOfArchive
    <3>1. /\ fpc = "header" /\ UNCHANGED <<files, target, archive>>
          /\ fpc' \in {"header", "extracted"}
      BY <2>3 DEF Files!SkipRoot, Files!RejectEntry, Files!EndOfArchive,
                  Files!tableVars, Files!jobVars
    <3> QED
      BY <2>1, <3>1
  <2>4. CASE Files!RegisterPath
    <3>1. PICK n \in 1 .. MaxRows :
            files' = files \cup {[package |-> target, path |-> path, id |-> n]}
      BY <2>4 DEF Files!RegisterPath
    <3>2. path \in PathsIn(archive) /\ archive \in Archives[target]
      BY <2>4 DEF Files!RegisterPath, PathsIn, Files!FilesInv, Files!JobInv
    <3> QED
      BY <2>1, <2>4, <3>1, <3>2 DEF Files!RegisterPath, Files!jobVars
  <2>5. CASE Files!RegisterPathFails \/ Files!WriteHeader
    <3>1. /\ fpc \in {"register", "extract"} /\ UNCHANGED <<files, target, archive, entry, path>>
          /\ fpc' \in {"data", "extracted"}
      BY <2>5 DEF Files!RegisterPathFails, Files!WriteHeader, Files!tableVars,
                  Files!jobVars
    <3> QED
      BY <2>1, <3>1
  <2>6. CASE Files!CopyData \/ Files!ReadFails \/ Files!WriteFails
    <3>1. /\ fpc = "data" /\ UNCHANGED <<files, target, archive>>
          /\ fpc' \in {"header", "extracted"}
      BY <2>6 DEF Files!CopyData, Files!ReadFails, Files!WriteFails, Files!tableVars,
                  Files!jobVars
    <3> QED
      BY <2>1, <3>1
  <2>7. CASE Files!HeaderFails \/ Files!CorruptArchive
    <3>1. /\ fpc \in {"header", "extract"} /\ UNCHANGED <<files, target, archive>>
          /\ fpc' = "extracted"
      BY <2>7 DEF Files!HeaderFails, Files!CorruptArchive, Files!tableVars, Files!jobVars
    <3> QED
      BY <2>1, <3>1
  <2> QED
    BY <2>1, <2>2, <2>3, <2>4, <2>5, <2>6, <2>7 DEF Files!Extraction
<1>4. CASE InstallReturns \/ DeleteReturns \/ Decide
  <2>1. Installed' = Installed /\ UNCHANGED historyVars
    BY <1>4, DecisionsKeepTable
       DEF InstallReturns, DeleteReturns, Decide, Unpack, UnpackFails, Erase, Installed
  <2>2. UNCHANGED fileVars \/ Files!InstallFails
    BY <1>4 DEF InstallReturns, DeleteReturns, Decide
  <2> QED
    BY <2>1, <2>2 DEF fileVars, historyVars, Files!InstallFails, Files!End,
                      Files!tableVars
<1>5. CASE RegisterRow
  BY <1>5 DEF RegisterRow, Files!RegisterPackage, Files!End
<1>6. CASE UnregisterRow
  BY <1>6 DEF UnregisterRow, Files!UnregisterPackage, Files!End
<1>7. CASE RegisterRowFails \/ RemoveFails \/ Kill
  <2>1. Installed' = Installed /\ UNCHANGED historyVars
    BY <1>7 DEF RegisterRowFails, RemoveFails, Kill, RegisterFails, RemovalFails, Crash,
                Installed
  <2>2. UNCHANGED fileVars \/ (fpc' = "idle" /\ UNCHANGED files)
    BY <1>7 DEF RegisterRowFails, RemoveFails, Kill, Files!InstallFails,
                Files!RemovalFails, Files!Crash, Files!End, Files!tableVars
  <2> QED
    BY <2>1, <2>2 DEF fileVars, historyVars
<1>8. CASE BeginRemove
  BY <1>8 DEF BeginRemove, Files!Remove, Files!tableVars
<1>9. CASE Delete
  <2>1. /\ Files!Deletion /\ Installed' = Installed /\ origin' = origin
        /\ halfway' = halfway
    BY <1>9 DEF Delete, historyVars, vars, Installed
  <2>2. /\ fpc \in Files!Removing /\ fpc' \in Files!Removing
        /\ target' = target /\ files' \subseteq files
        /\ \/ fpc # "rows" /\ path' = path
           \/ fpc' # "rows" /\ \E r \in files : r.package = target /\ path' = r.path
    BY <2>1 DEF Files!Deletion, Files!NextRow, Files!Missing, Files!Found, Files!Erase,
                Files!KeepDirectory, Files!UnregisterPath, Files!tableVars, Files!jobVars,
                Files!Ahead, Files!RowsOf
  <2> QED
    BY <2>1, <2>2
<1> QED
  BY <1>1, <1>2, <1>3, <1>4, <1>5, <1>6, <1>7, <1>8, <1>9 DEF PackdudeNext

LEMMA EndInvStep ==
  ASSUME Noticed, EndInv, [PackdudeNext]_allVars
  PROVE  EndInv'
<1> USE DEF EndInv
<1>1. CASE ~ Extract /\ ~ Delete
  BY <1>1, OtherSteps
<1>2. CASE Delete
  BY <1>2 DEF Delete, Files!Deletion, Files!NextRow, Files!Missing, Files!Found, Files!Erase,
              Files!KeepDirectory, Files!UnregisterPath
<1>3. CASE Extract
  BY <1>3 DEF Extract, Noticed, Files!Extraction, Files!NextEntry, Files!SkipRoot,
              Files!RejectEntry, Files!EndOfArchive, Files!CorruptArchive,
              Files!RegisterPath, Files!RegisterPathFails, Files!WriteHeader,
              Files!HeaderFails, Files!CopyData, Files!WriteFails, Files!ReadFails,
              Files!jobVars, Files!Failed, OK
<1> QED
  BY <1>1, <1>2, <1>3

-----------------------------------------------------------------------------
(* The disk and the packages table. *)

(***************************************************************************)
(* What archive_extract went past, from one entry to the next.             *)
(***************************************************************************)
LEMMA ExtractedStays ==
  ASSUME Files!FilesInv, OriginInv,
         \/ Files!NextEntry \/ Files!RegisterPath \/ Files!SkipRoot
         \/ Files!EndOfArchive \/ Files!CopyData
  PROVE  Extracted' = Extracted
<1> USE DEF Extracted, Through
<1>1. CASE Files!NextEntry \/ Files!RegisterPath \/ Files!EndOfArchive
  <2>1. UNCHANGED <<archive, entry>> /\ fpc # "data" /\ fpc' # "data"
    BY <1>1 DEF Files!NextEntry, Files!RegisterPath, Files!EndOfArchive, Files!jobVars
  <2> QED
    BY <2>1
<1>2. entry \in Nat /\ DOMAIN archive \subseteq Nat
  BY DEF Files!FilesInv, Files!TypeOK
<1>3. CASE Files!SkipRoot
  <2>1. /\ archive' = archive /\ entry' = entry + 1 /\ fpc = "header" /\ fpc' = "header"
        /\ archive[entry] \notin Path
    BY <1>3, PackdudeAssumption DEF Files!SkipRoot, Files!jobVars
  <2>2. \A i \in DOMAIN archive : i < entry + 1 <=> i < entry \/ i = entry
    BY <1>2
  <2> QED
    BY <2>1, <2>2
<1>4. CASE Files!CopyData
  <2>1. archive' = archive /\ entry' = entry + 1 /\ fpc = "data" /\ fpc' = "header"
    BY <1>4 DEF Files!CopyData, Files!jobVars
  <2>2. \A i \in DOMAIN archive : i < entry + 1 <=> i < entry \/ i = entry
    BY <1>2
  <2> QED
    BY <2>1, <2>2
<1> QED
  BY <1>1, <1>3, <1>4

LEMMA ExtractedGrows ==
  ASSUME Files!FilesInv, OriginInv, Files!WriteHeader
  PROVE  Extracted' = Extracted \cup {path}
<1>1. UNCHANGED <<archive, entry>> /\ fpc = "extract" /\ fpc' = "data"
  BY DEF Files!WriteHeader, Files!jobVars
<1>2. entry \in DOMAIN archive /\ path = archive[entry] /\ path \in Path
  BY <1>1 DEF OriginInv, Files!FilesInv, Files!JobInv
<1> QED
  BY <1>1, <1>2 DEF Extracted, Through

(***************************************************************************)
(* A step of archive_extract keeps what is extracted and what is installed *)
(* if, of the paths in question, it gives away none but its own.           *)
(***************************************************************************)
LEMMA ExtractKeepsMatch ==
  ASSUME Noticed, NEW which \in SUBSET Path, Separate(which),
         Files!FilesInv, OriginInv, ExtractedInv(which), MatchesTable(which),
         Extract,
         Files!WriteHeader =>
           \A f \in which : owner'[f] = IF f = path THEN target ELSE owner[f]
  PROVE  ExtractedInv(which)' /\ MatchesTable(which)'
<1> USE DEF Files!Listed, Files!Installing
<1>1. /\ Files!Extraction /\ Installed' = Installed /\ origin' = origin
      /\ halfway' = halfway
  BY DEF Extract, historyVars, vars, Installed
<1>2. fpc \in Files!Installing
  BY <1>1 DEF Files!Extraction, Files!NextEntry, Files!SkipRoot, Files!RejectEntry,
              Files!EndOfArchive, Files!CorruptArchive, Files!RegisterPath,
              Files!RegisterPathFails, Files!WriteHeader, Files!HeaderFails,
              Files!CopyData, Files!WriteFails, Files!ReadFails
<1>3. target \in halfway /\ archive \in Archives[target]
  BY <1>2 DEF OriginInv
<1>4. CASE Files!NextEntry \/ Files!SkipRoot \/ Files!EndOfArchive
  <2>1. /\ UNCHANGED <<files, owner, cut, target>>
        /\ fpc = "header" /\ fpc' # "data"
        /\ Extracted' = Extracted
    BY <1>4, ExtractedStays
       DEF Files!NextEntry, Files!SkipRoot, Files!EndOfArchive, Files!tableVars,
           Files!diskVars, Files!jobVars
  <2> QED
    BY <1>1, <1>2, <2>1 DEF ExtractedInv, MatchesTable, PathsOf, InPlace
<1>5. CASE Files!RejectEntry \/ Files!RegisterPathFails \/ Files!ReadFails
  <2>1. UNCHANGED <<files, owner, cut, target>> /\ fpc' = "extracted" /\ result' # OK
    BY <1>5 DEF Files!RejectEntry, Files!RegisterPathFails, Files!ReadFails,
                Files!tableVars, Files!diskVars, Files!jobVars, Files!Failed, OK
  <2> QED
    BY <1>1, <2>1 DEF ExtractedInv, MatchesTable, PathsOf, InPlace
<1>6. CASE Files!RegisterPath
  <2>1. /\ files \subseteq files' /\ UNCHANGED <<owner, cut, target>>
        /\ fpc = "register" /\ fpc' = "extract"
        /\ Extracted' = Extracted
    BY <1>6, ExtractedStays DEF Files!RegisterPath, Files!diskVars, Files!jobVars
  <2> QED
    BY <1>1, <1>2, <2>1 DEF ExtractedInv, MatchesTable, PathsOf, InPlace
<1>7. CASE Files!WriteHeader
  <2>1. /\ UNCHANGED <<files, target, path>> /\ cut' \in {cut, cut \cup {path}}
        /\ fpc = "extract" /\ fpc' = "data"
        /\ Extracted' = Extracted \cup {path}
        /\ \A f \in which : owner'[f] = IF f = path THEN target ELSE owner[f]
    BY <1>7, ExtractedGrows DEF Files!WriteHeader, Files!tableVars, Files!jobVars
  <2>2. Files!Listed(target, path)
    BY <2>1 DEF Files!FilesInv, Files!OrderInv
  <2>3. ExtractedInv(which)'
    BY <1>2, <2>1, <2>2 DEF ExtractedInv
  <2>4. path \in PathsIn(archive)
    BY <2>1 DEF OriginInv, Files!FilesInv, Files!JobInv, PathsIn
  <2>5. ASSUME NEW p \in Package \ halfway, p \in Installed, NEW f \in PathsOf(p) \cap which
        PROVE  f # path
    <3>1. p # target
      BY <1>3
    <3>2. origin[p] \in Archives[p]
      BY <2>5 DEF OriginInv, PathsOf, PathsIn
    <3>3. target \in Package
      BY <1>2 DEF Files!FilesInv, Files!JobInv
    <3> QED
      BY <1>3, <2>4, <2>5, <3>1, <3>2, <3>3 DEF Separate, PathsOf
  <2>6. MatchesTable(which)'
    BY <1>1, <1>3, <2>1, <2>5 DEF MatchesTable, PathsOf, InPlace
  <2> QED
    BY <2>3, <2>6
<1>8. CASE Files!CopyData
  <2>1. /\ UNCHANGED <<files, owner, target>> /\ cut' = cut \ {path}
        /\ fpc = "data" /\ fpc' = "header"
        /\ Extracted' = Extracted
    BY <1>8, ExtractedStays DEF Files!CopyData, Files!tableVars, Files!jobVars
  <2> QED
    BY <1>1, <1>2, <2>1 DEF ExtractedInv, MatchesTable, PathsOf, InPlace
<1>9. ~(Files!HeaderFails \/ Files!WriteFails \/ Files!CorruptArchive)
  BY DEF Noticed, Files!HeaderFails, Files!WriteFails, Files!CorruptArchive
<1> QED
  BY <1>1, <1>4, <1>5, <1>6, <1>7, <1>8, <1>9 DEF Files!Extraction

(***************************************************************************)
(* package_remove touches only what is the package's: its own paths, which *)
(* are no other package's.                                                 *)
(***************************************************************************)
LEMMA DeleteKeepsMatch ==
  ASSUME NEW which \in SUBSET Path, Separate(which),
         Files!FilesInv, OriginInv, MatchesTable(which), Delete
  PROVE  ExtractedInv(which)' /\ MatchesTable(which)'
<1>1. /\ Files!Deletion /\ Installed' = Installed /\ origin' = origin
      /\ halfway' = halfway
  BY DEF Delete, historyVars, vars, Installed
<1>2. /\ fpc \in Files!Removing /\ fpc' \in Files!Removing
      /\ \/ UNCHANGED <<files, owner, cut>>
         \/ /\ fpc # "rows" /\ path \in Path
            /\ \A f \in Path : owner'[f] = IF f = path THEN owner'[path] ELSE owner[f]
            /\ owner'[path] \in {owner[path], NoPackage}
            /\ cut' \subseteq cut
            /\ files' \in {files, {r \in files : r.path # path}}
  BY <1>1 DEF Files!Deletion, Files!NextRow, Files!Missing, Files!Found, Files!Erase,
              Files!KeepDirectory, Files!UnregisterPath, Files!tableVars, Files!diskVars,
              Files!Removing, Files!FilesInv, Files!TypeOK, Files!JobInv
<1>3. ExtractedInv(which)'
  BY <1>2 DEF ExtractedInv, Files!Installing, Files!Removing
<1>4. CASE UNCHANGED <<files, owner, cut>>
  BY <1>1, <1>3, <1>4 DEF MatchesTable, PathsOf, InPlace, Files!Listed
<1>5. ASSUME fpc # "rows", NEW p \in Package \ halfway, p \in Installed,
             NEW f \in PathsOf(p) \cap which
      PROVE  f # path
  <2>1. target \in halfway /\ \E a \in Archives[target] : path \in PathsIn(a)
    BY <1>2, <1>5 DEF OriginInv, Files!Removing
  <2>2. target \in Package /\ p # target
    BY <1>2, <2>1 DEF Files!FilesInv, Files!JobInv, Files!Removing
  <2>3. origin[p] \in Archives[p]
    BY <1>5 DEF OriginInv, PathsOf, PathsIn
  <2> QED
    BY <1>5, <2>1, <2>2, <2>3 DEF Separate, PathsOf
<1>6. ASSUME fpc # "rows", path \in Path,
             \A f \in Path : owner'[f] = IF f = path THEN owner'[path] ELSE owner[f],
             owner'[path] \in {owner[path], NoPackage},
             cut' \subseteq cut,
             files' \in {files, {r \in files : r.path # path}}
      PROVE  MatchesTable(which)'
  <2>1. ASSUME NEW p \in Package \ halfway, p \in Installed, NEW f \in PathsOf(p) \cap which
        PROVE  /\ owner'[f] = p /\ f \notin cut'
               /\ \E r \in files' : r.package = p /\ r.path = f
    <3>1. f # path
      BY <1>5, <1>6, <2>1
    <3>2. owner[f] = p /\ f \notin cut /\ \E r \in files : r.package = p /\ r.path = f
      BY <2>1 DEF MatchesTable, InPlace, Files!Listed
    <3> QED
      BY <1>6, <3>1, <3>2
  <2>2. ASSUME NEW p \in Package \ halfway, p \notin Installed, NEW f \in which
        PROVE  owner'[f] # p
    <3>1. owner[f] # p /\ (path \in which => owner[path] # p)
      BY <2>2 DEF MatchesTable
    <3> QED
      BY <1>6, <2>2, <3>1, ConstantsAssumption
  <2> QED
    BY <1>1, <2>1, <2>2 DEF MatchesTable, PathsOf, InPlace, Files!Listed
<1> QED
  BY <1>2, <1>3, <1>4, <1>6

(***************************************************************************)
(* The row of the packages table is written when all is on the disk, and   *)
(* deleted when nothing is.                                                *)
(***************************************************************************)
LEMMA RowsKeepMatch ==
  ASSUME NEW which \in SUBSET Path,
         Files!FilesInv, OriginInv, EndInv, ExtractedInv(which), MatchesTable(which),
         RegisterRow \/ UnregisterRow,
         UnregisterRow => \A f \in which : owner[f] # target
  PROVE  ExtractedInv(which)' /\ MatchesTable(which)'
<1>1. UNCHANGED <<owner, cut, files, target, archive>> /\ fpc' = "idle"
  BY DEF RegisterRow, UnregisterRow, Files!RegisterPackage, Files!UnregisterPackage,
         Files!End, Files!diskVars, Files!jobVars
<1>2. ExtractedInv(which)'
  BY <1>1 DEF ExtractedInv, Files!Installing
<1>3. CASE RegisterRow
  <2>1. /\ Installed' = Installed \cup {target} /\ fpc = "extracted" /\ result = OK
        /\ halfway' = halfway \ {target}
        /\ origin' = [origin EXCEPT ![target] = archive]
    BY <1>3 DEF RegisterRow, Files!RegisterPackage, Files!OK, OK
  <2>2. entry > Len(archive) /\ DOMAIN archive = 1 .. Len(archive) /\ Len(archive) \in Nat
        /\ entry \in Nat /\ target \in Package
    BY <2>1 DEF OriginInv, EndInv, Files!FilesInv, Files!TypeOK, Files!JobInv,
                Files!Installing
  <2>3. PathsIn(archive) \subseteq Extracted
    BY <2>2 DEF PathsIn, Extracted, Through
  <2>4. \A f \in PathsIn(archive) \cap which :
          owner[f] = target /\ f \notin cut /\ Files!Listed(target, f)
    BY <2>1, <2>3 DEF ExtractedInv, Files!Installing
  <2>5. DOMAIN origin = Package
    BY DEF OriginInv
  <2>6. MatchesTable(which)'
    BY <1>1, <2>1, <2>2, <2>4, <2>5 DEF MatchesTable, PathsOf, InPlace, Files!Listed
  <2> QED
    BY <1>2, <2>6
<1>4. CASE UnregisterRow
  <2>1. /\ Installed' = Installed \ {target} /\ halfway' = halfway \ {target}
        /\ origin' = [origin EXCEPT ![target] = <<>>]
    BY <1>4 DEF UnregisterRow, Files!UnregisterPackage
  <2>2. MatchesTable(which)'
    BY <1>1, <1>4, <2>1 DEF MatchesTable, PathsOf, InPlace, Files!Listed
  <2> QED
    BY <1>2, <2>2
<1> QED
  BY <1>3, <1>4

LEMMA OtherStepsKeepMatch ==
  ASSUME NEW which, Files!FilesInv',
         ExtractedInv(which), MatchesTable(which), [PackdudeNext]_allVars,
         ~ Extract, ~ Delete, ~ RegisterRow, ~ UnregisterRow
  PROVE  ExtractedInv(which)' /\ MatchesTable(which)'
<1>1. MatchesTable(which)'
  BY OtherSteps DEF MatchesTable, PathsOf, InPlace, Files!Listed
<1>2. CASE UNCHANGED <<archive, entry, fpc, target, path, cursor, result>>
  BY <1>1, <1>2, OtherSteps DEF ExtractedInv, Extracted, Through, Files!Listed
<1>3. CASE fpc' \in {"idle", "rows"}
  BY <1>1, <1>3 DEF ExtractedInv, Files!Installing
<1>4. CASE fpc' = "header" /\ entry' = 1
  <2>1. archive' \in Seq(Path \cup {RootDir, AbsolutePath})
    BY DEF Files!FilesInv, Files!TypeOK
  <2>2. Extracted' = {}
    BY <1>4, <2>1 DEF Extracted, Through
  <2> QED
    BY <1>1, <2>2 DEF ExtractedInv
<1> QED
  BY <1>2, <1>3, <1>4, OtherSteps

(***************************************************************************)
(* The two conditions under which a step keeps the disk and the packages   *)
(* table in step, together.                                                *)
(***************************************************************************)
LEMMA MatchStep ==
  ASSUME Noticed, NEW which \in SUBSET Path, Separate(which),
         Files!FilesInv, Files!FilesInv', OriginInv, EndInv, ExtractedInv(which),
         MatchesTable(which), [PackdudeNext]_allVars,
         Files!WriteHeader =>
           \A f \in which : owner'[f] = IF f = path THEN target ELSE owner[f],
         UnregisterRow => \A f \in which : owner[f] # target
  PROVE  ExtractedInv(which)' /\ MatchesTable(which)'
BY ExtractKeepsMatch, DeleteKeepsMatch, RowsKeepMatch, OtherStepsKeepMatch

-----------------------------------------------------------------------------
(* Files *)

LEMMA FileInvStep ==
  ASSUME Noticed, Separate(Files!File),
         Files!FilesInv, Files!FilesInv', FileInv, [PackdudeNext]_allVars
  PROVE  FileInv'
<1>1. OriginInv' /\ EndInv'
  BY OriginInvStep, EndInvStep DEF FileInv
<1>2. ASSUME Files!WriteHeader, NEW f \in Files!File
      PROVE  owner'[f] = IF f = path THEN target ELSE owner[f]
  BY <1>2, PackdudeAssumption
     DEF Files!WriteHeader, Files!Created, Files!File, Files!FilesInv, Files!TypeOK,
         Files!JobInv
<1>3. ASSUME UnregisterRow, NEW f \in Files!File
      PROVE  owner[f] # target
  <2>1. fpc = "rows" /\ Files!Ahead = {}
    BY <1>3 DEF UnregisterRow, Files!UnregisterPackage
  <2>2. target \in Package /\ cursor \in Nat /\ \A r \in files : r.id \in Nat
    BY <2>1 DEF Files!FilesInv, Files!TypeOK, Files!JobInv, Files!Removing, Files!FileRow
  <2>3. \A r \in files : r.package = target => Files!Visited(r)
    BY <2>1, <2>2 DEF Files!Ahead, Files!RowsOf, Files!Visited
  <2> QED
    BY <2>1, <2>2, <2>3 DEF Files!FilesInv, Files!OwnedFilesAreRegistered, Files!RowsInv,
                            Files!Removing
<1>4. Files!File \in SUBSET Path
  BY DEF Files!File
<1> QED
  BY <1>1, <1>2, <1>3, <1>4, MatchStep DEF FileInv, FilesMatchTable

(***************************************************************************)
(* Whatever fails, also while packages share directories and change from   *)
(* edition to edition, the files of a package are all there, whole and     *)
(* listed, while it is installed, and all gone when it is not; except for  *)
(* a package whose installation or removal was cut short.                  *)
(***************************************************************************)
THEOREM FilesAreAsTheTableSays ==
  ASSUME Noticed, Separate(Files!File)
  PROVE  PackdudeSpec => []FilesMatchTable
<1>1. PackdudeInit => FileInv
  BY ConstantsAssumption, PackdudeAssumption
     DEF PackdudeInit, Init, Files!Init, FileInv, OriginInv, EndInv, ExtractedInv, FilesMatchTable,
         MatchesTable, Files!Installing, Files!Removing, Installed, Files!File, PathsOf,
         PathsIn
<1>2. Files!FilesInv /\ Files!FilesInv' /\ FileInv /\ [PackdudeNext]_allVars => FileInv'
  BY FileInvStep
<1>3. FileInv => FilesMatchTable
  BY DEF FileInv
<1> QED
  BY <1>1, <1>2, <1>3, FilesStayInStep, PTL DEF PackdudeSpec

-----------------------------------------------------------------------------
(* Removals, and the files of what others need. *)

(***************************************************************************)
(* package_remove works on the package that manager_can_remove was asked   *)
(* about, and the manager waits for it.                                    *)
(***************************************************************************)
VictimInv == fpc \in Files!Removing => pc \in {"erase", "unregister"} /\ target = victim

LEMMA VictimInvStep ==
  ASSUME VictimInv, [PackdudeNext]_allVars
  PROVE  VictimInv'
<1> USE DEF VictimInv, Files!Removing
<1>1. CASE UNCHANGED allVars
  BY <1>1 DEF allVars, fileVars, vars
<1>2. CASE BeginInstall \/ Extract
  <2>1. pc = "unpack" /\ UNCHANGED vars
    BY <1>2 DEF BeginInstall, Extract
  <2>2. fpc' \notin Files!Removing
    BY <1>2, <2>1
       DEF BeginInstall, Extract, Files!Install, Files!Extraction, Files!NextEntry,
           Files!SkipRoot, Files!RejectEntry, Files!EndOfArchive, Files!CorruptArchive,
           Files!RegisterPath, Files!RegisterPathFails, Files!WriteHeader,
           Files!HeaderFails, Files!CopyData, Files!WriteFails, Files!ReadFails
  <2> QED
    BY <2>2
<1>3. CASE BeginRemove
  BY <1>3 DEF BeginRemove, Files!Remove, vars
<1>4. CASE Delete
  BY <1>4 DEF Delete, vars, Files!Deletion, Files!NextRow, Files!Missing, Files!Found,
              Files!Erase, Files!KeepDirectory, Files!UnregisterPath, Files!jobVars
<1>5. CASE DeleteReturns
  BY <1>5 DEF DeleteReturns, Erase, fileVars, removeVars
<1>6. CASE InstallReturns
  BY <1>6 DEF InstallReturns, fileVars, Files!InstallFails, Files!End
<1>7. CASE RegisterRow \/ RegisterRowFails \/ UnregisterRow \/ RemoveFails
  BY <1>7 DEF RegisterRow, RegisterRowFails, UnregisterRow, RemoveFails,
              Files!RegisterPackage, Files!InstallFails, Files!UnregisterPackage,
              Files!RemovalFails, Files!End
<1>8. CASE Kill
  BY <1>8 DEF Kill, Files!Crash, Files!End, fileVars
<1>9. CASE Decide
  <2>1. pc \notin {"erase", "unregister"}
    BY <1>9 DEF Decide, Begin, Install, Remove, FetchRequested, Download, DownloadFails,
                InstallDependency, DependenciesUnreadable, DependenciesDone, PopFromStack,
                ReturnToCaller, InstallEnds, RemoveRequested, RemoveRefused, RemoveSpins,
                KeepRow, RemoveRow, SpinOnRow, NextPass, CleanupEnds, CleanupFails
  <2> QED
    BY <1>9, <2>1 DEF Decide, fileVars
<1> QED
  BY <1>1, <1>2, <1>3, <1>4, <1>5, <1>6, <1>7, <1>8, <1>9 DEF PackdudeNext

(***************************************************************************)
(* Neither archive_extract nor package_remove is at a path of a package    *)
(* that is installed and that another one needs.                           *)
(***************************************************************************)
LEMMA WorksOnOthers ==
  ASSUME Separate(Files!File), StackInv, Files!FilesInv, OriginInv, VictimInv, ClosureInv,
         Extract \/ Delete,
         NEW p \in Installed, NEW q \in Installed, Needs(p, q),
         NEW f \in PathsOf(q) \cap Files!File
  PROVE  /\ target # q
         /\ fpc \in {"extract", "data", "erase", "unregister"} => f # path
<1>1. fpc \in Files!Installing \cup Files!Removing /\ q \in Package /\ p \in Package
  BY DEF Extract, Delete, Files!Extraction, Files!NextEntry, Files!SkipRoot,
         Files!RejectEntry, Files!EndOfArchive, Files!CorruptArchive, Files!RegisterPath,
         Files!RegisterPathFails, Files!WriteHeader, Files!HeaderFails, Files!CopyData,
         Files!WriteFails, Files!ReadFails, Files!Deletion, Files!NextRow, Files!Missing,
         Files!Found, Files!Erase, Files!KeepDirectory, Files!UnregisterPath,
         Files!Installing, Files!Removing, Files!FilesInv, Files!TypeOK
<1>2. target # q
  <2>1. CASE fpc \in Files!Installing
    BY <2>1 DEF OriginInv
  <2>2. CASE fpc \in Files!Removing
    <3>1. pc \in {"erase", "unregister"} /\ target = victim
      BY <2>2 DEF VictimInv
    <3>2. PICK i \in DOMAIN packages[p].deps : packages[p].deps[i] = q
      BY DEF Needs
    <3>3. i \in 1 .. Len(packages[p].deps)
      BY <1>1, <3>2, LenProperties DEF StackInv, TypeOK
    <3>4. p # q
      BY <3>2, <3>3 DEF ClosureInv, NoSelfDependency
    <3> QED
      BY <3>1, <3>2, <3>3, <3>4 DEF ClosureInv, NobodyNeedsVictim, Others
  <2> QED
    BY <1>1, <2>1, <2>2
<1>3. ASSUME fpc \in {"extract", "data", "erase", "unregister"}
      PROVE  f # path
  <2>1. target \in Package /\ path \in Path /\ origin[q] \in Archives[q]
    BY <1>1, <1>3 DEF OriginInv, PathsOf, PathsIn, Files!FilesInv, Files!JobInv,
                      Files!Installing, Files!Removing
  <2>2. \E a \in Archives[target] : path \in PathsIn(a)
    BY <1>3, <2>1 DEF OriginInv, PathsIn, Files!Installing, Files!Removing
  <2> QED
    BY <1>1, <1>2, <2>1, <2>2 DEF Separate, PathsOf
<1> QED
  BY <1>2, <1>3

LEMMA NeededFilesStep ==
  ASSUME Separate(Files!File), StackInv, Files!FilesInv, OriginInv, VictimInv, ClosureInv,
         [PackdudeNext]_allVars,
         NEW p \in Installed, NEW q \in Installed, Needs(p, q),
         NEW f \in PathsOf(q) \cap Files!File, InPlace(q, f)
  PROVE  InPlace(q, f)'
<1> USE DEF InPlace, Files!Listed
<1>1. CASE ~ Extract /\ ~ Delete
  BY <1>1, OtherSteps
<1>2. CASE Extract
  <2>1. Files!Extraction
    BY <1>2 DEF Extract
  <2>2. files \subseteq files'
    BY <2>1 DEF Files!Extraction, Files!NextEntry, Files!SkipRoot, Files!RejectEntry,
                Files!EndOfArchive, Files!CorruptArchive, Files!RegisterPath,
                Files!RegisterPathFails, Files!WriteHeader, Files!HeaderFails,
                Files!CopyData, Files!WriteFails, Files!ReadFails, Files!tableVars
  <2>3. CASE Files!WriteHeader \/ Files!HeaderFails
    <3>1. fpc = "extract" /\ f # path /\ f \in Path /\ path \in Path
      BY <1>2, <2>3, WorksOnOthers
         DEF Files!WriteHeader, Files!HeaderFails, Files!File, Files!FilesInv, Files!JobInv
    <3>2. f \notin Above[path]
      BY <3>1, PackdudeAssumption DEF Files!File
    <3> QED
      BY <2>2, <2>3, <3>1, <3>2
         DEF Files!WriteHeader, Files!HeaderFails, Files!diskVars, Files!Created,
             Files!FilesInv, Files!TypeOK
  <2>4. CASE ~ Files!WriteHeader /\ ~ Files!HeaderFails
    <3>1. owner' = owner /\ cut' \subseteq cut
      BY <2>1, <2>4
         DEF Files!Extraction, Files!NextEntry, Files!SkipRoot, Files!RejectEntry,
             Files!EndOfArchive, Files!CorruptArchive, Files!RegisterPath,
             Files!RegisterPathFails, Files!CopyData, Files!WriteFails, Files!ReadFails,
             Files!diskVars
    <3> QED
      BY <2>2, <3>1
  <2> QED
    BY <2>3, <2>4
<1>3. CASE Delete
  <2>1. Files!Deletion
    BY <1>3 DEF Delete
  <2>2. CASE Files!Erase \/ Files!UnregisterPath
    <3>1. f # path /\ f \in Path
      BY <1>3, <2>2, WorksOnOthers DEF Files!Erase, Files!UnregisterPath, Files!File
    <3> QED
      BY <2>2, <3>1 DEF Files!Erase, Files!UnregisterPath, Files!tableVars, Files!diskVars,
                        Files!FilesInv, Files!TypeOK
  <2>3. CASE Files!NextRow \/ Files!Missing \/ Files!Found \/ Files!KeepDirectory
    BY <2>3 DEF Files!NextRow, Files!Missing, Files!Found, Files!KeepDirectory,
                Files!tableVars, Files!diskVars
  <2> QED
    BY <2>1, <2>2, <2>3 DEF Files!Deletion
<1> QED
  BY <1>1, <1>2, <1>3

(***************************************************************************)
(* Whatever fails and whenever the process is killed, no step removes,     *)
(* cuts or unlists a file of a package that an installed package needs:    *)
(* what manager_can_remove found holds until package_remove is done, and   *)
(* of files package_remove and archive_extract touch only one package's.   *)
(* The catalogs have no cycle, memory lasts and no file is in the archives *)
(* of two packages; directories may be.                                    *)
(***************************************************************************)
THEOREM NeededPackagesKeepTheirFiles ==
  ASSUME Acyclic, "memory" \notin Faults, Separate(Files!File)
  PROVE  PackdudeSpec => NeededFilesStay
<1>1. PackdudeInit => OriginInv /\ VictimInv
  BY DEF PackdudeInit, Init, Files!Init, OriginInv, VictimInv, Files!Installing,
         Files!Removing
<1>2. Files!FilesInv /\ Files!FilesInv' /\ OriginInv /\ VictimInv /\ [PackdudeNext]_allVars
      => OriginInv' /\ VictimInv'
  BY OriginInvStep, VictimInvStep
<1>3. /\ StackInv /\ ClosureInv /\ Files!FilesInv /\ OriginInv /\ VictimInv
      /\ [PackdudeNext]_allVars
      => [\A p, q \in Installed :
            Needs(p, q) =>
              \A f \in PathsOf(q) \cap Files!File : InPlace(q, f) => InPlace(q, f)']_allVars
  BY NeededFilesStep
<1>4. Spec => []StackInv /\ []ClosureInv
  BY StackInvariant, ClosureInvariant
<1> QED
  BY <1>1, <1>2, <1>3, <1>4, ManagerIsImplemented, FilesStayInStep, PTL
     DEF PackdudeSpec, NeededFilesStay

-----------------------------------------------------------------------------
(* Directories *)

(***************************************************************************)
(* When archive_extract comes to an entry, the directories above it are    *)
(* there already, and a directory that is there is the package's own.      *)
(***************************************************************************)
LEMMA CreatesOnlyItsPath ==
  ASSUME Separate(Path), DirectoriesFirst,
         Files!FilesInv, OriginInv, ExtractedInv(Path), TreeInv, Files!WriteHeader,
         NEW f \in Path
  PROVE  owner'[f] = IF f = path THEN target ELSE owner[f]
<1>1. fpc = "extract" /\ fpc \in Files!Installing
  BY DEF Files!WriteHeader, Files!Installing
<1>2. /\ path \in Path /\ target \in Package /\ target # NoPackage
      /\ archive \in Archives[target] /\ entry \in DOMAIN archive /\ path = archive[entry]
  BY <1>1, ConstantsAssumption DEF OriginInv, Files!FilesInv, Files!JobInv, Files!Installing
<1>3. owner'[f] = IF Files!Created(f) /\ (~Files!Exists(f) \/ f \in Files!File)
                    THEN target ELSE owner[f]
  BY DEF Files!WriteHeader
<1>4. ASSUME f \in Above[path]
      PROVE  Files!Exists(f) /\ f \notin Files!File
  <2>1. f \in {archive[i] : i \in 1 .. entry - 1}
    BY <1>2, <1>4 DEF DirectoriesFirst
  <2>2. PICK i \in 1 .. entry - 1 : f = archive[i]
    BY <2>1
  <2>3. i \in DOMAIN archive /\ i < entry
    BY <1>2, <2>2 DEF Files!FilesInv, Files!TypeOK
  <2>4. f \in Extracted
    BY <2>2, <2>3 DEF Extracted, Through
  <2>5. owner[f] = target
    BY <1>1, <2>4 DEF ExtractedInv
  <2>6. f \in Dir
    BY <1>2, <1>4, PackdudeAssumption
  <2> QED
    BY <1>2, <2>5, <2>6 DEF Files!Exists, Files!File
<1>5. ASSUME Files!Exists(path)
      PROVE  owner[path] = target
  <2>1. owner[path] \in Package /\ \E a \in Archives[owner[path]] : path \in PathsIn(a)
    BY <1>2, <1>5 DEF TreeInv, OwnedInv, MetInv, VisitInv
  <2>2. path \in PathsIn(archive)
    BY <1>2 DEF PathsIn
  <2> QED
    BY <1>2, <2>1, <2>2 DEF Separate
<1> QED
  BY <1>3, <1>4, <1>5 DEF Files!Created

(***************************************************************************)
(* Whatever lies in a directory that package_remove comes to is the same   *)
(* package's, and package_remove met it before: the directory is empty.    *)
(***************************************************************************)
LEMMA MeetsEmptyDirectories ==
  ASSUME Separate(Path), DirectoriesFirst,
         Files!FilesInv, OriginInv, TreeInv, fpc = "erase"
  PROVE  Files!Holds(path) = {}
<1> SUFFICES ASSUME NEW f \in Path, path \in Above[f], Files!Exists(f)
             PROVE  FALSE
  BY DEF Files!Holds
<1>1. target \in Installed /\ target \in Package /\ path \in Path
  BY DEF OriginInv, Files!FilesInv, Files!JobInv, Files!Removing
<1>2. PICK a \in Archives[target] : path \in PathsIn(a)
  BY DEF OriginInv, Files!Removing
<1>3. owner[f] \in Package
  BY DEF TreeInv, OwnedInv, MetInv, VisitInv
<1>4. PICK b \in Archives[owner[f]] : f \in PathsIn(b)
  BY DEF TreeInv, OwnedInv, MetInv, VisitInv
<1>5. path \in PathsIn(b)
  <2>1. PICK j \in DOMAIN b : b[j] = f
    BY <1>4 DEF PathsIn
  <2>2. path \in {b[i] : i \in 1 .. j - 1}
    BY <1>3, <1>4, <2>1 DEF DirectoriesFirst
  <2>3. PICK i \in 1 .. j - 1 : path = b[i]
    BY <2>2
  <2>4. b \in Seq(Path \cup {RootDir, AbsolutePath})
    BY <1>3, <1>4, PackdudeAssumption
  <2>5. i \in DOMAIN b
    BY <2>1, <2>3, <2>4
  <2> QED
    BY <1>1, <2>3, <2>5 DEF PathsIn
<1>6. owner[f] = target
  BY <1>1, <1>2, <1>3, <1>4, <1>5 DEF Separate
<1>7. MetBefore(target, f, path)
  BY <1>1, <1>6 DEF TreeInv, OwnedInv, MetInv, VisitInv
<1>8. PICK r \in files : /\ r.package = target /\ r.path = f
                         /\ \A s \in files : s.package = target /\ s.path = path => s.id < r.id
  BY <1>7 DEF MetBefore
<1>9. r.id > cursor
  <2>1. PICK s \in files : s.package = target /\ s.path = path /\ s.id = cursor
    BY DEF TreeInv, OwnedInv, MetInv, VisitInv
  <2>2. s.id < r.id
    BY <1>8, <2>1
  <2> QED
    BY <2>1, <2>2 DEF Files!FilesInv, Files!TypeOK, Files!FileRow
<1> QED
  BY <1>8, <1>9 DEF TreeInv, OwnedInv, MetInv, VisitInv, Files!Visited, Files!Removing

(***************************************************************************)
(* When no row is ahead nothing of the package is left.                    *)
(***************************************************************************)
LEMMA LeavesNothing ==
  ASSUME Files!FilesInv, TreeInv, UnregisterRow, NEW f \in Path
  PROVE  owner[f] # target
<1> SUFFICES ASSUME owner[f] = target
             PROVE  FALSE
  OBVIOUS
<1>1. fpc = "rows" /\ Files!Ahead = {}
  BY DEF UnregisterRow, Files!UnregisterPackage
<1>2. target \in Package /\ cursor \in Nat /\ \A r \in files : r.id \in Nat
  BY <1>1 DEF Files!FilesInv, Files!TypeOK, Files!JobInv, Files!Removing, Files!FileRow
<1>3. Files!Exists(f)
  BY <1>2, ConstantsAssumption DEF Files!Exists
<1>4. PICK r \in files : r.package = target /\ r.path = f
  BY <1>3 DEF TreeInv, OwnedInv, MetInv, VisitInv, Files!Listed
<1>5. Files!Visited(r)
  BY <1>1, <1>2, <1>4 DEF Files!Ahead, Files!RowsOf, Files!Visited
<1> QED
  BY <1>1, <1>3, <1>4, <1>5 DEF TreeInv, OwnedInv, MetInv, VisitInv, Files!Removing

LEMMA RegisteredGrows ==
  ASSUME Files!FilesInv, Files!FilesInv', OriginInv, Extract
  PROVE  /\ Registered' \subseteq Registered \cup {path}
         /\ Registered' \subseteq Registered \/ Files!RegisterPath
<1> USE DEF Registered, Through
<1>1. /\ Files!Extraction /\ archive' = archive /\ entry \in Nat
      /\ DOMAIN archive \subseteq Nat
  BY DEF Extract, Files!Extraction, Files!NextEntry, Files!SkipRoot, Files!RejectEntry,
         Files!EndOfArchive, Files!CorruptArchive, Files!RegisterPath,
         Files!RegisterPathFails, Files!WriteHeader, Files!HeaderFails, Files!CopyData,
         Files!WriteFails, Files!ReadFails, Files!jobVars, Files!FilesInv, Files!TypeOK
<1>2. CASE \/ Files!NextEntry \/ Files!RejectEntry \/ Files!EndOfArchive
           \/ Files!CorruptArchive \/ Files!RegisterPathFails \/ Files!WriteHeader
           \/ Files!HeaderFails \/ Files!ReadFails
  <2>1. /\ entry' = entry
        /\ fpc' \in {"extract", "data"} => fpc \in {"extract", "data"}
    BY <1>2 DEF Files!NextEntry, Files!RejectEntry, Files!EndOfArchive,
                Files!CorruptArchive, Files!RegisterPathFails, Files!WriteHeader,
                Files!HeaderFails, Files!ReadFails
  <2> QED
    BY <1>1, <1>2, <2>1
<1>3. CASE Files!CopyData \/ Files!WriteFails
  <2>1. entry' = entry + 1 /\ fpc = "data" /\ fpc' = "header"
    BY <1>3 DEF Files!CopyData, Files!WriteFails
  <2>2. \A i \in DOMAIN archive : i < entry + 1 => i < entry \/ i = entry
    BY <1>1
  <2> QED
    BY <1>1, <1>3, <2>1, <2>2
<1>4. CASE Files!SkipRoot
  <2>1. /\ entry' = entry + 1 /\ fpc = "header" /\ fpc' = "header"
        /\ archive[entry] \notin Path
    BY <1>4, PackdudeAssumption DEF Files!SkipRoot
  <2>2. \A i \in DOMAIN archive : i < entry + 1 => i < entry \/ i = entry
    BY <1>1
  <2> QED
    BY <1>1, <1>4, <2>1, <2>2
<1>5. CASE Files!RegisterPath
  <2>1. entry' = entry /\ fpc = "register" /\ fpc' = "extract"
    BY <1>5 DEF Files!RegisterPath
  <2>2. path = archive[entry]
    BY <2>1 DEF OriginInv
  <2> QED
    BY <1>1, <1>5, <2>1, <2>2
<1> QED
  BY <1>1, <1>2, <1>3, <1>4, <1>5 DEF Files!Extraction

-----------------------------------------------------------------------------
(* The parts of TreeInv, step by step. *)

LEMMA OwnedInvStep ==
  ASSUME Noticed, Separate(Path), DirectoriesFirst,
         Files!FilesInv, OriginInv, ExtractedInv(Path), TreeInv, [PackdudeNext]_allVars
  PROVE  OwnedInv'
<1> USE DEF OwnedInv, Files!Exists, Files!Listed
<1>1. CASE ~ Extract /\ ~ Delete
  BY <1>1, OtherSteps DEF TreeInv
<1>2. CASE Extract
  <2>1. Files!Extraction
    BY <1>2 DEF Extract
  <2>2. CASE Files!WriteHeader
    <3>1. files' = files /\ fpc = "extract"
      BY <2>2 DEF Files!WriteHeader, Files!tableVars
    <3>2. /\ target \in Package /\ archive \in Archives[target] /\ path \in PathsIn(archive)
          /\ Files!Listed(target, path)
      BY <3>1 DEF OriginInv, Files!FilesInv, Files!JobInv, Files!OrderInv, Files!Installing,
                  PathsIn
    <3>3. \A f \in Path : owner'[f] = IF f = path THEN target ELSE owner[f]
      BY <2>2, CreatesOnlyItsPath
    <3> QED
      BY <3>1, <3>2, <3>3 DEF TreeInv
  <2>3. CASE ~ Files!WriteHeader
    <3>1. owner' = owner /\ files \subseteq files'
      BY <2>1, <2>3
         DEF Noticed, Files!Extraction, Files!NextEntry, Files!SkipRoot,
             Files!RejectEntry, Files!EndOfArchive, Files!CorruptArchive,
             Files!RegisterPath, Files!RegisterPathFails, Files!HeaderFails,
             Files!CopyData, Files!WriteFails, Files!ReadFails, Files!tableVars,
             Files!diskVars
    <3> QED
      BY <3>1 DEF TreeInv
  <2> QED
    BY <2>2, <2>3
<1>3. CASE Delete
  <2>1. Files!Deletion
    BY <1>3 DEF Delete
  <2>2. CASE Files!Erase
    <3>1. /\ files' = files
          /\ \A f \in Path : owner'[f] = owner[f] \/ owner'[f] = NoPackage
      BY <2>2 DEF Files!Erase, Files!tableVars, Files!FilesInv, Files!TypeOK
    <3> QED
      BY <3>1 DEF TreeInv
  <2>3. CASE Files!UnregisterPath
    BY <2>3 DEF TreeInv, VisitInv, Files!UnregisterPath, Files!diskVars
  <2>4. CASE Files!NextRow \/ Files!Missing \/ Files!Found \/ Files!KeepDirectory
    BY <2>4 DEF TreeInv, Files!NextRow, Files!Missing, Files!Found, Files!KeepDirectory,
                Files!diskVars, Files!tableVars
  <2> QED
    BY <2>1, <2>2, <2>3, <2>4 DEF Files!Deletion
<1> QED
  BY <1>1, <1>2, <1>3
LEMMA MetInvStep ==
  ASSUME Noticed, Separate(Path), DirectoriesFirst, SameDirectories,
         Files!FilesInv, Files!FilesInv', OriginInv, EndInv, ExtractedInv(Path), TreeInv,
         [PackdudeNext]_allVars
  PROVE  MetInv'
<1> USE DEF MetInv, MetBefore
<1>1. CASE ~ Extract /\ ~ Delete /\ ~ RegisterRow
  <2>1. UNCHANGED <<owner, files>> /\ Installed' \subseteq Installed
    BY <1>1, OtherSteps
  <2>2. CASE UNCHANGED <<archive, entry, fpc, target>>
    BY <2>1, <2>2 DEF TreeInv, Registered, Through
  <2>3. CASE fpc' = "header" /\ entry' = 1
    <3>1. archive' \in Seq(Path \cup {RootDir, AbsolutePath})
      BY DEF Files!FilesInv, Files!TypeOK
    <3>2. Registered' = {}
      BY <2>3, <3>1 DEF Registered, Through
    <3> QED
      BY <2>1, <3>2 DEF TreeInv
  <2>4. CASE fpc' \in {"idle", "rows"}
    BY <2>1, <2>4 DEF TreeInv, Files!Installing
  <2> QED
    BY <1>1, <2>2, <2>3, <2>4, OtherSteps
<1>2. CASE RegisterRow
  <2>1. /\ UNCHANGED <<owner, files>> /\ Installed' = Installed \cup {target}
        /\ fpc = "extracted" /\ result = OK /\ fpc' = "idle"
    BY <1>2 DEF RegisterRow, Files!RegisterPackage, Files!End, Files!diskVars, Files!OK, OK
  <2>2. /\ target \in Package /\ archive \in Archives[target] /\ entry > Len(archive)
        /\ DOMAIN archive = 1 .. Len(archive) /\ Len(archive) \in Nat /\ entry \in Nat
    BY <2>1 DEF OriginInv, EndInv, Files!FilesInv, Files!JobInv, Files!TypeOK,
                Files!Installing
  <2>3. PathsIn(archive) \subseteq Registered
    BY <2>2 DEF PathsIn, Registered, Through
  <2>4. ASSUME NEW f \in Path, owner[f] = target, NEW d \in Above[f]
        PROVE  MetBefore(target, f, d)
    <3>1. PICK a \in Archives[target] : f \in PathsIn(a)
      BY <2>2, <2>4, ConstantsAssumption DEF TreeInv, OwnedInv, Files!Exists
    <3>2. CASE f \in PathsIn(archive)
      BY <2>1, <2>3, <2>4, <3>2 DEF TreeInv, Files!Installing
    <3>3. CASE f \notin PathsIn(archive)
      BY <2>2, <2>4, <3>1, <3>3 DEF SameDirectories
    <3> QED
      BY <3>2, <3>3
  <2> QED
    BY <2>1, <2>4 DEF TreeInv, Files!Installing
<1>3. CASE Extract
  <2>1. /\ Files!Extraction /\ Installed' = Installed
    BY <1>3 DEF Extract, vars, Installed
  <2>2. /\ fpc \in Files!Installing /\ target' = target /\ archive' = archive
        /\ Files!WriteHeader \/ owner' = owner
        /\ Files!RegisterPath \/ files' = files
    BY <2>1
       DEF Noticed, Files!Extraction, Files!NextEntry, Files!SkipRoot, Files!RejectEntry,
           Files!EndOfArchive, Files!CorruptArchive, Files!RegisterPath,
           Files!RegisterPathFails, Files!WriteHeader, Files!HeaderFails,
           Files!CopyData, Files!WriteFails, Files!ReadFails, Files!tableVars,
           Files!diskVars, Files!jobVars, Files!Installing
  <2>3. target \in Package /\ target \notin Installed /\ archive \in Archives[target]
    BY <2>2 DEF OriginInv, Files!FilesInv, Files!JobInv, Files!Installing
  <2>4. ASSUME NEW p \in Package, p # target,
               NEW f \in Path, NEW d \in Above[f], MetBefore(p, f, d)
        PROVE  MetBefore(p, f, d)'
    BY <2>2, <2>4 DEF Files!RegisterPath
  <2>5. ASSUME NEW p \in Installed, NEW f \in Path, owner'[f] = p
        PROVE  owner[f] = p
    BY <2>2, <2>3, <2>5, CreatesOnlyItsPath
  <2>6. ASSUME NEW f \in Registered', NEW d \in Above[f]
        PROVE  MetBefore(target, f, d)'
    <3>1. CASE ~ Files!RegisterPath
      <4>1. f \in Registered
        BY <1>3, <2>6, <3>1, RegisteredGrows
      <4> QED
        BY <2>2, <2>6, <3>1, <4>1 DEF TreeInv
    <3>2. CASE Files!RegisterPath
      <4>1. PICK n \in 1 .. MaxRows :
              /\ \A r \in files : r.id < n
              /\ files' = files \cup {[package |-> target, path |-> path, id |-> n]}
        BY <3>2 DEF Files!RegisterPath, Files!IsNextId
      <4>2. fpc = "register"
        BY <3>2 DEF Files!RegisterPath
      <4>3. entry \in DOMAIN archive /\ path = archive[entry] /\ path \in Path
        BY <4>2 DEF OriginInv, Files!FilesInv, Files!JobInv
      <4>4. CASE f = path
        <5>1. d # f /\ d \in Dir
          BY <2>6, <4>3, <4>4, PackdudeAssumption
        <5> DEFINE row == [package |-> target, path |-> path, id |-> n]
        <5>2. row \in files' /\ row.package = target' /\ row.path = f /\ row.id = n
          BY <2>2, <4>1, <4>4
        <5>3. \A s \in files' : s.path = d => s.id < row.id
          BY <4>1, <4>4, <5>1
        <5> QED
          BY <5>2, <5>3
      <4>5. CASE f # path
        <5>1. f \in Registered
          BY <1>3, <2>6, <4>5, RegisteredGrows
        <5>2. PICK i \in DOMAIN archive : archive[i] = f /\ i < entry /\ f \in Path
          BY <4>2, <5>1 DEF Registered, Through
        <5>3. /\ DOMAIN archive = 1 .. Len(archive) /\ Len(archive) \in Nat
              /\ entry \in i .. Len(archive)
          BY <4>3, <5>2 DEF Files!FilesInv, Files!TypeOK
        <5>4. path \notin Above[f]
          BY <2>3, <4>3, <5>2, <5>3 DEF DirectoriesFirst
        <5>5. MetBefore(target, f, d)
          BY <2>2, <2>6, <5>1 DEF TreeInv
        <5> QED
          BY <2>2, <2>6, <4>1, <5>4, <5>5
      <4> QED
        BY <4>4, <4>5
    <3> QED
      BY <3>1, <3>2
  <2>7. Installed \subseteq Package
    BY DEF Files!FilesInv, Files!TypeOK
  <2> QED
    BY <2>1, <2>2, <2>3, <2>4, <2>5, <2>6, <2>7 DEF TreeInv
<1>4. CASE Delete
  <2>1. Files!Deletion /\ Installed' = Installed
    BY <1>4 DEF Delete, vars, Installed
  <2>2. fpc' \in Files!Removing /\ fpc \in Files!Removing
    BY <2>1 DEF Files!Deletion, Files!NextRow, Files!Missing, Files!Found, Files!Erase,
                Files!KeepDirectory, Files!UnregisterPath, Files!Removing
  <2>3. ASSUME NEW p \in Installed, NEW f \in Path, owner'[f] = p
        PROVE  /\ owner[f] = p
               /\ \A r \in files : r.path = f => r \in files'
               /\ files' \subseteq files
    <3>1. p \in Package /\ p # NoPackage
      BY ConstantsAssumption DEF Files!FilesInv, Files!TypeOK
    <3>2. CASE Files!Erase
      BY <2>3, <3>1, <3>2 DEF Files!Erase, Files!tableVars, Files!FilesInv, Files!TypeOK
    <3>3. CASE Files!UnregisterPath
      BY <2>3, <3>1, <3>3
         DEF Files!UnregisterPath, Files!diskVars, TreeInv, VisitInv, Files!Exists
    <3>4. CASE Files!NextRow \/ Files!Missing \/ Files!Found \/ Files!KeepDirectory
      BY <2>3, <3>4 DEF Files!NextRow, Files!Missing, Files!Found, Files!KeepDirectory,
                        Files!diskVars, Files!tableVars
    <3> QED
      BY <2>1, <3>2, <3>3, <3>4 DEF Files!Deletion
  <2>4. ASSUME NEW p \in Installed, NEW f \in Path, owner'[f] = p, NEW d \in Above[f]
        PROVE  MetBefore(p, f, d)'
    <3>1. MetBefore(p, f, d)
      BY <2>3, <2>4 DEF TreeInv
    <3> QED
      BY <2>3, <2>4, <3>1
  <2> QED
    BY <2>1, <2>2, <2>4 DEF Files!Installing, Files!Removing
<1> QED
  BY <1>1, <1>2, <1>3, <1>4

LEMMA VisitInvStep ==
  ASSUME "readonly" \notin Environment, Separate(Path), DirectoriesFirst,
         Files!FilesInv, Files!FilesInv', OriginInv, TreeInv, [PackdudeNext]_allVars
  PROVE  VisitInv'
<1> USE DEF VisitInv
<1>1. CASE ~ Extract /\ ~ Delete
  <2>1. UNCHANGED <<owner, files>>
    BY <1>1, OtherSteps
  <2>2. CASE UNCHANGED <<fpc, target, path, cursor>>
    BY <2>1, <2>2 DEF TreeInv, Files!Visited, Files!Exists
  <2>3. CASE fpc' \in {"idle", "header"}
    BY <2>3 DEF Files!Removing
  <2>4. CASE fpc' = "rows" /\ cursor' = MaxRows + 1
    <3>1. \A r \in files' : r.id \in 1 .. MaxRows
      BY DEF Files!FilesInv, Files!TypeOK, Files!FileRow
    <3>2. \A r \in files' : ~ Files!Visited(r)'
      BY <2>4, <3>1, PackdudeAssumption DEF Files!Visited
    <3> QED
      BY <2>4, <3>2
  <2> QED
    BY <1>1, <2>2, <2>3, <2>4, OtherSteps
<1>2. CASE Extract
  <2>1. fpc' \in Files!Installing
    BY <1>2 DEF Extract, Files!Extraction, Files!NextEntry, Files!SkipRoot, Files!RejectEntry,
           Files!EndOfArchive, Files!CorruptArchive, Files!RegisterPath,
           Files!RegisterPathFails, Files!WriteHeader, Files!HeaderFails,
           Files!CopyData, Files!WriteFails, Files!ReadFails, Files!Installing
  <2> QED
    BY <2>1 DEF Files!Installing, Files!Removing
<1>3. CASE Delete
  <2>1. Files!Deletion
    BY <1>3 DEF Delete
  <2>2. /\ \A r \in files : r.id \in Nat /\ r.package \in Package
        /\ cursor \in Nat
    BY DEF Files!FilesInv, Files!TypeOK, Files!FileRow
  <2>3. CASE Files!NextRow
    <3>1. PICK r \in Files!Ahead :
            /\ \A other \in Files!Ahead : other.id <= r.id
            /\ cursor' = r.id /\ path' = r.path
      BY <2>3 DEF Files!NextRow
    <3>2. /\ fpc = "rows" /\ fpc' = "lstat" /\ UNCHANGED <<files, owner, target>>
      BY <2>3 DEF Files!NextRow, Files!tableVars, Files!diskVars, Files!jobVars
    <3>3. r \in files /\ r.package = target /\ r.id < cursor
      BY <3>1 DEF Files!Ahead, Files!RowsOf
    <3>4. ASSUME NEW s \in files, Files!Visited(s)'
          PROVE  Files!Visited(s)
      BY <2>2, <3>1, <3>2, <3>3, <3>4 DEF Files!Visited, Files!Ahead, Files!RowsOf
    <3> QED
      BY <3>1, <3>2, <3>3, <3>4 DEF TreeInv, Files!Exists, Files!Removing
  <2>4. CASE Files!Missing
    <3>1. /\ fpc = "lstat" /\ ~ Files!Exists(path) /\ fpc' = "rows"
          /\ UNCHANGED <<files, owner, target, path, cursor>>
      BY <2>4 DEF Files!Missing, Files!tableVars, Files!diskVars, Files!jobVars
    <3>2. ASSUME NEW s \in files, Files!Visited(s)'
          PROVE  ~ Files!Exists(s.path)
      <4>1. Files!Visited(s) \/ (s.package = target /\ s.id = cursor)
        BY <3>1, <3>2 DEF Files!Visited
      <4>2. s.package = target /\ s.id = cursor => s.path = path
        BY <3>1 DEF Files!FilesInv, Files!RowsInv, Files!Removing
      <4> QED
        BY <3>1, <4>1, <4>2 DEF TreeInv, Files!Removing
    <3> QED
      BY <3>1, <3>2 DEF Files!Exists
  <2>5. CASE Files!Found
    BY <2>5 DEF TreeInv, Files!Found, Files!tableVars, Files!diskVars, Files!jobVars,
                Files!Visited, Files!Exists, Files!Removing
  <2>6. CASE Files!Erase
    <3>1. /\ fpc = "erase" /\ fpc' = "unregister"
          /\ UNCHANGED <<files, target, path, cursor>> /\ path \in Path
          /\ \A f \in Path : owner'[f] = IF f = path THEN NoPackage ELSE owner[f]
      BY <2>6 DEF Files!Erase, Files!tableVars, Files!jobVars, Files!FilesInv, Files!TypeOK,
                  Files!JobInv
    <3>2. \A r \in files : r.path \in Path
      BY DEF Files!FilesInv, Files!TypeOK, Files!FileRow
    <3> QED
      BY <3>1, <3>2 DEF TreeInv, Files!Visited, Files!Exists, Files!Removing
  <2>7. CASE Files!KeepDirectory
    BY <2>7, MeetsEmptyDirectories DEF Files!KeepDirectory
  <2>8. CASE Files!UnregisterPath
    <3>1. /\ fpc = "unregister" /\ fpc' = "rows"
          /\ UNCHANGED <<owner, target, path, cursor>>
          /\ files' = {r \in files : r.path # path}
      BY <2>8 DEF Files!UnregisterPath, Files!diskVars, Files!jobVars
    <3>2. ASSUME NEW s \in files', Files!Visited(s)'
          PROVE  Files!Visited(s)
      BY <3>1, <3>2 DEF Files!Visited, Files!FilesInv, Files!RowsInv, Files!Removing
    <3> QED
      BY <3>1, <3>2 DEF TreeInv, Files!Exists, Files!Removing
  <2> QED
    BY <2>1, <2>3, <2>4, <2>5, <2>6, <2>7, <2>8 DEF Files!Deletion
<1> QED
  BY <1>1, <1>2, <1>3
LEMMA DiskInvStep ==
  ASSUME Noticed, "readonly" \notin Environment,
         Separate(Path), DirectoriesFirst, SameDirectories,
         Files!FilesInv, Files!FilesInv', DiskInv, [PackdudeNext]_allVars
  PROVE  DiskInv'
<1>1. OriginInv' /\ EndInv' /\ OwnedInv' /\ MetInv' /\ VisitInv'
  BY OriginInvStep, EndInvStep, OwnedInvStep, MetInvStep, VisitInvStep DEF DiskInv
<1>2. ASSUME Files!WriteHeader, NEW f \in Path
      PROVE  owner'[f] = IF f = path THEN target ELSE owner[f]
  BY <1>2, CreatesOnlyItsPath DEF DiskInv
<1>3. ASSUME UnregisterRow, NEW f \in Path
      PROVE  owner[f] # target
  BY <1>3, LeavesNothing DEF DiskInv
<1> QED
  BY <1>1, <1>2, <1>3, MatchStep DEF DiskInv, TreeInv, DiskMatchesTable

(***************************************************************************)
(* The same of everything a package brings, its directories included: they *)
(* are there, and are the package's, while it is installed, and nothing of *)
(* a package that is not installed is left.  Here every path must belong   *)
(* to one package, a directory must come before what lies in it, and rmdir *)
(* must not fail for another reason than what lies in the directory.       *)
(***************************************************************************)
THEOREM DiskIsAsTheTableSays ==
  ASSUME Noticed, "readonly" \notin Environment,
         Separate(Path), DirectoriesFirst, SameDirectories
  PROVE  PackdudeSpec => []DiskMatchesTable
<1>1. PackdudeInit => DiskInv
  BY ConstantsAssumption, PackdudeAssumption
     DEF PackdudeInit, Init, Files!Init, DiskInv, OriginInv, EndInv, ExtractedInv, TreeInv,
         OwnedInv, MetInv, VisitInv, DiskMatchesTable, MatchesTable, Files!Installing,
         Files!Removing, Files!Exists, Installed, PathsOf, PathsIn
<1>2. Files!FilesInv /\ Files!FilesInv' /\ DiskInv /\ [PackdudeNext]_allVars => DiskInv'
  BY DiskInvStep
<1>3. DiskInv => DiskMatchesTable
  BY DEF DiskInv
<1> QED
  BY <1>1, <1>2, <1>3, FilesStayInStep, PTL DEF PackdudeSpec
=============================================================================
