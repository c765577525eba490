----------------------------- MODULE FilesProofs -----------------------------
(***************************************************************************)
(* Proofs about PackageOps: the files table and the disk cannot change     *)
(* together, and stay in step all the same because of the order of the     *)
(* steps.                                                                  *)
(***************************************************************************)
EXTENDS PackageOps, TLAPS

-----------------------------------------------------------------------------
(* Types, and what runs. *)

TypeInv == TypeOK /\ JobInv

(***************************************************************************)
(* A new row has an identifier that no row has.                            *)
(***************************************************************************)
LEMMA NextIdIsFresh ==
  ASSUME NEW n, IsNextId(n), files \subseteq FileRow
  PROVE  \A r \in files : r.id # n
BY DEF IsNextId, FileRow

(***************************************************************************)
(* The steps of an installation preserve types.                            *)
(***************************************************************************)
LEMMA InstallStepKeepsTypes ==
  ASSUME TypeInv, InstallStep
  PROVE  TypeInv'
<1> USE FilesAssumption
    DEF TypeInv, TypeOK, JobInv, Installing, Removing, Control, tableVars, diskVars,
        jobVars, File
<1>1. CASE NextEntry
  BY <1>1 DEF NextEntry
<1>2. CASE SkipRoot
  BY <1>2 DEF SkipRoot
<1>3. CASE RejectEntry \/ EndOfArchive \/ CorruptArchive
  BY <1>3 DEF RejectEntry, EndOfArchive, CorruptArchive
<1>4. CASE RegisterPath
  BY <1>4 DEF RegisterPath, FileRow
<1>5. CASE RegisterPathFails
  BY <1>5 DEF RegisterPathFails
<1>6. CASE WriteHeader
  BY <1>6 DEF WriteHeader
<1>7. CASE HeaderFails
  BY <1>7 DEF HeaderFails
<1>8. CASE CopyData \/ WriteFails
  BY <1>8 DEF CopyData, WriteFails
<1>9. CASE ReadFails
  BY <1>9 DEF ReadFails
<1>10. CASE RegisterPackage \/ InstallFails
  BY <1>10 DEF RegisterPackage, InstallFails, End
<1> QED
  BY <1>1, <1>2, <1>3, <1>4, <1>5, <1>6, <1>7, <1>8, <1>9, <1>10 DEF InstallStep, Extraction

(***************************************************************************)
(* Every step preserves types.                                             *)
(***************************************************************************)
LEMMA TypeStep == TypeInv /\ [Next]_vars => TypeInv'
<1> SUFFICES ASSUME TypeInv, [Next]_vars PROVE TypeInv'
  OBVIOUS
<1> USE FilesAssumption
    DEF TypeInv, TypeOK, JobInv, Installing, Removing, Control, tableVars, diskVars,
        jobVars, File
<1>1. CASE UNCHANGED vars
  BY <1>1 DEF vars
<1>2. ASSUME NEW pkg \in Package, Remove(pkg)
      PROVE  TypeInv'
  BY <1>2 DEF Remove
<1>3. ASSUME NEW pkg \in Package, NEW contents \in Archives[pkg], Install(pkg, contents)
      PROVE  TypeInv'
  BY <1>3 DEF Install
<1>4. CASE InstallStep
  BY <1>4, InstallStepKeepsTypes
<1>5. CASE NextRow
  BY <1>5 DEF NextRow, Ahead, RowsOf, FileRow
<1>6. CASE Missing \/ Found \/ Erase \/ KeepDirectory \/ UnregisterPath
  BY <1>6 DEF Missing, Found, Erase, KeepDirectory, UnregisterPath
<1>7. CASE RemovalFails \/ UnregisterPackage \/ Crash
  BY <1>7 DEF RemovalFails, UnregisterPackage, Crash, End
<1>8. ASSUME NEW p \in Path, UserActs(p)
      PROVE  TypeInv'
  BY <1>8 DEF UserActs
<1> QED
  BY <1>1, <1>2, <1>3, <1>4, <1>5, <1>6, <1>7, <1>8 DEF Next, RemoveStep, Deletion

(***************************************************************************)
(* Every reachable state of PackageOps is well typed, and the process      *)
(* works on a package and on a path of the archive or of the table.        *)
(***************************************************************************)
THEOREM TypeInvariant == Spec => []TypeInv
<1>1. Init => TypeInv
  BY FilesAssumption
     DEF Init, TypeInv, TypeOK, JobInv, Installing, Removing, Control
<1> QED
  BY <1>1, TypeStep, PTL DEF Spec

(***************************************************************************)
(* The state of PackageOps stays well typed.                               *)
(***************************************************************************)
THEOREM FilesTypeCorrect == Spec => []TypeOK
<1>1. TypeInv => TypeOK
  BY DEF TypeInv
<1> QED
  BY <1>1, TypeInvariant, PTL

-----------------------------------------------------------------------------
(* The table and the disk. *)

(***************************************************************************)
(* FilesInv but for types.                                                 *)
(***************************************************************************)
TableInv == RowsInv /\ OrderInv /\ OwnedFilesAreRegistered /\ RemovedFilesAreGone

(***************************************************************************)
(* A step that leaves the table and the disk alone, and either stays at    *)
(* its place of a removal or is not in one.                                *)
(***************************************************************************)
LEMMA QuietStepKeepsTableInv ==
  ASSUME TableInv, UNCHANGED <<files, owner>>,
         pc' \in Control \ Removing, pc' # "extract",
         ~Succeeded("remove")'
  PROVE  TableInv'
BY DEF TableInv, RowsInv, OrderInv, OwnedFilesAreRegistered, RemovedFilesAreGone,
       Removing, Control

(***************************************************************************)
(* The steps of an installation: a row before each file.                   *)
(***************************************************************************)
LEMMA InstallStepKeepsTableInv ==
  ASSUME TypeInv, TableInv, InstallStep
  PROVE  TableInv'
<1> USE FilesAssumption DEF Removing, Control, Succeeded
<1>1. op = "install" /\ name \in Package
  BY DEF InstallStep, Extraction, NextEntry, SkipRoot, RejectEntry, EndOfArchive, CorruptArchive,
         RegisterPath, RegisterPathFails, WriteHeader, HeaderFails, CopyData,
         WriteFails, ReadFails, RegisterPackage, InstallFails, TypeInv, JobInv, Installing
<1>2. CASE \/ NextEntry \/ SkipRoot \/ RejectEntry \/ EndOfArchive \/ CorruptArchive
           \/ RegisterPathFails \/ CopyData \/ WriteFails \/ ReadFails
  BY <1>1, <1>2, QuietStepKeepsTableInv
     DEF NextEntry, SkipRoot, RejectEntry, EndOfArchive, CorruptArchive,
         RegisterPathFails, CopyData, WriteFails, ReadFails, tableVars, diskVars, jobVars
<1>3. CASE RegisterPackage \/ InstallFails
  BY <1>1, <1>3, QuietStepKeepsTableInv
     DEF RegisterPackage, InstallFails, End, tableVars, diskVars, jobVars
<1>4. CASE RegisterPath
  <2>1. PICK n \in 1 .. MaxRows :
          /\ IsNextId(n)
          /\ files' = files \cup {[package |-> name, path |-> path, id |-> n]}
    BY <1>4 DEF RegisterPath
  <2>2. \A r \in files : r.id # n
    BY <2>1, NextIdIsFresh DEF TypeInv, TypeOK
  <2>3. pc' = "extract" /\ UNCHANGED <<owner, op, name, path>>
    BY <1>4 DEF RegisterPath, diskVars, jobVars
  <2>4. RowsInv'
    BY <2>1, <2>2, <2>3 DEF RowsInv, TableInv
  <2>5. OrderInv'
    <3>1. [package |-> name, path |-> path, id |-> n] \in files'
      BY <2>1
    <3>2. Listed(name, path)'
      BY <2>3, <3>1 DEF Listed
    <3> QED
      BY <2>3, <3>2 DEF OrderInv
  <2>6. OwnedFilesAreRegistered' /\ RemovedFilesAreGone'
    BY <2>1, <2>3 DEF TableInv, OwnedFilesAreRegistered, RemovedFilesAreGone
  <2> QED
    BY <2>4, <2>5, <2>6 DEF TableInv
<1>5. CASE WriteHeader
  <2>1. /\ pc = "extract" /\ pc' = "data"
        /\ UNCHANGED <<files, op, name, path, cursor>>
        /\ \A f \in File : owner'[f] = IF f = path THEN name ELSE owner[f]
    BY <1>5 DEF WriteHeader, Created, TypeInv, TypeOK, JobInv, File, tableVars, jobVars
  <2>2. Listed(name, path)
    BY <2>1 DEF TableInv, OrderInv
  <2>3. OwnedFilesAreRegistered'
    BY <2>1, <2>2 DEF TableInv, OwnedFilesAreRegistered, Listed
  <2> QED
    BY <2>1, <2>3 DEF TableInv, RowsInv, OrderInv, RemovedFilesAreGone
<1>6. CASE HeaderFails
  <2>1. /\ pc' = "extracted"
        /\ UNCHANGED <<files, op, name>>
        /\ \A f \in File : owner'[f] \in {owner[f], Nobody}
    BY <1>6 DEF HeaderFails, TypeInv, TypeOK, File, tableVars, diskVars, jobVars
  <2> QED
    BY <2>1 DEF TableInv, RowsInv, OrderInv, OwnedFilesAreRegistered, RemovedFilesAreGone
<1> QED
  BY <1>2, <1>3, <1>4, <1>5, <1>6 DEF InstallStep, Extraction

(***************************************************************************)
(* The SELECT goes down to the next row of the package.                    *)
(***************************************************************************)
LEMMA NextRowKeepsTableInv ==
  ASSUME TypeInv, TableInv, NextRow
  PROVE  TableInv'
<1>1. PICK r \in Ahead : /\ \A other \in Ahead : other.id <= r.id
                         /\ cursor' = r.id /\ path' = r.path
  BY DEF NextRow
<1>2. /\ pc = "rows" /\ pc' = "lstat"
      /\ UNCHANGED <<files, owner, name>>
  BY DEF NextRow, tableVars, diskVars, jobVars
<1>3. r \in files /\ r.package = name
  BY <1>1 DEF Ahead, RowsOf
<1>4. \A s \in files : s.id \in Nat /\ cursor \in Nat
  BY DEF TypeInv, TypeOK, FileRow
<1>5. \A s \in files : Visited(s)' => Visited(s)
  <2> SUFFICES ASSUME NEW s \in files, Visited(s)' PROVE Visited(s)
    OBVIOUS
  <2>1. s.package = name /\ s.id > r.id
    BY <1>1, <1>2 DEF Visited
  <2>2. s \notin Ahead
    BY <1>1, <1>3, <1>4, <2>1
  <2> QED
    BY <1>2, <1>4, <2>1, <2>2 DEF Visited, Ahead, RowsOf
<1>6. RowsInv'
  BY <1>1, <1>2, <1>3, <1>5 DEF TableInv, RowsInv, Removing
<1>7. OrderInv'
  BY <1>1, <1>2, <1>3 DEF OrderInv, Listed
<1> QED
  BY <1>2, <1>6, <1>7
     DEF TableInv, OwnedFilesAreRegistered, RemovedFilesAreGone, Succeeded

(***************************************************************************)
(* _remove_file: the file goes before its row.                             *)
(***************************************************************************)
LEMMA RemoveFileKeepsTableInv ==
  ASSUME TypeInv, TableInv,
         Missing \/ Found \/ Erase \/ KeepDirectory \/ UnregisterPath
  PROVE  TableInv'
<1> USE FilesAssumption DEF Removing, Succeeded, TableInv
<1>1. CASE Missing
  <2>1. owner[path] \notin Package
    BY <1>1 DEF Missing, Exists
  <2>2. /\ pc = "lstat" /\ pc' = "rows"
        /\ UNCHANGED <<files, owner, name, cursor, path>>
    BY <1>1 DEF Missing, tableVars, diskVars, jobVars
  <2>3. name \in Package
    BY <2>2 DEF TypeInv, JobInv
  <2> QED
    BY <2>1, <2>2, <2>3
       DEF RowsInv, Visited, OrderInv, OwnedFilesAreRegistered, RemovedFilesAreGone
<1>2. CASE Found
  BY <1>2 DEF Found, RowsInv, Visited, OrderInv, Listed, OwnedFilesAreRegistered,
              RemovedFilesAreGone, tableVars, diskVars, jobVars
<1>3. CASE Erase
  <2>1. /\ pc = "erase" /\ pc' = "unregister"
        /\ owner' = [owner EXCEPT ![path] = Nobody]
        /\ UNCHANGED <<files, name, cursor, path>>
    BY <1>3 DEF Erase, tableVars, jobVars
  <2>2. path \in Path /\ name \in Package /\ owner \in [Path -> Package \cup {Nobody, User}]
    BY <2>1 DEF TypeInv, TypeOK, JobInv
  <2>3. \A f \in File : owner'[f] = IF f = path THEN Nobody ELSE owner[f]
    BY <2>1, <2>2 DEF File
  <2> QED
    BY <2>1, <2>2, <2>3
       DEF RowsInv, Visited, OrderInv, OwnedFilesAreRegistered, RemovedFilesAreGone
<1>4. CASE KeepDirectory
  <2>1. path \notin File
    BY <1>4 DEF KeepDirectory, File
  <2> QED
    BY <1>4, <2>1 DEF KeepDirectory, RowsInv, Visited, OrderInv,
              OwnedFilesAreRegistered, RemovedFilesAreGone, tableVars, diskVars, jobVars
<1>5. CASE UnregisterPath
  <2>1. /\ pc = "unregister" /\ pc' = "rows"
        /\ files' = {r \in files : r.path # path}
        /\ UNCHANGED <<owner, name, cursor, path>>
    BY <1>5 DEF UnregisterPath, diskVars, jobVars
  <2>2. RowsInv'
    BY <2>1 DEF RowsInv, Visited
  <2>3. OwnedFilesAreRegistered'
    BY <2>1 DEF OrderInv, OwnedFilesAreRegistered
  <2> QED
    BY <2>1, <2>2, <2>3 DEF OrderInv, RemovedFilesAreGone
<1> QED
  BY <1>1, <1>2, <1>3, <1>4, <1>5

(***************************************************************************)
(* When no row of the package is left to visit, none of its files is.      *)
(***************************************************************************)
LEMMA UnregisterPackageKeepsTableInv ==
  ASSUME TypeInv, TableInv, UnregisterPackage
  PROVE  TableInv'
<1>1. /\ pc = "rows" /\ Ahead = {} /\ pc' = "idle"
      /\ UNCHANGED <<files, owner, op, name>>
  BY DEF UnregisterPackage, End, diskVars, jobVars
<1>2. name \in Package /\ cursor \in Nat /\ \A r \in files : r.id \in Nat
  BY <1>1 DEF TypeInv, TypeOK, JobInv, Removing, FileRow
<1>3. \A r \in files : r.package = name => Visited(r)
  BY <1>1, <1>2 DEF Ahead, RowsOf, Visited
<1>4. ASSUME NEW f \in File, owner[f] = name
      PROVE  FALSE
  <2>1. PICK r \in files : r.package = name /\ r.path = f
    BY <1>2, <1>4 DEF TableInv, OwnedFilesAreRegistered
  <2> QED
    BY <1>1, <1>3, <1>4, <2>1 DEF TableInv, RowsInv, Removing
<1> QED
  BY <1>1, <1>4 DEF TableInv, RowsInv, OrderInv, OwnedFilesAreRegistered,
                    RemovedFilesAreGone, Removing

(***************************************************************************)
(* Every step keeps the table and the disk in step.                        *)
(***************************************************************************)
LEMMA TableInvStep == TypeInv /\ TableInv /\ [Next]_vars => TableInv'
<1> SUFFICES ASSUME TypeInv, TableInv, [Next]_vars PROVE TableInv'
  OBVIOUS
<1>1. CASE UNCHANGED vars
  BY <1>1 DEF vars, TableInv, RowsInv, Visited, OrderInv, Listed,
              OwnedFilesAreRegistered, RemovedFilesAreGone, Succeeded
<1>2. ASSUME NEW pkg \in Package, Remove(pkg)
      PROVE  TableInv'
  <2>1. /\ pc' = "rows" /\ cursor' = MaxRows + 1
        /\ UNCHANGED <<files, owner>>
    BY <1>2 DEF Remove, tableVars, diskVars
  <2>2. \A r \in files : r.id \in Nat /\ r.id < MaxRows + 1
    BY FilesAssumption DEF TypeInv, TypeOK, FileRow
  <2>3. \A r \in files : ~Visited(r)'
    BY <2>1, <2>2, FilesAssumption DEF Visited
  <2> QED
    BY <2>1, <2>3 DEF TableInv, RowsInv, OrderInv, OwnedFilesAreRegistered,
                      RemovedFilesAreGone, Removing, Succeeded
<1>3. ASSUME NEW pkg \in Package, NEW contents \in Archives[pkg], Install(pkg, contents)
      PROVE  TableInv'
  BY <1>3, QuietStepKeepsTableInv
     DEF Install, tableVars, diskVars, Removing, Control, Succeeded
<1>4. CASE InstallStep
  BY <1>4, InstallStepKeepsTableInv
<1>5. CASE NextRow
  BY <1>5, NextRowKeepsTableInv
<1>6. CASE Missing \/ Found \/ Erase \/ KeepDirectory \/ UnregisterPath
  BY <1>6, RemoveFileKeepsTableInv
<1>7. CASE UnregisterPackage
  BY <1>7, UnregisterPackageKeepsTableInv
<1>8. CASE RemovalFails \/ Crash
  BY <1>8, QuietStepKeepsTableInv
     DEF RemovalFails, Crash, End, tableVars, diskVars, jobVars, Removing, Control, Succeeded
<1>9. ASSUME NEW p \in Path, UserActs(p)
      PROVE  TableInv'
  <2>1. UNCHANGED <<files, op, name, pc, cursor, path, last>>
    BY <1>9 DEF UserActs, tableVars, jobVars
  <2>2. \A f \in File : owner'[f] \in {owner[f], User, Nobody}
    BY <1>9 DEF UserActs, TypeInv, TypeOK, File
  <2>3. pc \in Removing => name \in Package
    BY DEF TypeInv, JobInv, Removing
  <2>4. Succeeded("remove") => name \in Package
    BY DEF TypeInv, JobInv, Succeeded
  <2> QED
    BY <2>1, <2>2, <2>3, <2>4, FilesAssumption
       DEF TableInv, RowsInv, Visited, OrderInv, Listed, OwnedFilesAreRegistered,
           RemovedFilesAreGone, Succeeded
<1> QED
  BY <1>1, <1>2, <1>3, <1>4, <1>5, <1>6, <1>7, <1>8, <1>9 DEF Next, RemoveStep, Deletion

-----------------------------------------------------------------------------
(* Theorems *)

(***************************************************************************)
(* Whatever fails and whenever the process is killed, the files table and  *)
(* the disk are in the relation that FilesInv describes.                   *)
(***************************************************************************)
THEOREM TableInvariant == Spec => []TableInv
<1>1. Init => TableInv
  BY FilesAssumption
     DEF Init, TableInv, RowsInv, OrderInv, OwnedFilesAreRegistered, RemovedFilesAreGone,
         Succeeded, Removing, File
<1> QED
  BY <1>1, TypeInvariant, TableInvStep, PTL DEF Spec

(***************************************************************************)
(* A file on the disk that a package put there is registered as that       *)
(* package's: no failure and no kill makes package_remove overlook it.     *)
(***************************************************************************)
THEOREM FilesAreRegistered == Spec => []OwnedFilesAreRegistered
<1>1. TableInv => OwnedFilesAreRegistered
  BY DEF TableInv
<1> QED
  BY <1>1, TableInvariant, PTL

(***************************************************************************)
(* A removal that succeeds leaves no file of the package on the disk, also *)
(* when earlier installations and removals of it were cut short.           *)
(***************************************************************************)
THEOREM RemovalIsComplete == Spec => []RemovedFilesAreGone
<1>1. TableInv => RemovedFilesAreGone
  BY DEF TableInv
<1> QED
  BY <1>1, TableInvariant, PTL

(***************************************************************************)
(* _remove_file deletes nothing but a path that the files table lists      *)
(* under the package that is being removed.                                *)
(***************************************************************************)
THEOREM RemovalTouchesItsPathsOnly == Spec => RemovesOnlyItsPaths
<1>1. ASSUME TypeInv, TableInv, Next,
             NEW p \in Path, pc = "erase", pc' = "unregister", owner'[p] # owner[p]
      PROVE  \E r \in RowsOf(name) : r.path = p
  <2>1. Erase \/ KeepDirectory
    BY <1>1
       DEF Next, Remove, Install, InstallStep, Extraction, NextEntry, SkipRoot, RejectEntry,
           EndOfArchive, CorruptArchive, RegisterPath, RegisterPathFails, WriteHeader,
           HeaderFails, CopyData, WriteFails, ReadFails, RegisterPackage, InstallFails,
           RemoveStep, Deletion, NextRow, Missing, Found, UnregisterPath, RemovalFails,
           UnregisterPackage, Crash, End, UserActs
  <2>2. Erase
    BY <1>1, <2>1 DEF KeepDirectory, diskVars
  <2>3. p = path
    BY <1>1, <2>2 DEF Erase, TypeInv, TypeOK
  <2>4. Listed(name, path)
    BY <1>1 DEF TableInv, OrderInv
  <2> QED
    BY <2>3, <2>4 DEF Listed, RowsOf
<1>2. TypeInv /\ TableInv /\ [Next]_vars
        => [\A p \in Path :
              pc = "erase" /\ pc' = "unregister" /\ owner'[p] # owner[p] =>
                \E r \in RowsOf(name) : r.path = p]_vars
  BY <1>1
<1> QED
  BY <1>2, TypeInvariant, TableInvariant, PTL DEF Spec, RemovesOnlyItsPaths
=============================================================================
