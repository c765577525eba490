------------------------------- MODULE Packdude -------------------------------
(***************************************************************************)
(* One packdude process at a time, from the command to the files: Manager  *)
(* with its calls of package_install and package_remove spread out into    *)
(* the steps of PackageOps.  The two share the packages table; a kill      *)
(* stops both.                                                             *)
(***************************************************************************)
EXTENDS Manager

CONSTANTS
  Path, Dir, Above, RootDir, AbsolutePath,  \* see PackageOps
  Archives,      \* the archives each package is published as
  Bystander,     \* who else might own a file
  Environment,   \* what may go wrong with files, see PackageOps
  MaxRows        \* the bound on the identifiers of the files table

ASSUME PackdudeAssumption ==
  /\ Dir \subseteq Path
  /\ Above \in [Path -> SUBSET Dir] /\ \A d \in Dir : d \notin Above[d]
  /\ RootDir \notin Path /\ AbsolutePath \notin Path
  /\ Archives \in [Package -> SUBSET Seq(Path \cup {RootDir, AbsolutePath})]
  /\ Bystander \notin Package /\ NoPackage # Bystander
  /\ Environment \subseteq {"insert", "delete", "corrupt", "header", "read", "write",
                            "unlink", "readonly", "crash", "user"}
  /\ MaxRows \in Nat

VARIABLES
  owner, cut, files,                    \* the disk and the files table
  op, target, archive, fpc, entry,      \* package_install or package_remove
  cursor, path, result, last,
  origin,    \* history: the archive each installed package came from
  halfway    \* history: packages whose files were begun on and not finished

Files == INSTANCE PackageOps
           WITH packages <- Installed, name <- target, pc <- fpc,
                Nobody <- NoPackage, User <- Bystander

fileVars == <<owner, cut, files, op, target, archive, fpc, entry, cursor, path,
              result, last>>
historyVars == <<origin, halfway>>
allVars == <<vars, fileVars, historyVars>>

PackdudeInit ==
  /\ Init /\ Files!Init
  /\ origin = [p \in Package |-> <<>>]
  /\ halfway = {}

-----------------------------------------------------------------------------
(* package_install, called by manager_fetch *)

BeginInstall ==
  /\ pc = "unpack" /\ fpc = "idle"
  /\ UNCHANGED vars
  /\ \E contents \in Archives[Top.name] : Files!Install(Top.name, contents)
  /\ halfway' = halfway \cup {Top.name}
  /\ UNCHANGED origin

Extract ==
  /\ pc = "unpack"
  /\ UNCHANGED vars
  /\ Files!Extraction
  /\ UNCHANGED historyVars

InstallReturns ==
  /\ fpc = "extracted"
  /\ \/ result = OK /\ Unpack /\ UNCHANGED fileVars
     \/ result = Failed /\ UnpackFails /\ Files!InstallFails
  /\ UNCHANGED historyVars

(***************************************************************************)
(* The row of the packages table.  The two modules agree on it.            *)
(***************************************************************************)
RegisterRow ==
  /\ Register
  /\ Files!RegisterPackage
  /\ origin' = [origin EXCEPT ![target] = archive]
  /\ halfway' = halfway \ {target}

RegisterRowFails ==
  /\ RegisterFails
  /\ result = OK /\ Files!InstallFails
  /\ UNCHANGED historyVars

-----------------------------------------------------------------------------
(* package_remove, called by _remove *)

BeginRemove ==
  /\ pc = "erase" /\ fpc = "idle"
  /\ UNCHANGED vars
  /\ Files!Remove(victim)
  /\ halfway' = halfway \cup {victim}
  /\ UNCHANGED origin

Delete ==
  /\ pc = "erase"
  /\ UNCHANGED vars
  /\ Files!Deletion
  /\ UNCHANGED historyVars

DeleteReturns ==
  /\ Erase
  /\ fpc = "rows" /\ Files!Ahead = {}
  /\ UNCHANGED <<fileVars, historyVars>>

UnregisterRow ==
  /\ Unregister
  /\ Files!UnregisterPackage
  /\ origin' = [origin EXCEPT ![target] = <<>>]
  /\ halfway' = halfway \ {target}

RemoveFails ==
  /\ RemovalFails
  /\ Files!RemovalFails
  /\ UNCHANGED historyVars

-----------------------------------------------------------------------------
(* The rest *)

(***************************************************************************)
(* What manager_fetch and manager_cleanup do between the two.              *)
(***************************************************************************)
Decide ==
  /\ \/ Begin
     \/ FetchRequested \/ Download \/ DownloadFails
     \/ InstallDependency \/ DependenciesUnreadable \/ DependenciesDone
     \/ PopFromStack \/ ReturnToCaller \/ InstallEnds
     \/ RemoveRequested \/ RemoveRefused \/ RemoveSpins
     \/ \E p \in pending : KeepRow(p) \/ RemoveRow(p) \/ SpinOnRow(p)
     \/ NextPass \/ CleanupEnds \/ CleanupFails
  /\ UNCHANGED <<fileVars, historyVars>>

Kill ==
  /\ Crash
  /\ IF fpc = "idle" THEN UNCHANGED fileVars ELSE Files!Crash
  /\ UNCHANGED historyVars

PackdudeNext ==
  \/ BeginInstall \/ Extract \/ InstallReturns \/ RegisterRow \/ RegisterRowFails
  \/ BeginRemove \/ Delete \/ DeleteReturns \/ UnregisterRow \/ RemoveFails
  \/ Decide \/ Kill

PackdudeSpec == PackdudeInit /\ [][PackdudeNext]_allVars

-----------------------------------------------------------------------------
(* Properties *)

PathsIn(contents) == {contents[i] : i \in DOMAIN contents} \cap Path
PathsOf(p)        == PathsIn(origin[p])

(* On the disk to the last byte, and in the files table. *)
InPlace(p, f) == owner[f] = p /\ f \notin cut /\ Files!Listed(p, f)

(***************************************************************************)
(* Between commands, and in the middle of one, the disk is what the        *)
(* packages table says: everything that an installed package brought is    *)
(* there to the last byte and listed, and nothing is left of a package     *)
(* that is not installed.  The only exceptions are packages whose          *)
(* installation or removal was cut short, until it is done again.          *)
(***************************************************************************)
MatchesTable(which) ==
  \A p \in Package \ halfway :
    IF p \in Installed
      THEN \A f \in PathsOf(p) \cap which : InPlace(p, f)
      ELSE \A f \in which : owner[f] # p

DiskMatchesTable == MatchesTable(Path)

(***************************************************************************)
(* The same of files alone.  It needs less: packages may share directories *)
(* (the rows of which package_remove deletes for all of them), editions    *)
(* of a package may differ, and a directory may be kept.                   *)
(***************************************************************************)
FilesMatchTable == MatchesTable(Files!File)

(***************************************************************************)
(* No step of any command, one that fails or is killed included, removes,  *)
(* cuts or unlists a file of a package that an installed package needs:    *)
(* the answer of manager_can_remove still holds at every later file of     *)
(* package_remove, which touches the files of no other package.  (It does  *)
(* not say that all files of such a package are there: one that failed to  *)
(* go as a whole stays in the table, and serves as a dependency.)          *)
(***************************************************************************)
Needs(p, q) == \E i \in DOMAIN packages[p].deps : packages[p].deps[i] = q

NeededFilesStay ==
  [][\A p, q \in Installed :
       Needs(p, q) =>
         \A f \in PathsOf(q) \cap Files!File : InPlace(q, f) => InPlace(q, f)']_allVars

-----------------------------------------------------------------------------
(* What the theorems about the disk assume of the archives *)

(***************************************************************************)
(* No path of these belongs to two packages.                               *)
(***************************************************************************)
Separate(which) ==
  \A p, q \in Package : p # q =>
    \A a \in Archives[p], b \in Archives[q] : PathsIn(a) \cap PathsIn(b) \cap which = {}

(***************************************************************************)
(* archive_extract says of a failure to create or to write a file, or of   *)
(* an archive that breaks off, that all is well; see PackageOps.           *)
(***************************************************************************)
Noticed == Environment \cap {"header", "write", "corrupt"} = {}

(***************************************************************************)
(* For directories: an archive has a directory before what lies in it, and *)
(* what one edition of a package has and another has not lies at the top.  *)
(***************************************************************************)
DirectoriesFirst ==
  \A p \in Package : \A a \in Archives[p] : \A j \in DOMAIN a :
    a[j] \in Path =>
      /\ Above[a[j]] \subseteq {a[i] : i \in 1 .. j - 1}
      /\ \A i \in j .. Len(a) : a[i] \notin Above[a[j]]

SameDirectories ==
  \A p \in Package : \A a, b \in Archives[p] :
    \A f \in PathsIn(a) \ PathsIn(b) : Above[f] = {}
=============================================================================
