------------------------------- MODULE Manager -------------------------------
(***************************************************************************)
(* The package manager proper (manager.c) as packdude.c drives it: one     *)
(* process at a time, which owns the installation database for the length  *)
(* of one command.  A command installs one package with everything it      *)
(* depends on (manager_fetch), or removes one package and then everything  *)
(* that is no longer needed (manager_remove, manager_cleanup).             *)
(*                                                                         *)
(* The packages table survives the process; the rest of the state is the   *)
(* memory of the running process and is lost when it is killed.  What      *)
(* package_install and package_remove do to files is one step here, which  *)
(* succeeds or fails; module PackageOps has the detail.                    *)
(***************************************************************************)
EXTENDS Integers, Sequences, FiniteSets

CONSTANTS
  Package,        \* package names
  NoPackage,      \* the absence of a package name
  Catalogs,       \* the metadata databases the repository may publish
  DefaultPrefix,  \* TRUE iff the installation prefix is "/"
  Faults          \* the kinds of failure the environment may cause

(***************************************************************************)
(* "network": a download fails or is corrupt; "disk": a file operation     *)
(* fails; "select", "insert", "delete": that SQL statement fails;          *)
(* "memory": an allocation fails.                                          *)
(***************************************************************************)
FaultKinds == {"network", "disk", "select", "insert", "delete", "memory"}

(***************************************************************************)
(* A metadata database: a partial function from names to the columns the   *)
(* manager looks at.  deps is the tokenised dependency list, in order; it  *)
(* is empty for NO_DEPENDENCIES and may name packages that do not exist.   *)
(***************************************************************************)
Metadata == [arch : {"native", "all", "foreign"}, deps : Seq(Package)]

ASSUME ConstantsAssumption ==
  /\ IsFiniteSet(Package) /\ NoPackage \notin Package
  /\ DefaultPrefix \in BOOLEAN
  /\ Faults \subseteq FaultKinds
  /\ \A c \in Catalogs : /\ DOMAIN c \subseteq Package
                         /\ \A p \in DOMAIN c : c[p] \in Metadata

User       == "user"
Dependency == "dependency"
Core       == "core"
Reasons    == {User, Dependency, Core}

OK     == "OK"
Failed == "FAILED"     \* every other result_t: callers only compare with OK

(***************************************************************************)
(* database_get and the SELECTs: a query fails in SQLite, or for lack of   *)
(* memory to format it or to copy the row.                                 *)
(***************************************************************************)
QueryMayFail == Faults \cap {"select", "memory"} # {}

VARIABLES
  packages,    \* the packages table: name -> [deps, reason]
  avail,       \* manager->avail_packages, the catalog this process opened
  cmd,         \* the command being run, or the last one that ran
  pc,          \* where the process is
  status,      \* how the last command ended
  calls,       \* the active manager_fetch frames, outermost first
  inst_stack,  \* manager->inst_stack
  ret,         \* what the manager_fetch that just returned, returns
  victim,      \* the package _remove is working on
  cleaning,    \* TRUE iff manager_cleanup, not manager_remove, called _remove
  pending,     \* rows the current pass of manager_cleanup has still to visit
  removed      \* TRUE iff the current pass removed a package

sessionVars == <<avail, cmd>>
fetchVars   == <<calls, inst_stack, ret>>
removeVars  == <<victim, cleaning, pending, removed>>
vars == <<packages, avail, cmd, pc, status, calls, inst_stack, ret,
          victim, cleaning, pending, removed>>

Installed == DOMAIN packages
Top       == calls[Len(calls)]
Pop(s)    == SubSeq(s, 1, Len(s) - 1)

NoCommand == [action |-> "none", name |-> NoPackage, reason |-> User]

Init ==
  /\ packages = [p \in {} |-> [deps |-> <<>>, reason |-> User]]
  /\ avail \in Catalogs
  /\ cmd = NoCommand
  /\ pc = "idle"
  /\ status = "none"
  /\ calls = <<>> /\ inst_stack = <<>> /\ ret = OK
  /\ victim = NoPackage /\ cleaning = FALSE /\ pending = {} /\ removed = FALSE

(***************************************************************************)
(* The process ends; its memory goes with it.                              *)
(***************************************************************************)
Exit(how) ==
  /\ pc' = "idle"
  /\ status' = how
  /\ calls' = <<>> /\ inst_stack' = <<>> /\ ret' = OK
  /\ victim' = NoPackage /\ cleaning' = FALSE /\ pending' = {} /\ removed' = FALSE
  /\ UNCHANGED sessionVars

-----------------------------------------------------------------------------
(* manager_fetch *)

OnStack(name) == \E i \in DOMAIN inst_stack : inst_stack[i] = name

(***************************************************************************)
(* A call of manager_fetch up to the push: callers is what the call stack  *)
(* holds below the new frame.                                              *)
(***************************************************************************)
SkipFetch(name, callers) ==
  /\ OnStack(name) \/ name \in Installed
  /\ calls' = callers /\ ret' = OK /\ pc' = "return"
  /\ UNCHANGED inst_stack

RejectFetch(name, callers) ==
  /\ ~OnStack(name)
  /\ QueryMayFail \/ (name \notin Installed /\ name \notin DOMAIN avail)
  /\ calls' = callers /\ ret' = Failed /\ pc' = "return"
  /\ UNCHANGED inst_stack

(* Mutant: the guard against installing a package twice is missing. *)
EnterFetchInstalled(name, reason, callers) ==
  /\ ~OnStack(name)
  /\ name \in DOMAIN avail
  /\ inst_stack' = Append(inst_stack, name)
  /\ calls' = Append(callers, [name |-> name, reason |-> reason, next |-> 1])
  /\ pc' = "download"
  /\ UNCHANGED ret

(* Mutant: the walk of the dependency list starts before its first token. *)
EnterFetchEarly(name, reason, callers) ==
  /\ ~OnStack(name)
  /\ name \notin Installed
  /\ name \in DOMAIN avail
  /\ inst_stack' = Append(inst_stack, name)
  /\ calls' = Append(callers, [name |-> name, reason |-> reason, next |-> 0])
  /\ pc' = "download"
  /\ UNCHANGED ret

EnterFetch(name, reason, callers) ==
  /\ ~OnStack(name)
  /\ name \notin Installed
  /\ name \in DOMAIN avail
  /\ inst_stack' = Append(inst_stack, name)
  /\ calls' = Append(callers, [name |-> name, reason |-> reason, next |-> 1])
  /\ pc' = "download"
  /\ UNCHANGED ret

Fetch(name, reason, callers) ==
  /\ \/ SkipFetch(name, callers)
     \/ RejectFetch(name, callers)
     \/ EnterFetch(name, reason, callers)
  /\ UNCHANGED <<packages, status, removeVars>>

(***************************************************************************)
(* packdude -i: manager_new opened a catalog, main calls manager_fetch.    *)
(***************************************************************************)
Install(name, reason) ==
  /\ pc = "idle"
  /\ avail' \in Catalogs
  /\ cmd' = [action |-> "install", name |-> name, reason |-> reason]
  /\ pc' = "start"
  /\ UNCHANGED <<packages, status, fetchVars, removeVars>>

FetchRequested ==
  /\ pc = "start" /\ cmd.action = "install"
  /\ Fetch(cmd.name, cmd.reason, calls)
  /\ UNCHANGED sessionVars

Compatible(name) == DefaultPrefix => avail[name].arch \in {"native", "all"}

(***************************************************************************)
(* The architecture check, the download and the verification of the        *)
(* package; every failure leaves through pop_from_stack.                   *)
(***************************************************************************)
Download ==
  /\ pc = "download"
  /\ Compatible(Top.name)
  /\ pc' = "deps"
  /\ UNCHANGED <<packages, sessionVars, status, fetchVars, removeVars>>

DownloadFails ==
  /\ pc = "download"
  /\ ~Compatible(Top.name) \/ Faults \cap {"network", "memory"} # {}
  /\ ret' = Failed /\ pc' = "pop"
  /\ UNCHANGED <<packages, sessionVars, status, calls, inst_stack, removeVars>>

(***************************************************************************)
(* manager_for_each_dependency: one call of _install_dependency.           *)
(***************************************************************************)
Deps(frame) == avail[frame.name].deps

InstallDependency ==
  /\ pc = "deps"
  /\ Top.next <= Len(Deps(Top))
  /\ Fetch(Deps(Top)[Top.next], Dependency,
           [calls EXCEPT ![Len(calls)].next = @ + 1])
  /\ UNCHANGED sessionVars

DependenciesUnreadable ==
  /\ pc = "deps"
  /\ Top.next = 1
  /\ QueryMayFail
  /\ ret' = Failed /\ pc' = "pop"
  /\ UNCHANGED <<packages, sessionVars, status, calls, inst_stack, removeVars>>

DependenciesDone ==
  /\ pc = "deps"
  /\ Top.next > Len(Deps(Top))
  /\ pc' = "unpack"
  /\ UNCHANGED <<packages, sessionVars, status, fetchVars, removeVars>>

(***************************************************************************)
(* package_install: the files first, the row of the packages table last.   *)
(***************************************************************************)
Unpack ==
  /\ pc = "unpack"
  /\ pc' = "register"
  /\ UNCHANGED <<packages, sessionVars, status, fetchVars, removeVars>>

UnpackFails ==
  /\ pc = "unpack"
  /\ Faults \cap {"disk", "insert", "memory"} # {}
  /\ ret' = Failed /\ pc' = "pop"
  /\ UNCHANGED <<packages, sessionVars, status, calls, inst_stack, removeVars>>

(***************************************************************************)
(* database_set_installation_data: INSERT, with name UNIQUE.               *)
(***************************************************************************)
Row(frame) == [deps |-> Deps(frame), reason |-> frame.reason]

Register ==
  /\ pc = "register"
  /\ Top.name \notin Installed
  /\ packages' = [p \in Installed \cup {Top.name} |->
                    IF p = Top.name THEN Row(Top) ELSE packages[p]]
  /\ ret' = OK /\ pc' = "pop"
  /\ UNCHANGED <<sessionVars, status, calls, inst_stack, removeVars>>

(* Mutant: the result of database_set_installation_data is dropped. *)
RegisterFailsUnseen ==
  /\ pc = "register"
  /\ Top.name \in Installed \/ Faults \cap {"insert", "memory"} # {}
  /\ ret' = OK /\ pc' = "pop"
  /\ UNCHANGED <<packages, sessionVars, status, calls, inst_stack, removeVars>>

RegisterFails ==
  /\ pc = "register"
  /\ Top.name \in Installed \/ Faults \cap {"insert", "memory"} # {}
  /\ ret' = Failed /\ pc' = "pop"
  /\ UNCHANGED <<packages, sessionVars, status, calls, inst_stack, removeVars>>

(* Mutant: a failure leaves manager_fetch without its pop. *)
PopOnSuccess ==
  /\ pc = "pop"
  /\ inst_stack' = IF ret = OK THEN Pop(inst_stack) ELSE inst_stack
  /\ calls' = Pop(calls)
  /\ pc' = "return"
  /\ UNCHANGED <<packages, sessionVars, status, ret, removeVars>>

(***************************************************************************)
(* pop_from_stack, and the return to the dependency loop of the caller,    *)
(* which goes on or breaks, or to main.                                    *)
(***************************************************************************)
PopFromStack ==
  /\ pc = "pop"
  /\ inst_stack' = Pop(inst_stack)
  /\ calls' = Pop(calls)
  /\ pc' = "return"
  /\ UNCHANGED <<packages, sessionVars, status, ret, removeVars>>

(* Mutant: the loop over the dependencies ignores what its callback returns. *)
ReturnRegardless ==
  /\ pc = "return"
  /\ calls # <<>>
  /\ pc' = "deps"
  /\ UNCHANGED <<packages, sessionVars, status, fetchVars, removeVars>>

ReturnToCaller ==
  /\ pc = "return"
  /\ calls # <<>>
  /\ pc' = IF ret = OK THEN "deps" ELSE "pop"
  /\ UNCHANGED <<packages, sessionVars, status, fetchVars, removeVars>>

InstallEnds ==
  /\ pc = "return"
  /\ calls = <<>>
  /\ Exit(IF ret = OK THEN "success" ELSE "failure")
  /\ UNCHANGED packages

-----------------------------------------------------------------------------
(* manager_remove, manager_can_remove and manager_cleanup *)

(***************************************************************************)
(* What _depends_on does with the row of package p when it looks for name: *)
(* it walks p's dependency list, but when it meets p itself it continues   *)
(* the loop without taking the next token, and never leaves.               *)
(***************************************************************************)
DependsOn(p, name) ==
  \E i \in DOMAIN packages[p].deps :
    /\ packages[p].deps[i] = name
    /\ \A j \in 1 .. i - 1 : packages[p].deps[j] # p

SpinsOn(p, name) ==
  \E i \in DOMAIN packages[p].deps :
    /\ packages[p].deps[i] = p
    /\ \A j \in 1 .. i - 1 : packages[p].deps[j] # name

(***************************************************************************)
(* The outcomes of manager_can_remove for an installed package.  The rows  *)
(* come in no promised order, so where one row answers and another spins   *)
(* both may happen.  When strdup fails, _depends_on answers no.  Callers   *)
(* only tell YES from the rest, so an error is a refusal.                  *)
(***************************************************************************)
Others(name) == Installed \ {name}

(* Mutant: manager_can_remove does not look at the installation reason. *)
MayRemoveCore(name) ==
  \/ "memory" \in Faults
  \/ \A p \in Others(name) : ~DependsOn(p, name) /\ ~SpinsOn(p, name)

(* Mutant: manager_can_remove does not look at the other packages. *)
MayRemoveNeeded(name) ==
  packages[name].reason # Core

MayRemove(name) ==
  /\ packages[name].reason # Core
  /\ \/ "memory" \in Faults
     \/ \A p \in Others(name) : ~DependsOn(p, name) /\ ~SpinsOn(p, name)

MayRefuse(name) ==
  \/ name \notin Installed
  \/ name \in Installed /\ packages[name].reason = Core
  \/ QueryMayFail
  \/ \E p \in Others(name) : DependsOn(p, name)

MaySpin(name) ==
  /\ packages[name].reason # Core
  /\ \E p \in Others(name) : SpinsOn(p, name)

Spin ==
  /\ pc' = "spin"
  /\ UNCHANGED <<packages, sessionVars, status, fetchVars, removeVars>>

(***************************************************************************)
(* packdude -r: main calls manager_remove, and manager_cleanup when that   *)
(* succeeded.                                                              *)
(***************************************************************************)
Remove(name) ==
  /\ pc = "idle"
  /\ cmd' = [action |-> "remove", name |-> name, reason |-> User]
  /\ pc' = "start"
  /\ UNCHANGED <<packages, avail, status, fetchVars, removeVars>>

RemoveRequested ==
  /\ pc = "start" /\ cmd.action = "remove"
  /\ cmd.name \in Installed
  /\ MayRemove(cmd.name)
  /\ victim' = cmd.name /\ cleaning' = FALSE
  /\ pc' = "erase"
  /\ UNCHANGED <<packages, sessionVars, status, fetchVars, pending, removed>>

RemoveRefused ==
  /\ pc = "start" /\ cmd.action = "remove"
  /\ MayRefuse(cmd.name)
  /\ Exit("failure")
  /\ UNCHANGED packages

RemoveSpins ==
  /\ pc = "start" /\ cmd.action = "remove"
  /\ cmd.name \in Installed
  /\ MaySpin(cmd.name)
  /\ Spin

(***************************************************************************)
(* package_remove: the files first, the row of the packages table last.    *)
(***************************************************************************)
Erase ==
  /\ pc = "erase"
  /\ pc' = "unregister"
  /\ UNCHANGED <<packages, sessionVars, status, fetchVars, removeVars>>

Unregister ==
  /\ pc = "unregister"
  /\ packages' = [p \in Installed \ {victim} |-> packages[p]]
  /\ pc' = "cleanup"
  /\ victim' = NoPackage
  /\ removed' = cleaning
  /\ cleaning' = TRUE
  /\ pending' = IF cleaning THEN pending ELSE DOMAIN packages'
  /\ UNCHANGED <<sessionVars, status, fetchVars>>

RemovalFails ==
  /\ \/ pc = "erase" /\ Faults \cap {"disk", "select", "delete", "memory"} # {}
     \/ pc = "unregister" /\ Faults \cap {"delete", "memory"} # {}
  /\ Exit("failure")
  /\ UNCHANGED packages

(***************************************************************************)
(* manager_cleanup: _remove_unneeded on one row of the current pass.  The  *)
(* only row that goes away during a pass is the one being visited.         *)
(***************************************************************************)
KeepRow(p) ==
  /\ pc = "cleanup"
  /\ packages[p].reason # Dependency \/ MayRefuse(p)
  /\ pending' = pending \ {p}
  /\ UNCHANGED <<packages, sessionVars, pc, status, fetchVars, victim, cleaning, removed>>

(* Mutant: the cleanup does not look at the installation reason. *)
RemoveAnyRow(p) ==
  /\ pc = "cleanup"
  /\ MayRemove(p)
  /\ victim' = p
  /\ pending' = pending \ {p}
  /\ pc' = "erase"
  /\ UNCHANGED <<packages, sessionVars, status, fetchVars, cleaning, removed>>

RemoveRow(p) ==
  /\ pc = "cleanup"
  /\ packages[p].reason = Dependency /\ MayRemove(p)
  /\ victim' = p
  /\ pending' = pending \ {p}
  /\ pc' = "erase"
  /\ UNCHANGED <<packages, sessionVars, status, fetchVars, cleaning, removed>>

SpinOnRow(p) ==
  /\ pc = "cleanup"
  /\ packages[p].reason = Dependency /\ MaySpin(p)
  /\ Spin

(* Mutant: the count of removed packages is not reset between passes. *)
NextPassKeepsCount ==
  /\ pc = "cleanup"
  /\ pending = {} /\ removed
  /\ pending' = Installed
  /\ UNCHANGED <<packages, sessionVars, pc, status, fetchVars, victim, cleaning, removed>>

NextPass ==
  /\ pc = "cleanup"
  /\ pending = {} /\ removed
  /\ pending' = Installed /\ removed' = FALSE
  /\ UNCHANGED <<packages, sessionVars, pc, status, fetchVars, victim, cleaning>>

(* Mutant: one pass only. *)
CleanupEndsEarly ==
  /\ pc = "cleanup"
  /\ pending = {}
  /\ Exit("success")
  /\ UNCHANGED packages

CleanupEnds ==
  /\ pc = "cleanup"
  /\ pending = {} /\ ~removed
  /\ Exit("success")
  /\ UNCHANGED packages

CleanupFails ==
  /\ pc = "cleanup"
  /\ QueryMayFail
  /\ Exit("failure")
  /\ UNCHANGED packages

-----------------------------------------------------------------------------
(***************************************************************************)
(* The process is killed, or the machine loses power.                      *)
(***************************************************************************)
Crash ==
  /\ pc # "idle"
  /\ Exit("killed")
  /\ UNCHANGED packages

FetchStep ==
  \/ FetchRequested \/ Download \/ DownloadFails
  \/ InstallDependency \/ DependenciesUnreadable \/ DependenciesDone
  \/ Unpack \/ UnpackFails \/ Register \/ RegisterFails
  \/ PopFromStack \/ ReturnToCaller \/ InstallEnds

RemoveStep ==
  \/ RemoveRequested \/ RemoveRefused \/ RemoveSpins
  \/ Erase \/ Unregister \/ RemovalFails
  \/ \E p \in pending : KeepRow(p) \/ RemoveRow(p) \/ SpinOnRow(p)
  \/ NextPass \/ CleanupEnds \/ CleanupFails

Begin ==
  \E name \in Package :
    \/ \E reason \in {User, Core} : Install(name, reason)
    \/ Remove(name)

Next == Begin \/ FetchStep \/ RemoveStep \/ Crash

Spec == Init /\ [][Next]_vars

(***************************************************************************)
(* A process that runs keeps running: every step of a command is a finite  *)
(* computation or a call that returns.  Nobody has to start a command or   *)
(* to kill one.                                                            *)
(***************************************************************************)
FairSpec == Spec /\ WF_vars(FetchStep \/ RemoveStep)

-----------------------------------------------------------------------------
(* Properties *)

Frame == [name : Package, reason : Reasons, next : Nat \ {0}]

Control == {"idle", "start", "download", "deps", "unpack", "register", "pop",
            "return", "erase", "unregister", "cleanup", "spin"}

TypeOK ==
  /\ Installed \subseteq Package
  /\ \A p \in Installed : packages[p] \in [deps : Seq(Package), reason : Reasons]
  /\ avail \in Catalogs
  /\ cmd \in [action : {"none", "install", "remove"},
             name : Package \cup {NoPackage}, reason : Reasons]
  /\ cmd.action # "none" => cmd.name \in Package
  /\ pc \in Control
  /\ status \in {"none", "success", "failure", "killed"}
  /\ calls \in Seq(Frame)
  /\ inst_stack \in Seq(Package)
  /\ ret \in {OK, Failed}
  /\ victim \in Package \cup {NoPackage}
  /\ cleaning \in BOOLEAN
  /\ pending \subseteq Package
  /\ removed \in BOOLEAN

(***************************************************************************)
(* The installation stack holds exactly the packages whose manager_fetch   *)
(* frame is active, once each: every push is undone by one pop on every    *)
(* way out of manager_fetch, so the recursion is no deeper than there are  *)
(* packages and the guard at its entry sees every package in progress.     *)
(***************************************************************************)
StackMatchesCalls ==
  /\ Len(inst_stack) = Len(calls)
  /\ \A i \in DOMAIN calls : inst_stack[i] = calls[i].name
  /\ \A i, j \in DOMAIN calls : inst_stack[i] = inst_stack[j] => i = j

(***************************************************************************)
(* A package whose manager_fetch is in progress before its pop has no row  *)
(* yet, whatever its dependencies installed in the meantime: the INSERT of *)
(* database_set_installation_data never hits the UNIQUE name constraint.   *)
(***************************************************************************)
InsertIsFresh ==
  \A i \in DOMAIN calls :
    calls[i].name \in Installed => i = Len(calls) /\ pc = "pop" /\ ret = OK

(***************************************************************************)
(* Every dependency of an installed package is installed, at every moment, *)
(* killed processes and failed commands included: manager_fetch installs   *)
(* the dependencies before it unpacks the package, and manager_can_remove  *)
(* refuses to remove what an installed package depends on.                 *)
(***************************************************************************)
DependencyClosed ==
  \A p \in Installed :
    \A i \in DOMAIN packages[p].deps : packages[p].deps[i] \in Installed

(***************************************************************************)
(* A core package ("non-removable", packdude.8) stays installed and stays  *)
(* a core package.                                                         *)
(***************************************************************************)
CoreIsKept ==
  [][\A p \in Installed :
       packages[p].reason = Core =>
         p \in Installed' /\ packages'[p].reason = Core]_vars

(***************************************************************************)
(* The manager removes on its own only what was installed as a dependency: *)
(* any other row goes away only in the packdude -r that names it, before   *)
(* the cleanup starts.                                                     *)
(***************************************************************************)
OnlyDependenciesAreCleaned ==
  [][\A p \in Installed \ Installed' :
       \/ packages[p].reason = Dependency
       \/ cmd.action = "remove" /\ cmd.name = p /\ ~cleaning]_vars

(***************************************************************************)
(* When packdude -r succeeds nothing unneeded is left: every set of        *)
(* packages that contains those the user or the system asked for, and the  *)
(* dependencies of its members, is the set of all installed packages.      *)
(***************************************************************************)
ClosedUnderDeps(S) ==
  \A p \in S : \A i \in DOMAIN packages[p].deps :
    packages[p].deps[i] \in Installed => packages[p].deps[i] \in S

RemoveSucceeded == pc = "idle" /\ status = "success" /\ cmd.action = "remove"

NothingUnneeded ==
  RemoveSucceeded =>
    \A S \in SUBSET Installed :
      /\ {p \in Installed : packages[p].reason # Dependency} \subseteq S
      /\ ClosedUnderDeps(S)
      => S = Installed

(***************************************************************************)
(* What a successful command promises: packdude -i leaves the package      *)
(* installed, packdude -r leaves it removed.                               *)
(***************************************************************************)
SuccessMeansDone ==
  pc = "idle" /\ status = "success" =>
    (cmd.name \in Installed <=> cmd.action = "install")

(***************************************************************************)
(* Every command ends: the recursion of manager_fetch and the passes of    *)
(* manager_cleanup both run out of packages.                               *)
(***************************************************************************)
CommandsEnd == pc # "idle" ~> pc = "idle"

(***************************************************************************)
(* Whatever the repository lists and whatever fails, the only command that *)
(* does not end is one that looked at a row that lists itself: cycles of   *)
(* dependencies end the recursion and the cleanup like trees do.           *)
(***************************************************************************)
OnlySelfDependencySpins ==
  pc # "idle" ~> \/ pc = "idle"
                 \/ pc = "spin" /\ \E p \in Installed : SpinsOn(p, NoPackage)

-----------------------------------------------------------------------------
(***************************************************************************)
(* Where no catalog has a cycle and no query fails, the commands keep the  *)
(* promise of module InstalledSet: the recursion with its stack, and the   *)
(* passes over the rows with their checks, are ways to do what it says.    *)
(***************************************************************************)
Table == [p \in Installed |->
            [needs  |-> {packages[p].deps[i] : i \in DOMAIN packages[p].deps},
             reason |-> packages[p].reason]]

Phase == IF pc = "idle" THEN "rest" ELSE IF cleaning THEN "clean" ELSE "work"

Promise == INSTANCE InstalledSet
             WITH table <- Table, job <- cmd, phase <- Phase, outcome <- status

ImplementsInstalledSet == Promise!Spec

-----------------------------------------------------------------------------
(* What the theorems about dependencies assume of the repository *)

(***************************************************************************)
(* No catalog has a cycle of dependencies: packages can be ranked so that  *)
(* each is above what it depends on.                                       *)
(***************************************************************************)
Ranks(c) ==
  {r \in [Package -> 0 .. Cardinality(Package)] :
     \A p \in DOMAIN c : \A i \in 1 .. Len(c[p].deps) : r[c[p].deps[i]] < r[p]}

Acyclic == \A c \in Catalogs : Ranks(c) # {}
=============================================================================
