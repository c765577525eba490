------------------------------- MODULE Session -------------------------------
(***************************************************************************)
(* How packdude processes share one installation prefix: manager_new and   *)
(* manager_free (manager.c), database_open_write (database.c) and          *)
(* repo_get_database (repo.c) with fetcher_fetch_to_file (fetch.c).  Each  *)
(* process takes the lock, opens the installation database, creates its    *)
(* tables if it is new, opens the cached metadata database or downloads    *)
(* it, runs one command (modules Manager and PackageOps) and lets go.      *)
(***************************************************************************)
EXTENDS Integers, FiniteSets

CONSTANTS
  Process,   \* the packdude processes, each of which may run many times
  Nobody,    \* the holder of a lock that is free
  Faults     \* what may go wrong

FaultKinds == {"open", "query", "network", "cut", "disk", "crash"}

ASSUME SessionAssumption == Nobody \notin Process /\ Faults \subseteq FaultKinds

VARIABLES
  holder,    \* who holds the lock on the lock file
  inst,      \* the installation database: "absent", "empty" or "created"
  cache,     \* the metadata database: "absent", "broken" or "whole"
  recent,    \* TRUE iff cache is younger than MAX_METADATA_CACHE_AGE
  scars,     \* history: what left one of the two files half-made
  pc,        \* where each process is
  repo,      \* TRUE iff the process was given a repository
  exists,    \* database_open_write's flag, for each process
  catalog    \* the metadata database each process opened, or "none"

diskVars == <<inst, cache, recent, scars>>
vars == <<holder, inst, cache, recent, scars, pc, repo, exists, catalog>>

Init ==
  /\ holder = Nobody
  /\ inst = "absent" /\ cache = "absent" /\ recent = FALSE
  /\ scars = {}
  /\ pc = [p \in Process |-> "out"]
  /\ repo = [p \in Process |-> FALSE]
  /\ exists = [p \in Process |-> FALSE]
  /\ catalog = [p \in Process |-> "none"]

Goto(p, where) == pc' = [pc EXCEPT ![p] = where]

Leave(p) ==
  /\ Goto(p, "out")
  /\ repo' = [repo EXCEPT ![p] = FALSE]
  /\ exists' = [exists EXCEPT ![p] = FALSE]
  /\ catalog' = [catalog EXCEPT ![p] = "none"]

-----------------------------------------------------------------------------
(* The lock *)

Start(p) ==
  /\ pc[p] = "out"
  /\ \E given \in BOOLEAN : repo' = [repo EXCEPT ![p] = given]
  /\ Goto(p, "lock")
  /\ UNCHANGED <<holder, diskVars, exists, catalog>>

(* Mutant: a lock that is taken is reported but not waited for. *)
LockTestOnly(p) ==
  /\ pc[p] = "lock"
  /\ holder' = p
  /\ Goto(p, "stat")
  /\ UNCHANGED <<diskVars, repo, exists, catalog>>

(***************************************************************************)
(* lockf(F_LOCK) waits; F_TEST before it only decides on a warning.        *)
(***************************************************************************)
Lock(p) ==
  /\ pc[p] = "lock"
  /\ holder = Nobody
  /\ holder' = p
  /\ Goto(p, "stat")
  /\ UNCHANGED <<diskVars, repo, exists, catalog>>

(***************************************************************************)
(* No lock file, or lockf fails: manager_new returns and the process ends. *)
(***************************************************************************)
LockFails(p) ==
  /\ pc[p] = "lock"
  /\ "open" \in Faults
  /\ Leave(p)
  /\ UNCHANGED <<holder, diskVars>>

(* Mutant: the process keeps the lock when it stops. *)
UnlockForgotten(p) ==
  /\ pc[p] = "unlock"
  /\ Leave(p)
  /\ UNCHANGED <<holder, diskVars>>

Unlock(p) ==
  /\ pc[p] = "unlock"
  /\ holder' = Nobody
  /\ Leave(p)
  /\ UNCHANGED diskVars

-----------------------------------------------------------------------------
(* database_open_write *)

StatDatabase(p) ==
  /\ pc[p] = "stat"
  /\ exists' = [exists EXCEPT ![p] = inst # "absent"]
  /\ Goto(p, "open")
  /\ UNCHANGED <<holder, diskVars, repo, catalog>>

Opened(p) == IF repo[p] THEN "repo" ELSE "command"

(* Mutant: the tables are never created. *)
OpenDatabaseAsIs(p) ==
  /\ pc[p] = "open"
  /\ inst' = IF inst = "absent" THEN "empty" ELSE inst
  /\ Goto(p, Opened(p))
  /\ UNCHANGED <<holder, cache, recent, scars, repo, exists, catalog>>

(***************************************************************************)
(* sqlite3_open_v2 with SQLITE_OPEN_CREATE makes an empty file.            *)
(***************************************************************************)
OpenDatabase(p) ==
  /\ pc[p] = "open"
  /\ inst' = IF inst = "absent" THEN "empty" ELSE inst
  /\ Goto(p, IF exists[p] THEN Opened(p) ELSE "create")
  /\ UNCHANGED <<holder, cache, recent, scars, repo, exists, catalog>>

(***************************************************************************)
(* The initialization query is one transaction; it fails if the tables     *)
(* exist.                                                                  *)
(***************************************************************************)
CreateTables(p) ==
  /\ pc[p] = "create"
  /\ inst = "empty"
  /\ inst' = "created"
  /\ Goto(p, Opened(p))
  /\ UNCHANGED <<holder, cache, recent, scars, repo, exists, catalog>>

OpenFails(p) ==
  /\ \/ pc[p] \in {"stat", "open"} /\ "open" \in Faults
     \/ pc[p] = "create" /\ ("query" \in Faults \/ inst = "created")
  /\ scars' = IF inst = "empty" THEN scars \cup {"tables"} ELSE scars
  /\ Goto(p, "unlock")
  /\ UNCHANGED <<holder, inst, cache, recent, repo, exists, catalog>>

-----------------------------------------------------------------------------
(* repo_get_database *)

(* Mutant: neither the existence nor the age of the cache is looked at. *)
UseAnyCache(p) ==
  /\ pc[p] = "repo"
  /\ catalog' = [catalog EXCEPT ![p] = cache]
  /\ Goto(p, "command")
  /\ UNCHANGED <<holder, diskVars, repo, exists>>

UseCache(p) ==
  /\ pc[p] = "repo"
  /\ cache # "absent" /\ recent
  /\ catalog' = [catalog EXCEPT ![p] = cache]
  /\ Goto(p, "command")
  /\ UNCHANGED <<holder, diskVars, repo, exists>>

Download(p) ==
  /\ pc[p] = "repo"
  /\ cache = "absent" \/ ~recent
  /\ Goto(p, "create_cache")
  /\ UNCHANGED <<holder, diskVars, repo, exists, catalog>>

(***************************************************************************)
(* open(O_WRONLY | O_CREAT), then one write and database_open_read.        *)
(***************************************************************************)
CreateCache(p) ==
  /\ pc[p] = "create_cache"
  /\ IF cache = "absent"
       THEN cache' = "broken" /\ recent' = TRUE
       ELSE UNCHANGED <<cache, recent>>
  /\ Goto(p, "write")
  /\ UNCHANGED <<holder, inst, scars, repo, exists, catalog>>

(***************************************************************************)
(* The write stores what the transfer brought, and nothing looks at it: of *)
(* one that was cut short unnoticed a part, or nothing.                    *)
(***************************************************************************)
Fill ==
  \/ cache' = "whole" /\ recent' = TRUE /\ scars' = scars \ {"cache", "cut"}
  \/ /\ "cut" \in Faults
     /\ cache' = "broken" /\ recent' = TRUE /\ scars' = (scars \ {"cache"}) \cup {"cut"}
  \/ /\ "cut" \in Faults
     /\ UNCHANGED <<cache, recent>>
     /\ scars' = IF cache = "whole" THEN scars ELSE scars \cup {"cut"}

WriteCache(p) ==
  /\ pc[p] = "write"
  /\ Fill
  /\ catalog' = [catalog EXCEPT ![p] = cache']
  /\ Goto(p, "command")
  /\ UNCHANGED <<holder, inst, repo, exists>>

(* Mutant: the file is left behind when it cannot be written. *)
RepoFailsUnclean(p) ==
  /\ \/ pc[p] = "repo" /\ Faults \cap {"network", "open"} # {} /\ UNCHANGED diskVars
     \/ pc[p] = "create_cache" /\ "open" \in Faults /\ UNCHANGED diskVars
     \/ /\ pc[p] = "write" /\ "disk" \in Faults
        /\ cache' = "broken" /\ recent' = TRUE /\ UNCHANGED <<inst, scars>>
  /\ Goto(p, "unlock")
  /\ UNCHANGED <<holder, repo, exists, catalog>>

(***************************************************************************)
(* A short write deletes the file and reports success, and then            *)
(* database_open_read fails.  It may fail also when the write did not.     *)
(***************************************************************************)
RepoFails(p) ==
  /\ \/ pc[p] = "repo" /\ Faults \cap {"network", "open"} # {} /\ UNCHANGED diskVars
     \/ pc[p] = "create_cache" /\ "open" \in Faults /\ UNCHANGED diskVars
     \/ /\ pc[p] = "write"
        /\ \/ /\ "disk" \in Faults
              /\ cache' = "absent" /\ recent' = FALSE /\ scars' = scars \ {"cache", "cut"}
           \/ "open" \in Faults /\ Fill
        /\ UNCHANGED inst
  /\ Goto(p, "unlock")
  /\ UNCHANGED <<holder, repo, exists, catalog>>

-----------------------------------------------------------------------------
(***************************************************************************)
(* The command is over, and manager_free closes the databases.             *)
(***************************************************************************)
Close(p) ==
  /\ pc[p] = "command"
  /\ catalog' = [catalog EXCEPT ![p] = "none"]
  /\ Goto(p, "unlock")
  /\ UNCHANGED <<holder, diskVars, repo, exists>>

(***************************************************************************)
(* The kernel releases the lock of a process that dies.  Its write may be  *)
(* cut short, and its transaction is rolled back.  scars remembers that a  *)
(* file was left half-made.                                                *)
(***************************************************************************)
Crash(p) ==
  /\ pc[p] # "out"
  /\ "crash" \in Faults
  /\ holder' = IF holder = p THEN Nobody ELSE holder
  /\ \/ UNCHANGED <<cache, recent>>
     \/ pc[p] = "write" /\ cache' = "broken" /\ recent' = TRUE
  /\ scars' = scars \cup {f \in {"tables", "cache"} :
                          \/ f = "tables" /\ pc[p] = "create"
                          \/ f = "cache" /\ pc[p] = "write" /\ cache' = "broken"}
  /\ Leave(p)
  /\ UNCHANGED inst

(***************************************************************************)
(* MAX_METADATA_CACHE_AGE seconds pass.                                    *)
(***************************************************************************)
Age ==
  /\ recent
  /\ recent' = FALSE
  /\ UNCHANGED <<holder, inst, cache, scars, pc, repo, exists, catalog>>

Step(p) ==
  \/ StatDatabase(p) \/ OpenDatabase(p) \/ CreateTables(p) \/ OpenFails(p)
  \/ UseCache(p) \/ Download(p) \/ CreateCache(p) \/ WriteCache(p) \/ RepoFails(p)
  \/ Close(p) \/ Unlock(p)

Next ==
  \/ \E p \in Process : Start(p) \/ Lock(p) \/ LockFails(p) \/ Step(p) \/ Crash(p)
  \/ Age

Spec == Init /\ [][Next]_vars

(***************************************************************************)
(* A process that holds the lock runs and its command ends; the kernel     *)
(* does not pass a waiting process over for ever.                          *)
(***************************************************************************)
FairSpec ==
  /\ Spec
  /\ \A p \in Process : WF_vars(Step(p)) /\ SF_vars(Lock(p))

-----------------------------------------------------------------------------
(* Properties *)

Control == {"out", "lock", "stat", "open", "create", "repo", "create_cache",
            "write", "command", "unlock"}

TypeOK ==
  /\ holder \in Process \cup {Nobody}
  /\ inst \in {"absent", "empty", "created"}
  /\ cache \in {"absent", "broken", "whole"}
  /\ recent \in BOOLEAN
  /\ scars \subseteq {"tables", "cache", "cut"}
  /\ pc \in [Process -> Control]
  /\ repo \in [Process -> BOOLEAN]
  /\ exists \in [Process -> BOOLEAN]
  /\ catalog \in [Process -> {"none", "broken", "whole"}]

(***************************************************************************)
(* Two processes never work on the prefix at the same time, whoever fails  *)
(* or is killed: between lockf(F_LOCK) and its release there is one.       *)
(***************************************************************************)
Working(p) == pc[p] \notin {"out", "lock"}

OneAtATime == \A p, q \in Process : Working(p) /\ Working(q) => p = q

(***************************************************************************)
(* The tables are created only in a database that has none: no process     *)
(* creates them after another looked and before it acts on what it saw.    *)
(***************************************************************************)
TablesAreNew == \A p \in Process : pc[p] = "create" => inst = "empty"

(***************************************************************************)
(* A process that runs its command has the tables to run it on, unless an  *)
(* earlier one was stopped between the creation of the file and theirs:    *)
(* no other failure and no order of the processes leaves it without.       *)
(***************************************************************************)
AtWork(p) == pc[p] \in {"repo", "create_cache", "write", "command"}

TablesExist == \A p \in Process : AtWork(p) => inst = "created" \/ "tables" \in scars

(***************************************************************************)
(* The metadata database a process works with is a whole one, unless the   *)
(* last process that wrote it was killed while it did, or what it had      *)
(* downloaded was cut short unnoticed, which nothing checks.  No short     *)
(* write, failure to open or other process has that effect, and the next   *)
(* download makes up for it, also one that cannot be written or opened.    *)
(***************************************************************************)
CatalogIsWhole ==
  \A p \in Process :
    pc[p] = "command" /\ repo[p] =>
      \/ catalog[p] = "whole"
      \/ catalog[p] = "broken" /\ scars \cap {"cache", "cut"} # {}

(***************************************************************************)
(* database_open_write: "check whether the database exists - if no,        *)
(* initialize it", so that whoever works has the tables.                   *)
(***************************************************************************)
TablesAlwaysExist == \A p \in Process : AtWork(p) => inst = "created"

(***************************************************************************)
(* A process that waits for the lock gets it, or fails or dies.            *)
(***************************************************************************)
NobodyWaitsForEver == \A p \in Process : pc[p] = "lock" ~> pc[p] # "lock"
=============================================================================
