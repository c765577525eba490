--------------------------- MODULE SessionProofs ---------------------------
(***************************************************************************)
(* Proofs about Session.  The key is that whoever works on the prefix      *)
(* holds the lock: what a process read from the disk is then still true    *)
(* when it acts on it, for any number of processes.                        *)
(***************************************************************************)
EXTENDS Session, TLAPS

-----------------------------------------------------------------------------
(* The inductive invariant *)

(***************************************************************************)
(* Who works holds the lock, and what it saw of the installation database, *)
(* or did to the cache, is still so.                                       *)
(***************************************************************************)
LockInv ==
  /\ TypeOK
  /\ \A p \in Process :
       /\ Working(p) => holder = p
       /\ pc[p] = "open" /\ ~exists[p] => inst = "absent"
       /\ pc[p] = "write" => cache # "absent"
  /\ TablesAreNew

(***************************************************************************)
(* A half-made file is there because of its scar, or for the while that    *)
(* the process works on it.                                                *)
(***************************************************************************)
MadeInv ==
  /\ inst = "empty" => "tables" \in scars \/ \E p \in Process : pc[p] = "create"
  /\ cache = "broken" =>
       scars \cap {"cache", "cut"} # {} \/ \E p \in Process : pc[p] = "write"
  /\ \A p \in Process :
       pc[p] = "open" /\ exists[p] => inst = "created" \/ "tables" \in scars
  /\ TablesExist
  /\ CatalogIsWhole

-----------------------------------------------------------------------------
(***************************************************************************)
(* Every step of a process that works preserves LockInv: no other process  *)
(* works, so no other can be hurt by what this one does to the disk.       *)
(***************************************************************************)
LEMMA StepKeepsLockInv ==
  ASSUME LockInv, NEW p \in Process, Step(p)
  PROVE  LockInv'
<1> USE SessionAssumption DEF LockInv, TablesAreNew, Working, TypeOK, Control, diskVars
<1>1. Working(p) /\ holder = p
  BY DEF Step, StatDatabase, OpenDatabase, CreateTables, OpenFails, UseCache,
         Download, CreateCache, WriteCache, RepoFails, Close, Unlock
<1>2. \A q \in Process \ {p} : pc[q] \in {"out", "lock"}
  BY <1>1
<1>3. CASE StatDatabase(p)
  BY <1>1, <1>2, <1>3 DEF StatDatabase, Goto
<1>4. CASE OpenDatabase(p)
  BY <1>1, <1>2, <1>4 DEF OpenDatabase, Goto, Opened
<1>5. CASE CreateTables(p)
  BY <1>1, <1>2, <1>5 DEF CreateTables, Goto, Opened
<1>6. CASE OpenFails(p)
  BY <1>1, <1>2, <1>6 DEF OpenFails, Goto
<1>7. CASE UseCache(p)
  BY <1>1, <1>2, <1>7 DEF UseCache, Goto
<1>8. CASE Download(p) \/ CreateCache(p)
  BY <1>1, <1>2, <1>8 DEF Download, CreateCache, Goto
<1>9. CASE WriteCache(p)
  BY <1>1, <1>2, <1>9 DEF WriteCache, Fill, Goto
<1>10. CASE RepoFails(p)
  BY <1>1, <1>2, <1>10 DEF RepoFails, Fill, Goto
<1>11. CASE Close(p)
  BY <1>1, <1>2, <1>11 DEF Close, Goto
<1>12. CASE Unlock(p)
  BY <1>1, <1>2, <1>12 DEF Unlock, Goto, Leave
<1> QED
  BY <1>3, <1>4, <1>5, <1>6, <1>7, <1>8, <1>9, <1>10, <1>11, <1>12 DEF Step

(***************************************************************************)
(* Every step of every process preserves LockInv.                          *)
(***************************************************************************)
LEMMA LockInvStep == LockInv /\ [Next]_vars => LockInv'
<1> SUFFICES ASSUME LockInv, [Next]_vars PROVE LockInv'
  OBVIOUS
<1> USE SessionAssumption DEF LockInv, TablesAreNew, Working, TypeOK, Control, diskVars
<1>1. CASE UNCHANGED vars
  BY <1>1 DEF vars
<1>2. ASSUME NEW p \in Process, Start(p)
      PROVE  LockInv'
  BY <1>2 DEF Start, Goto
<1>3. ASSUME NEW p \in Process, Lock(p)
      PROVE  LockInv'
  <2>1. \A q \in Process : pc[q] \in {"out", "lock"}
    BY <1>3 DEF Lock
  <2> QED
    BY <1>3, <2>1 DEF Lock, Goto
<1>4. ASSUME NEW p \in Process, LockFails(p)
      PROVE  LockInv'
  BY <1>4 DEF LockFails, Leave, Goto
<1>5. ASSUME NEW p \in Process, Step(p)
      PROVE  LockInv'
  BY <1>5, StepKeepsLockInv
<1>6. ASSUME NEW p \in Process, Crash(p)
      PROVE  LockInv'
  BY <1>6 DEF Crash, Leave, Goto
<1>7. CASE Age
  BY <1>7 DEF Age
<1> QED
  BY <1>1, <1>2, <1>3, <1>4, <1>5, <1>6, <1>7 DEF Next

(***************************************************************************)
(* Whoever works on the prefix holds the lock, and what it saw of the      *)
(* installation database is still true.                                    *)
(***************************************************************************)
THEOREM LockInvariant == Spec => []LockInv
<1>1. Init => LockInv
  BY SessionAssumption DEF Init, LockInv, TypeOK, TablesAreNew, Working, Control
<1> QED
  BY <1>1, LockInvStep, PTL DEF Spec

(***************************************************************************)
(* The lock file serialises all that packdude does to a prefix, for any    *)
(* number of processes and however they fail or are killed.                *)
(***************************************************************************)
THEOREM ProcessesTakeTurns == Spec => []OneAtATime
<1>1. LockInv => OneAtATime
  BY DEF LockInv, OneAtATime
<1> QED
  BY <1>1, LockInvariant, PTL

(***************************************************************************)
(* database_open_write acts on what stat told it only while that is true:  *)
(* the initialization query never meets tables that are there already.     *)
(***************************************************************************)
THEOREM CreationIsNotRepeated == Spec => []TablesAreNew
<1>1. LockInv => TablesAreNew
  BY DEF LockInv
<1> QED
  BY <1>1, LockInvariant, PTL

-----------------------------------------------------------------------------
(***************************************************************************)
(* Half-made files exist only while their maker works on them, and it      *)
(* holds the lock, or else they have their scar.                           *)
(***************************************************************************)
LEMMA MadeStep ==
  ASSUME LockInv, MadeInv, NEW p \in Process, Step(p)
  PROVE  MadeInv'
<1> USE SessionAssumption
    DEF LockInv, MadeInv, TablesAreNew, TablesExist, CatalogIsWhole, AtWork, Working,
        TypeOK, Control, diskVars
<1>1. Working(p) /\ holder = p
  BY DEF Step, StatDatabase, OpenDatabase, CreateTables, OpenFails, UseCache,
         Download, CreateCache, WriteCache, RepoFails, Close, Unlock
<1>2. \A q \in Process \ {p} : pc[q] \in {"out", "lock"}
  BY <1>1
<1>3. CASE StatDatabase(p)
  BY <1>1, <1>2, <1>3 DEF StatDatabase, Goto
<1>4. CASE OpenDatabase(p)
  BY <1>1, <1>2, <1>4 DEF OpenDatabase, Goto, Opened
<1>5. CASE CreateTables(p)
  BY <1>1, <1>2, <1>5 DEF CreateTables, Goto, Opened
<1>6. CASE OpenFails(p)
  BY <1>1, <1>2, <1>6 DEF OpenFails, Goto
<1>7. CASE UseCache(p)
  BY <1>1, <1>2, <1>7 DEF UseCache, Goto
<1>8. CASE Download(p) \/ CreateCache(p)
  BY <1>1, <1>2, <1>8 DEF Download, CreateCache, Goto
<1>9. CASE WriteCache(p)
  BY <1>1, <1>2, <1>9 DEF WriteCache, Fill, Goto
<1>10. CASE RepoFails(p)
  BY <1>1, <1>2, <1>10 DEF RepoFails, Fill, Goto
<1>11. CASE Close(p)
  BY <1>1, <1>2, <1>11 DEF Close, Goto
<1>12. CASE Unlock(p)
  BY <1>1, <1>2, <1>12 DEF Unlock, Goto, Leave
<1> QED
  BY <1>3, <1>4, <1>5, <1>6, <1>7, <1>8, <1>9, <1>10, <1>11, <1>12 DEF Step

(***************************************************************************)
(* A process that is killed leaves a scar on what it was making.           *)
(***************************************************************************)
LEMMA CrashLeavesScar ==
  ASSUME LockInv, MadeInv, NEW p \in Process, Crash(p)
  PROVE  MadeInv'
<1> USE SessionAssumption
    DEF LockInv, MadeInv, TablesAreNew, TablesExist, CatalogIsWhole, AtWork, Working,
        TypeOK, Control
<1>1. /\ inst' = inst /\ scars \subseteq scars'
      /\ pc' = [pc EXCEPT ![p] = "out"] /\ repo' = [repo EXCEPT ![p] = FALSE]
      /\ exists' = [exists EXCEPT ![p] = FALSE]
      /\ catalog' = [catalog EXCEPT ![p] = "none"]
  BY DEF Crash, Leave, Goto
<1>2. pc[p] = "create" => "tables" \in scars'
  BY DEF Crash
<1>3. cache' = "broken" => cache = "broken" \/ pc[p] = "write"
  BY DEF Crash
<1>4. pc[p] = "write" /\ cache' = "broken" => "cache" \in scars'
  BY DEF Crash
<1>5. (inst = "empty" => "tables" \in scars \/ \E q \in Process : pc[q] = "create")'
  BY <1>1, <1>2
<1>6. (cache = "broken" =>
         scars \cap {"cache", "cut"} # {} \/ \E q \in Process : pc[q] = "write")'
  BY <1>1, <1>3, <1>4
<1> QED
  BY <1>1, <1>5, <1>6

(***************************************************************************)
(* Every step preserves MadeInv, kills and failing queries included.       *)
(***************************************************************************)
LEMMA MadeInvStep == LockInv /\ MadeInv /\ [Next]_vars => MadeInv'
<1> SUFFICES ASSUME LockInv, MadeInv, [Next]_vars PROVE MadeInv'
  OBVIOUS
<1> USE SessionAssumption
    DEF LockInv, MadeInv, TablesAreNew, TablesExist, CatalogIsWhole, AtWork, Working,
        TypeOK, Control, diskVars
<1>1. CASE UNCHANGED vars
  BY <1>1 DEF vars
<1>2. ASSUME NEW p \in Process, Start(p)
      PROVE  MadeInv'
  BY <1>2 DEF Start, Goto
<1>3. ASSUME NEW p \in Process, Lock(p)
      PROVE  MadeInv'
  BY <1>3 DEF Lock, Goto
<1>4. ASSUME NEW p \in Process, LockFails(p)
      PROVE  MadeInv'
  BY <1>4 DEF LockFails, Leave, Goto
<1>5. ASSUME NEW p \in Process, Step(p)
      PROVE  MadeInv'
  BY <1>5, MadeStep
<1>6. ASSUME NEW p \in Process, Crash(p)
      PROVE  MadeInv'
  BY <1>6, CrashLeavesScar
<1>7. CASE Age
  BY <1>7 DEF Age
<1> QED
  BY <1>1, <1>2, <1>3, <1>4, <1>5, <1>6, <1>7 DEF Next

(***************************************************************************)
(* A half-made file has a maker who is still at it, or the scar of a kill, *)
(* of a query that failed or of a download that was cut short.             *)
(***************************************************************************)
THEOREM MadeInvariant == Spec => []MadeInv
<1>1. Init => MadeInv
  BY DEF Init, MadeInv, TablesExist, CatalogIsWhole, AtWork
<1> QED
  BY <1>1, MadeInvStep, LockInvariant, PTL DEF Spec

(***************************************************************************)
(* Every state of the processes, the lock and the two files is well typed. *)
(***************************************************************************)
THEOREM SessionTypeCorrect == Spec => []TypeOK
<1>1. LockInv => TypeOK
  BY DEF LockInv
<1> QED
  BY <1>1, LockInvariant, PTL

(***************************************************************************)
(* A process that reaches its command has the tables of the installation   *)
(* database, unless one was stopped while it created them                  *)
(* (database_open_write).                                                  *)
(***************************************************************************)
THEOREM TablesAreThere == Spec => []TablesExist
<1>1. MadeInv => TablesExist
  BY DEF MadeInv
<1> QED
  BY <1>1, MadeInvariant, PTL

(***************************************************************************)
(* No process works with half a metadata database, unless the last one     *)
(* that wrote it was killed meanwhile or had downloaded no more than that  *)
(* (repo_get_database, fetcher_fetch_to_file).                             *)
(***************************************************************************)
THEOREM CatalogsAreWhole == Spec => []CatalogIsWhole
<1>1. MadeInv => CatalogIsWhole
  BY DEF MadeInv
<1> QED
  BY <1>1, MadeInvariant, PTL
=============================================================================
