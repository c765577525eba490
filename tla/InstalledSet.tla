----------------------------- MODULE InstalledSet -----------------------------
(***************************************************************************)
(* What packdude promises of the installed packages, without a word on how *)
(* it gets there: an installation adds packages one at a time, each when   *)
(* all it needs is there and the one asked for last; a removal takes the   *)
(* package asked for, and then dependencies nobody needs any more until    *)
(* there are none.  Either may stop at any moment, with what it has done.  *)
(*                                                                         *)
(* Manager implements this specification: see ImplementsInstalledSet.      *)
(***************************************************************************)
CONSTANTS Package, NoPackage

VARIABLES
  table,    \* the installed packages: name -> [needs, reason]
  job,      \* what was asked for last
  phase,    \* "rest", "work", or "clean" once the named package is gone
  outcome   \* how the last job ended

setVars == <<table, job, phase, outcome>>

NoJob == [action |-> "none", name |-> NoPackage, reason |-> "user"]

Jobs ==
  [action : {"install"}, name : Package, reason : {"user", "core"}]
    \cup [action : {"remove"}, name : Package, reason : {"user"}]

Init ==
  /\ table = [p \in {} |-> [needs |-> {}, reason |-> "user"]]
  /\ job = NoJob
  /\ phase = "rest"
  /\ outcome = "none"

Needed(p) == \E q \in DOMAIN table \ {p} : p \in table[q].needs

Ask ==
  /\ phase = "rest"
  /\ job' \in Jobs
  /\ phase' = "work"
  /\ UNCHANGED <<table, outcome>>

(***************************************************************************)
(* The package asked for comes last, with the reason it was asked for; all *)
(* that comes before it comes as a dependency.                             *)
(***************************************************************************)
Add(p) ==
  /\ phase = "work" /\ job.action = "install"
  /\ job.name \notin DOMAIN table /\ p \notin DOMAIN table
  /\ \E needs \in SUBSET DOMAIN table :
       table' = [q \in DOMAIN table \cup {p} |->
                   IF q # p THEN table[q]
                   ELSE [needs  |-> needs,
                         reason |-> IF p = job.name THEN job.reason ELSE "dependency"]]
  /\ UNCHANGED <<job, phase, outcome>>

Without(p) == [q \in DOMAIN table \ {p} |-> table[q]]

DropNamed ==
  /\ phase = "work" /\ job.action = "remove"
  /\ job.name \in DOMAIN table
  /\ table[job.name].reason # "core" /\ ~Needed(job.name)
  /\ table' = Without(job.name)
  /\ phase' = "clean"
  /\ UNCHANGED <<job, outcome>>

DropUnneeded(p) ==
  /\ phase = "clean"
  /\ p \in DOMAIN table
  /\ table[p].reason = "dependency" /\ ~Needed(p)
  /\ table' = Without(p)
  /\ UNCHANGED <<job, phase, outcome>>

Finish(how) ==
  /\ phase' = "rest"
  /\ outcome' = how
  /\ UNCHANGED <<table, job>>

Succeed ==
  /\ \/ /\ phase = "work" /\ job.action = "install"
        /\ job.name \in DOMAIN table
     \/ /\ phase = "clean"
        /\ \A p \in DOMAIN table : table[p].reason = "dependency" => Needed(p)
  /\ Finish("success")

Stop ==
  /\ phase # "rest"
  /\ \E how \in {"failure", "killed"} : Finish(how)

Next ==
  \/ Ask \/ DropNamed \/ Succeed \/ Stop
  \/ \E p \in Package : Add(p) \/ DropUnneeded(p)

Spec == Init /\ [][Next]_setVars
=============================================================================
