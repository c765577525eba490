------------------------------ MODULE Requests ------------------------------
(***************************************************************************)
(* Manager with the memory of its user: which packages the user asked for, *)
(* told that they are there, and did not ask to remove since.              *)
(***************************************************************************)
EXTENDS Manager

VARIABLE wanted     \* the packages the user counts on

requestVars == <<vars, wanted>>

RequestsInit == Init /\ wanted = {}

(***************************************************************************)
(* The exit status of packdude is all the user learns.                     *)
(***************************************************************************)
Reported ==
  wanted' = CASE ~(pc # "idle" /\ pc' = "idle")        -> wanted
              [] status' # "success"                   -> wanted \cap Installed'
              [] cmd.action = "install"                -> wanted \cup {cmd.name}
              [] OTHER                                 -> wanted \ {cmd.name}

RequestsNext == Next /\ Reported

RequestsSpec == RequestsInit /\ [][RequestsNext]_requestVars

(***************************************************************************)
(* The user's applications do not just disappear (manager.c): a package    *)
(* the user asked for goes away only when the user asks for that.          *)
(***************************************************************************)
ApplicationsStay ==
  [][\A p \in wanted : p \in Installed \ Installed' => cmd.name = p]_requestVars
=============================================================================
