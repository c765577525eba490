------------------------------ MODULE MCManager ------------------------------
(***************************************************************************)
(* Small repositories for Manager.  "app" and "tool" share "lib", which    *)
(* needs "base"; the second edition of the catalog drops and adds edges    *)
(* and packages, as a repository does between two runs of packdude.        *)
(***************************************************************************)
EXTENDS Manager

P(deps) == [arch |-> "native", deps |-> deps]

Names == {"app", "tool", "lib", "base"}

First == [p \in Names |->
  CASE p = "app"  -> P(<<"lib", "base">>)
    [] p = "tool" -> [P(<<"lib">>) EXCEPT !.arch = "all"]
    [] p = "lib"  -> P(<<"base">>)
    [] p = "base" -> P(<<>>)]

(* app moved to tool, lib stands alone, base is built for another machine. *)
Second == [p \in {"app", "lib", "base"} |->
  CASE p = "app"  -> P(<<"tool", "lib">>)
    [] p = "lib"  -> P(<<>>)
    [] p = "base" -> [P(<<>>) EXCEPT !.arch = "foreign"]]

AcyclicCatalogs == {First, Second}

(* app and lib need each other; so do tool and base. *)
Cyclic == [p \in Names |->
  CASE p = "app"  -> P(<<"lib">>)
    [] p = "lib"  -> P(<<"base", "app">>)
    [] p = "tool" -> P(<<"base">>)
    [] p = "base" -> P(<<"tool", "lib">>)]

(* lib lists itself among its dependencies. *)
SelfDependent == [p \in {"tool", "lib", "base"} |->
  IF p = "lib" THEN P(<<"lib", "base">>) ELSE First[p]]

SelfCatalogs == {SelfDependent}

CyclesAndEdges == {Cyclic, SelfDependent}

(* The hypothesis of ManagerProofs tells the two kinds of catalog apart. *)
ASSUME CatalogsAreRanked ==
  /\ \A c \in AcyclicCatalogs : Ranks(c) # {}
  /\ \A c \in CyclesAndEdges : Ranks(c) = {}
=============================================================================
