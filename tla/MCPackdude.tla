------------------------------ MODULE MCPackdude ------------------------------
(***************************************************************************)
(* A small repository with files: "app", which needs "lib", brings a       *)
(* directory with a file; lib is one file, renamed between its editions.   *)
(***************************************************************************)
EXTENDS Packdude

Names == {"app", "lib"}

Chain == [p \in Names |->
            [arch |-> "native", deps |-> IF p = "app" THEN <<"lib">> ELSE <<>>]]

Catalog == {Chain}

Paths == {"bin", "tool", "data", "index"}
Dirs == {"bin"}
Inside == [p \in Paths |-> IF p = "tool" THEN {"bin"} ELSE {}]

Published == [p \in Names |-> IF p = "app" THEN {<<"bin", "tool">>}
                                           ELSE {<<"data">>, <<"./", "index">>}]

(***************************************************************************)
(* What the proofs about the disk assume of the archives.                  *)
(***************************************************************************)
ASSUME Separate(Path) /\ Noticed /\ DirectoriesFirst /\ SameDirectories
=============================================================================
