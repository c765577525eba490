---------------------------- MODULE MCPackageOps ----------------------------
(***************************************************************************)
(* Small archives for PackageOps: "usr" is a directory that holds the      *)
(* directory "bin" and the files "readme" and "license"; "tool" is in bin. *)
(***************************************************************************)
EXTENDS PackageOps

Dirs == {"usr", "bin"} \cap Path

Inside == [p \in Path |-> CASE p = "usr" -> {}
                            [] p \in {"bin", "readme", "license"} -> {"usr"}
                            [] p = "tool" -> {"usr", "bin"}]

(* Two packages share a directory and a file; one edition is malformed. *)
SharedPaths == {"usr", "readme", "bin"}
Two == {"p", "q"}
Sharing == [pkg \in Two |-> IF pkg = "p"
                              THEN {<<"./", "usr", "readme">>, <<"readme", "/">>}
                              ELSE {<<"usr", "bin", "readme">>}]

(* One package with nested directories. *)
TreePaths == {"usr", "bin", "tool"}
One == {"p"}
Tree == [pkg \in One |-> {<<"./", "usr", "bin", "tool">>}]
=============================================================================
