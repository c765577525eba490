----------------------------- MODULE MCRequests -----------------------------
(***************************************************************************)
(* A user of a repository where an application needs a library.            *)
(***************************************************************************)
EXTENDS Requests

P(deps) == [arch |-> "native", deps |-> deps]

Names == {"app", "tool", "lib"}

Tree == [p \in Names |->
  CASE p = "app" -> P(<<"tool", "lib">>)
    [] p = "tool" -> P(<<"lib">>)
    [] p = "lib" -> P(<<>>)]

Trees == {Tree}
=============================================================================
