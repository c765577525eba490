------------------------------- MODULE MCMemory -------------------------------
(***************************************************************************)
(* Three packages in a cycle, one of them with two dependencies, and one   *)
(* that is built for another machine.                                      *)
(***************************************************************************)
EXTENDS Memory

P(deps) == [arch |-> "native", deps |-> deps]

Names == {"app", "tool", "lib"}

Cyclic == [p \in Names |->
  CASE p = "app"  -> P(<<"lib", "tool">>)
    [] p = "lib"  -> P(<<"tool", "app">>)
    [] p = "tool" -> P(<<>>)]

Foreign == [Cyclic EXCEPT !["tool"].arch = "foreign", !["lib"].deps = <<"tool">>]

Editions == {Cyclic, Foreign}

(***************************************************************************)
(* Low blocks first: what is freed is soon used again.                     *)
(***************************************************************************)
FirstFree(free) == {b \in free : \A c \in free : b <= c}
=============================================================================
