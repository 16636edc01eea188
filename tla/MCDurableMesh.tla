--------------------------- MODULE MCDurableMesh ---------------------------
(* Instances of DurableMesh for TLC: phones a, b, c.                       *)
EXTENDS DurableMesh

Both(S) == S \cup {<<e[2], e[1]>> : e \in S}
Line == Both({<<"a", "b">>, <<"b", "c">>})
Triangle == Line \cup Both({<<"a", "c">>})

MCOrigin == [o \in Objects |-> "a"]
MCTargets == [o \in Objects |-> {"c"}]
MCBothTargets == [o \in Objects |-> {"b", "c"}]
MCExpiry == [o \in Objects |-> 1]
MCOutboxOrder == [o \in Objects |-> o]
MCMemberOrder == [n \in Nodes |-> CASE n = "a" -> 0 [] n = "b" -> 1 [] n = "c" -> 2]
MCDigest == [p \in Objects \X Nodes |->
               3 * p[1] + CASE p[2] = "a" -> 2 [] p[2] = "b" -> 0 [] p[2] = "c" -> 1]
=============================================================================
