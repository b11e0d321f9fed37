------------------------------ MODULE MCRunner ------------------------------
(* Policies for small instances of Runner. *)
EXTENDS Runner

Policy(mode, max) == [mode |-> mode, max |-> max, unlimited |-> FALSE]

MCNever == Policy("never", 0)
MCTwice == Policy("on-failure", 2)
MCAlways == Policy("always", 1)

MCPolicies == {MCNever, MCTwice, MCAlways}
=============================================================================
