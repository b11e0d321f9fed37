------------------------------- MODULE MCReload -------------------------------
(* A small instance of Reload: the definitions a is given differ in their    *)
(* policy and two of them in the process or the kind too, while b comes and  *)
(* goes.                                                                     *)
EXTENDS Reload

CONSTANTS a, b

D(k, p, q) == [kind |-> k, process |-> p, policy |-> q]
MCFirst == D("service", 1, 1)
MCChanges == {D("service", 2, 2), D("service", 1, 3), D("job", 2, 3)}
MCDefinitions == {MCFirst} \cup MCChanges
MCEditable == [w \in {a, b} |-> (IF w = a THEN MCChanges ELSE {MCFirst}) \cup {Absent}]
=============================================================================
