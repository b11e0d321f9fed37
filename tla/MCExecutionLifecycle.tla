------------------------- MODULE MCExecutionLifecycle -------------------------
(* Policies and success codes for small instances of ExecutionLifecycle. *)
EXTENDS ExecutionLifecycle

Policy(k, mode, max) == [for |-> k, mode |-> mode, max |-> max]

MCPolicies ==
    {Policy("service", "never", 0), Policy("service", "on-failure", 1),
     Policy("service", "always", 2), Policy("job", "never", 0), Policy("job", "on-failure", 2)}
MCCodeSets == {{0}, {0, 1}}
=============================================================================
