------------------------------ MODULE MCOwner ------------------------------
(* A machine, a container of it with the machine's host name, and another  *)
(* machine of that name.  The first PID namespace has the same id on every *)
(* machine.                                                                *)
EXTENDS Owner, TLC

CONSTANTS Here, Box, Twin, m1, m2

MCOn == (Here :> m1) @@ (Box :> m1) @@ (Twin :> m2)
MCHostname == [a \in Place |-> "host"]
MCMachineId == (Here :> 1) @@ (Box :> 3) @@ (Twin :> 2)
MCNamespace == (Here :> 1) @@ (Box :> 2) @@ (Twin :> 1)
MCHides == (Here :> {}) @@ (Box :> {"machine"}) @@ (Twin :> {"bootId", "processStart"})

MCSymmetry == Permutations(Process \ Judge) \cup Permutations(Pid)
============================================================================
