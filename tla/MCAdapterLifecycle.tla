------------------------ MODULE MCAdapterLifecycle ------------------------
(* Values for the model checker. *)
EXTENDS AdapterLifecycle, TLC

CONSTANTS t1, t2, s1, s2

Symm == Permutations({t1, t2}) \cup Permutations({s1, s2})
AllSystems == {"letta", "mem0", "zep"}
=============================================================================
