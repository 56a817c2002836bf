------------------------------- MODULE SRaftMC -------------------------------
(* Model checking of SRaft: the nodes and the commands are interchangeable.  *)
EXTENDS SRaft, TLC
Symmetry == Permutations(Server) \cup Permutations(Cmd)
==============================================================================
