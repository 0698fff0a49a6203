----------------------------- MODULE MCCommunities -----------------------------
(* Two users, two overlapping requests. *)
EXTENDS Communities

Symmetry == Permutations(Users) \cup Permutations(Names) \cup Permutations(Requests)
===============================================================================
